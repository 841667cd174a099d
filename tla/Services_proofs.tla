---------------------------- MODULE Services_proofs ----------------------------
(***************************************************************************)
(* Theorems of the components that share no state: one-time codes, refresh   *)
(* tokens, the limit on registrations and the gateway, for any number of     *)
(* requests, codes, tokens and accounts; and of all of them together.        *)
(***************************************************************************)
EXTENDS Services, Accounts_proofs, Storage_proofs, TLAPS

-----------------------------------------------------------------------------
(* Otp.  OtpInv is inductive; each of its conjuncts has a lemma that says    *)
(* which of the others keep a step from disturbing it.                       *)

\* There is no code and nobody asks for one.
LEMMA OtpInitInv == OtpInit => OtpInv
BY MaxAttemptsAssumption, MaxCodesAssumption
   DEF OtpInit, OtpInv, OtpTypeOK, CodesInOrder, Stored, SpentNotStored, Counted,
       NoVerifier, GuessesBounded, UsedCodeIsGone, Awaits, Codes, NoCode

\* Types are preserved.
LEMMA OtpTypeStep ==
  ASSUME OtpTypeOK, CodesInOrder, OtpNext
  PROVE  OtpTypeOK'
<1> USE MaxAttemptsAssumption, MaxCodesAssumption
    DEF OtpTypeOK, CodesInOrder, Stored, Awaits, Codes, NoCode, Goto, End
<1>1. ASSUME NEW v \in Verifiers, Verify(v)
      PROVE  OtpTypeOK'
  BY <1>1 DEF Verify
<1>2. ASSUME NEW v \in Verifiers, ReadAttempts(v)
      PROVE  OtpTypeOK'
  BY <1>2 DEF ReadAttempts
<1>3. ASSUME NEW v \in Verifiers, DropCode(v)
      PROVE  OtpTypeOK'
  BY <1>3 DEF DropCode
<1>4. ASSUME NEW v \in Verifiers, DropAttempts(v)
      PROVE  OtpTypeOK'
  BY <1>4 DEF DropAttempts
<1>5. ASSUME NEW v \in Verifiers, CountAttempt(v)
      PROVE  OtpTypeOK'
  BY <1>5 DEF CountAttempt
<1>6. ASSUME NEW v \in Verifiers, CompareCode(v)
      PROVE  OtpTypeOK'
  BY <1>6 DEF CompareCode
<1>7. ASSUME NEW v \in Verifiers, DeleteCode(v)
      PROVE  OtpTypeOK'
  BY <1>7 DEF DeleteCode
<1>8. ASSUME NEW v \in Verifiers, DeleteAttempts(v)
      PROVE  OtpTypeOK'
  BY <1>8 DEF DeleteAttempts
<1>9. ASSUME NEW v \in Verifiers, VerifyFails(v)
      PROVE  OtpTypeOK'
  BY <1>9 DEF VerifyFails
<1>10. CASE RequestOtp
  BY <1>10 DEF RequestOtp
<1>11. CASE GenerateOtpCode
  <2>1. alone' \in BOOLEAN
    <3>1. NoVerifier \in BOOLEAN
      BY DEF NoVerifier
    <3> QED
      BY <1>11, <3>1, Zenon DEF GenerateOtpCode
  <2>2. code' \in Codes /\ expiry' \in {"first", "last", "never"} /\ guesses' \in Nat
    BY <1>11 DEF GenerateOtpCode
  <2> QED
    BY <1>11, <2>1, <2>2 DEF GenerateOtpCode
<1>12. CASE GenerateOtpAttempts
  BY <1>12 DEF GenerateOtpAttempts
<1>13. CASE GenerateOtpFails
  BY <1>13 DEF GenerateOtpFails
<1>14. CASE ExpireCode
  BY <1>14 DEF ExpireCode
<1>15. CASE ExpireAttempts
  BY <1>15 DEF ExpireAttempts
<1> QED
  <2> HIDE DEF OtpTypeOK
  <2> QED
    BY <1>1, <1>2, <1>3, <1>4, <1>5, <1>6, <1>7, <1>8, <1>9, <1>10,
       <1>11, <1>12, <1>13, <1>14, <1>15
       DEF OtpNext, VerifyStep

\* What requests know of the codes is preserved.
LEMMA CodesStep ==
  ASSUME OtpTypeOK, CodesInOrder, SpentNotStored, OtpNext
  PROVE  CodesInOrder'
<1> USE MaxAttemptsAssumption, MaxCodesAssumption
    DEF OtpTypeOK, CodesInOrder, SpentNotStored, Stored, Awaits, Codes, NoCode, Goto, End
<1>1. ASSUME NEW v \in Verifiers, Verify(v)
      PROVE  CodesInOrder'
  BY <1>1 DEF Verify
<1>2. ASSUME NEW v \in Verifiers, ReadAttempts(v)
      PROVE  CodesInOrder'
  BY <1>2 DEF ReadAttempts
<1>3. ASSUME NEW v \in Verifiers, DropCode(v)
      PROVE  CodesInOrder'
  BY <1>3 DEF DropCode
<1>4. ASSUME NEW v \in Verifiers, DropAttempts(v)
      PROVE  CodesInOrder'
  BY <1>4 DEF DropAttempts
<1>5. ASSUME NEW v \in Verifiers, CountAttempt(v)
      PROVE  CodesInOrder'
  BY <1>5 DEF CountAttempt
<1>6. ASSUME NEW v \in Verifiers, CompareCode(v)
      PROVE  CodesInOrder'
  <2>1. /\ UNCHANGED <<code, drawn, sending, spent>>
        /\ \A w \in Verifiers \ {v} : at'[w] = at[w] /\ guess'[w] = guess[w]
        /\ \A w \in Verifiers : w \in replay' => w \in replay
    BY <1>6 DEF CompareCode
  <2>2. CASE at'[v] = "code.del"
    <3>1. code # NoCode /\ guess[v] = code /\ UNCHANGED <<guess, replay>>
      BY <1>6, <2>2 DEF CompareCode
    <3> QED
      BY <1>6, <2>1, <2>2, <3>1 DEF CompareCode
  <2>3. CASE at'[v] = "idle"
    BY <1>6, <2>1, <2>3 DEF CompareCode
  <2> QED
    BY <1>6, <2>2, <2>3 DEF CompareCode
<1>7. ASSUME NEW v \in Verifiers, DeleteCode(v)
      PROVE  CodesInOrder'
  BY <1>7 DEF DeleteCode
<1>8. ASSUME NEW v \in Verifiers, DeleteAttempts(v)
      PROVE  CodesInOrder'
  BY <1>8 DEF DeleteAttempts
<1>9. ASSUME NEW v \in Verifiers, VerifyFails(v)
      PROVE  CodesInOrder'
  BY <1>9 DEF VerifyFails
<1>10. CASE RequestOtp
  BY <1>10 DEF RequestOtp
<1>11. CASE GenerateOtpCode
  BY <1>11 DEF GenerateOtpCode
<1>12. CASE GenerateOtpAttempts
  BY <1>12 DEF GenerateOtpAttempts
<1>13. CASE GenerateOtpFails
  BY <1>13 DEF GenerateOtpFails
<1>14. CASE ExpireCode
  BY <1>14 DEF ExpireCode
<1>15. CASE ExpireAttempts
  BY <1>15 DEF ExpireAttempts
<1> QED
  <2> HIDE DEF CodesInOrder
  <2> QED
    BY <1>1, <1>2, <1>3, <1>4, <1>5, <1>6, <1>7, <1>8, <1>9, <1>10,
       <1>11, <1>12, <1>13, <1>14, <1>15
       DEF OtpNext, VerifyStep

\* A used code is not stored again.
LEMMA SpentStep ==
  ASSUME OtpTypeOK, CodesInOrder, SpentNotStored, OtpNext
  PROVE  SpentNotStored'
<1> USE MaxAttemptsAssumption, MaxCodesAssumption
    DEF OtpTypeOK, CodesInOrder, SpentNotStored, Stored, Codes, NoCode, Goto, End
<1>1. ASSUME NEW v \in Verifiers, Verify(v)
      PROVE  SpentNotStored'
  BY <1>1 DEF Verify
<1>2. ASSUME NEW v \in Verifiers, ReadAttempts(v)
      PROVE  SpentNotStored'
  BY <1>2 DEF ReadAttempts
<1>3. ASSUME NEW v \in Verifiers, DropCode(v)
      PROVE  SpentNotStored'
  BY <1>3 DEF DropCode
<1>4. ASSUME NEW v \in Verifiers, DropAttempts(v)
      PROVE  SpentNotStored'
  BY <1>4 DEF DropAttempts
<1>5. ASSUME NEW v \in Verifiers, CountAttempt(v)
      PROVE  SpentNotStored'
  BY <1>5 DEF CountAttempt
<1>6. ASSUME NEW v \in Verifiers, CompareCode(v)
      PROVE  SpentNotStored'
  BY <1>6 DEF CompareCode
<1>7. ASSUME NEW v \in Verifiers, DeleteCode(v)
      PROVE  SpentNotStored'
  BY <1>7 DEF DeleteCode
<1>8. ASSUME NEW v \in Verifiers, DeleteAttempts(v)
      PROVE  SpentNotStored'
  BY <1>8 DEF DeleteAttempts
<1>9. ASSUME NEW v \in Verifiers, VerifyFails(v)
      PROVE  SpentNotStored'
  BY <1>9 DEF VerifyFails
<1>10. CASE RequestOtp
  BY <1>10 DEF RequestOtp
<1>11. CASE GenerateOtpCode
  BY <1>11 DEF GenerateOtpCode
<1>12. CASE GenerateOtpAttempts
  BY <1>12 DEF GenerateOtpAttempts
<1>13. CASE GenerateOtpFails
  BY <1>13 DEF GenerateOtpFails
<1>14. CASE ExpireCode
  BY <1>14 DEF ExpireCode
<1>15. CASE ExpireAttempts
  BY <1>15 DEF ExpireAttempts
<1> QED
  <2> HIDE DEF SpentNotStored
  <2> QED
    BY <1>1, <1>2, <1>3, <1>4, <1>5, <1>6, <1>7, <1>8, <1>9, <1>10,
       <1>11, <1>12, <1>13, <1>14, <1>15
       DEF OtpNext, VerifyStep

\* The counter keeps up with the guesses.
LEMMA CountedStep ==
  ASSUME OtpTypeOK, Counted, OtpNext
  PROVE  Counted'
<1> USE MaxAttemptsAssumption, MaxCodesAssumption
    DEF OtpTypeOK, Counted, NoVerifier, Awaits, Codes, NoCode, Goto, End
<1>1. ASSUME NEW v \in Verifiers, Verify(v)
      PROVE  Counted'
  BY <1>1 DEF Verify
<1>2. ASSUME NEW v \in Verifiers, ReadAttempts(v)
      PROVE  Counted'
  BY <1>2 DEF ReadAttempts
<1>3. ASSUME NEW v \in Verifiers, DropCode(v)
      PROVE  Counted'
  BY <1>3 DEF DropCode
<1>4. ASSUME NEW v \in Verifiers, DropAttempts(v)
      PROVE  Counted'
  BY <1>4 DEF DropAttempts
<1>5. ASSUME NEW v \in Verifiers, CountAttempt(v)
      PROVE  Counted'
  BY <1>5 DEF CountAttempt
<1>6. ASSUME NEW v \in Verifiers, CompareCode(v)
      PROVE  Counted'
  BY <1>6 DEF CompareCode
<1>7. ASSUME NEW v \in Verifiers, DeleteCode(v)
      PROVE  Counted'
  BY <1>7 DEF DeleteCode
<1>8. ASSUME NEW v \in Verifiers, DeleteAttempts(v)
      PROVE  Counted'
  BY <1>8 DEF DeleteAttempts
<1>9. ASSUME NEW v \in Verifiers, VerifyFails(v)
      PROVE  Counted'
  BY <1>9 DEF VerifyFails
<1>10. CASE RequestOtp
  BY <1>10 DEF RequestOtp
<1>11. CASE GenerateOtpCode
  BY <1>11 DEF GenerateOtpCode
<1>12. CASE GenerateOtpAttempts
  BY <1>12 DEF GenerateOtpAttempts
<1>13. CASE GenerateOtpFails
  BY <1>13 DEF GenerateOtpFails
<1>14. CASE ExpireCode
  BY <1>14 DEF ExpireCode
<1>15. CASE ExpireAttempts
  BY <1>15 DEF ExpireAttempts
<1> QED
  <2> HIDE DEF Counted
  <2> QED
    BY <1>1, <1>2, <1>3, <1>4, <1>5, <1>6, <1>7, <1>8, <1>9, <1>10,
       <1>11, <1>12, <1>13, <1>14, <1>15
       DEF OtpNext, VerifyStep

\* No wrong guess is one too many.
LEMMA BoundedStep ==
  ASSUME OtpTypeOK, Counted, GuessesBounded, OtpNext
  PROVE  GuessesBounded'
<1> USE MaxAttemptsAssumption, MaxCodesAssumption
    DEF OtpTypeOK, Counted, GuessesBounded, Codes, NoCode, Goto, End
<1>1. ASSUME NEW v \in Verifiers, Verify(v)
      PROVE  GuessesBounded'
  BY <1>1 DEF Verify
<1>2. ASSUME NEW v \in Verifiers, ReadAttempts(v)
      PROVE  GuessesBounded'
  BY <1>2 DEF ReadAttempts
<1>3. ASSUME NEW v \in Verifiers, DropCode(v)
      PROVE  GuessesBounded'
  BY <1>3 DEF DropCode
<1>4. ASSUME NEW v \in Verifiers, DropAttempts(v)
      PROVE  GuessesBounded'
  BY <1>4 DEF DropAttempts
<1>5. ASSUME NEW v \in Verifiers, CountAttempt(v)
      PROVE  GuessesBounded'
  BY <1>5 DEF CountAttempt
<1>6. ASSUME NEW v \in Verifiers, CompareCode(v)
      PROVE  GuessesBounded'
  BY <1>6 DEF CompareCode
<1>7. ASSUME NEW v \in Verifiers, DeleteCode(v)
      PROVE  GuessesBounded'
  BY <1>7 DEF DeleteCode
<1>8. ASSUME NEW v \in Verifiers, DeleteAttempts(v)
      PROVE  GuessesBounded'
  BY <1>8 DEF DeleteAttempts
<1>9. ASSUME NEW v \in Verifiers, VerifyFails(v)
      PROVE  GuessesBounded'
  BY <1>9 DEF VerifyFails
<1>10. CASE RequestOtp
  BY <1>10 DEF RequestOtp
<1>11. CASE GenerateOtpCode
  BY <1>11 DEF GenerateOtpCode
<1>12. CASE GenerateOtpAttempts
  BY <1>12 DEF GenerateOtpAttempts
<1>13. CASE GenerateOtpFails
  BY <1>13 DEF GenerateOtpFails
<1>14. CASE ExpireCode
  BY <1>14 DEF ExpireCode
<1>15. CASE ExpireAttempts
  BY <1>15 DEF ExpireAttempts
<1> QED
  <2> HIDE DEF GuessesBounded
  <2> QED
    BY <1>1, <1>2, <1>3, <1>4, <1>5, <1>6, <1>7, <1>8, <1>9, <1>10,
       <1>11, <1>12, <1>13, <1>14, <1>15
       DEF OtpNext, VerifyStep

\* A used code is not accepted.
LEMMA UsedStep ==
  ASSUME OtpTypeOK, CodesInOrder, SpentNotStored, UsedCodeIsGone, OtpNext
  PROVE  UsedCodeIsGone'
<1> USE MaxAttemptsAssumption, MaxCodesAssumption
    DEF OtpTypeOK, CodesInOrder, SpentNotStored, UsedCodeIsGone, Codes, NoCode, Goto, End
<1>1. ASSUME NEW v \in Verifiers, Verify(v)
      PROVE  UsedCodeIsGone'
  BY <1>1 DEF Verify
<1>2. ASSUME NEW v \in Verifiers, ReadAttempts(v)
      PROVE  UsedCodeIsGone'
  BY <1>2 DEF ReadAttempts
<1>3. ASSUME NEW v \in Verifiers, DropCode(v)
      PROVE  UsedCodeIsGone'
  BY <1>3 DEF DropCode
<1>4. ASSUME NEW v \in Verifiers, DropAttempts(v)
      PROVE  UsedCodeIsGone'
  BY <1>4 DEF DropAttempts
<1>5. ASSUME NEW v \in Verifiers, CountAttempt(v)
      PROVE  UsedCodeIsGone'
  BY <1>5 DEF CountAttempt
<1>6. ASSUME NEW v \in Verifiers, CompareCode(v)
      PROVE  UsedCodeIsGone'
  BY <1>6 DEF CompareCode
<1>7. ASSUME NEW v \in Verifiers, DeleteCode(v)
      PROVE  UsedCodeIsGone'
  BY <1>7 DEF DeleteCode
<1>8. ASSUME NEW v \in Verifiers, DeleteAttempts(v)
      PROVE  UsedCodeIsGone'
  BY <1>8 DEF DeleteAttempts
<1>9. ASSUME NEW v \in Verifiers, VerifyFails(v)
      PROVE  UsedCodeIsGone'
  BY <1>9 DEF VerifyFails
<1>10. CASE RequestOtp
  BY <1>10 DEF RequestOtp
<1>11. CASE GenerateOtpCode
  BY <1>11 DEF GenerateOtpCode
<1>12. CASE GenerateOtpAttempts
  BY <1>12 DEF GenerateOtpAttempts
<1>13. CASE GenerateOtpFails
  BY <1>13 DEF GenerateOtpFails
<1>14. CASE ExpireCode
  BY <1>14 DEF ExpireCode
<1>15. CASE ExpireAttempts
  BY <1>15 DEF ExpireAttempts
<1> QED
  <2> HIDE DEF UsedCodeIsGone
  <2> QED
    BY <1>1, <1>2, <1>3, <1>4, <1>5, <1>6, <1>7, <1>8, <1>9, <1>10,
       <1>11, <1>12, <1>13, <1>14, <1>15
       DEF OtpNext, VerifyStep

\* Every step preserves the invariant.
LEMMA OtpStepInv == OtpInv /\ [OtpNext]_otpVars => OtpInv'
<1>1. ASSUME OtpInv, OtpNext
      PROVE  OtpInv'
  BY <1>1, OtpTypeStep, CodesStep, SpentStep, CountedStep, BoundedStep, UsedStep
     DEF OtpInv
<1>2. ASSUME OtpInv, UNCHANGED otpVars
      PROVE  OtpInv'
  BY <1>2 DEF otpVars, OtpInv, OtpTypeOK, CodesInOrder, Stored, SpentNotStored,
     Counted, NoVerifier, GuessesBounded, UsedCodeIsGone
<1> QED
  BY <1>1, <1>2

\* The invariant holds in every reachable state.
THEOREM OtpInvariant == OtpSpec => []OtpInv
  BY OtpInitInv, OtpStepInv, PTL DEF OtpSpec

\* Type correctness of the keys and of the requests.
THEOREM OtpTypeCorrect == OtpSpec => []OtpTypeOK
<1>1. OtpInv => OtpTypeOK
  BY DEF OtpInv
<1> QED
  BY <1>1, OtpInvariant, PTL

\* otp.service.ts: while requests do not overlap, MaxAttempts wrong guesses are
\* compared with a code at most, whatever fails and whatever expires.
THEOREM AttemptsLimited == OtpSpec => []GuessesBounded
<1>1. OtpInv => GuessesBounded
  BY DEF OtpInv
<1> QED
  BY <1>1, OtpInvariant, PTL

\* otp.service.ts: a code that a verification has used up is not accepted by one
\* that begins later, whatever overlaps.
THEOREM SingleUse == OtpSpec => []UsedCodeIsGone
<1>1. OtpInv => UsedCodeIsGone
  BY DEF OtpInv
<1> QED
  BY <1>1, OtpInvariant, PTL

-----------------------------------------------------------------------------
(* RefreshTokens.  TokensInv says of every login which of its tokens may be  *)
(* live and who may be about to issue the next one.                          *)

\* No token has been issued.
LEMMA TokensInitInv == TokensInit => TokensInv
BY MaxTokensAssumption
   DEF TokensInit, TokensInv, TokensTypeOK, IssuedInOrder, RevokedBeforeInsert,
       LastOfLogin, LastOf, OneLivePerLogin, RevokedForGood, Tokens, NoToken, Refreshing

\* One live token per login follows from the lineages.
LEMMA LastIsOne ==
  TokensTypeOK /\ IssuedInOrder /\ LastOfLogin => OneLivePerLogin
<1> SUFFICES ASSUME TokensTypeOK, IssuedInOrder, LastOfLogin,
                    NEW s \in Tokens, NEW t \in Tokens,
                    row[s] = "live", row[t] = "live", origin[s] = origin[t],
                    origin[t] \notin forked
             PROVE  s = t
    BY DEF OneLivePerLogin
<1> USE MaxTokensAssumption DEF Tokens, NoToken
<1>1. s <= issued /\ t <= issued
  BY DEF TokensTypeOK, IssuedInOrder
<1>2. origin[t] \in Tokens \ forked
  BY <1>1 DEF TokensTypeOK, IssuedInOrder
<1>3. t <= s
  BY <1>2 DEF LastOfLogin, LastOf
<1>4. s <= t
  BY <1>2 DEF LastOfLogin, LastOf
<1> QED
  BY <1>3, <1>4

\* Everything but OneLivePerLogin, which follows.
Base == TokensTypeOK /\ IssuedInOrder /\ RevokedBeforeInsert /\ LastOfLogin
        /\ RevokedForGood

\* The types of the two Boolean columns, and of the rest.
Booleans == exists \in BOOLEAN /\ isActive \in BOOLEAN
OtherTokenVars ==
  /\ issued \in Nat /\ issued <= MaxTokens
  /\ row \in [Tokens -> {"none", "live", "revoked", "gone"}]
  /\ expired \in Nat /\ expired <= issued
  /\ await \in [Handlers -> TokenAwaits \cup {"idle"}]
  /\ presented \in [Handlers -> Tokens \cup {NoToken}]
  /\ origin \in [Tokens -> Tokens \cup {NoToken}]
  /\ forked \subseteq Tokens
  /\ cut \in Nat /\ cut <= issued

\* Types are preserved.
LEMMA TokensTypeStep ==
  ASSUME TokensTypeOK, IssuedInOrder, TokensNext
  PROVE  TokensTypeOK'
<1>1. Booleans'
  <2>1. UNCHANGED <<exists, isActive>> \/ SetActive \/ DeleteUser
    BY Zenon DEF TokensNext, HandlerStep, Login, GoogleLogin, Refresh, ReuseDetected,
       RefreshReadsUser, Rotate, GenerateTokens, Abort, Logout, LogoutAll,
       ResetRevokesAll, Expire
  <2> QED
    BY <2>1, Zenon DEF Booleans, TokensTypeOK, SetActive, DeleteUser
<1>2. OtherTokenVars'
  <2> USE MaxTokensAssumption
      DEF OtherTokenVars, TokensTypeOK, TokenAwaits, Tokens, NoToken, Start, Move, Leave,
          RevokeLive
  <2>1. ASSUME NEW h \in Handlers, Login(h) \/ GoogleLogin(h) \/ Abort(h)
        PROVE  OtherTokenVars'
    BY <2>1 DEF Login, GoogleLogin, Abort
  <2>2. ASSUME NEW h \in Handlers, NEW t \in Tokens, Refresh(h, t)
        PROVE  OtherTokenVars'
    <3>1. t <= issued /\ origin[t] \in Tokens
      BY <2>2 DEF Refresh, IssuedInOrder
    <3>2. forked' \subseteq Tokens
      <4>1. forked' = forked \/ forked' = forked \cup {origin[t]}
        BY <2>2, Zenon DEF Refresh
      <4> QED
        BY <3>1, <4>1
    <3>3. await' \in [Handlers -> TokenAwaits \cup {"idle"}]
      BY <2>2 DEF Refresh
    <3>4. presented' \in [Handlers -> Tokens \cup {NoToken}]
      BY <2>2 DEF Refresh
    <3> QED
      BY <2>2, <3>2, <3>3, <3>4 DEF Refresh
  <2>3. ASSUME NEW h \in Handlers, ReuseDetected(h)
        PROVE  OtherTokenVars'
    BY <2>3 DEF ReuseDetected
  <2>4. ASSUME NEW h \in Handlers, RefreshReadsUser(h)
        PROVE  OtherTokenVars'
    BY <2>4 DEF RefreshReadsUser
  <2>5. ASSUME NEW h \in Handlers, Rotate(h)
        PROVE  OtherTokenVars'
    BY <2>5 DEF Rotate
  <2>6. ASSUME NEW h \in Handlers, GenerateTokens(h)
        PROVE  OtherTokenVars'
    <3>1. issued' \in Nat /\ issued' <= MaxTokens /\ issued <= issued'
      BY <2>6 DEF GenerateTokens
    <3>2. row' \in [Tokens -> {"none", "live", "revoked", "gone"}]
      BY <2>6 DEF GenerateTokens
    <3>3. origin' \in [Tokens -> Tokens \cup {NoToken}]
      BY <2>6 DEF GenerateTokens
    <3>4. /\ await' \in [Handlers -> TokenAwaits \cup {"idle"}]
          /\ presented' \in [Handlers -> Tokens \cup {NoToken}]
          /\ UNCHANGED <<expired, forked, cut>>
      BY <2>6 DEF GenerateTokens
    <3> QED
      BY <3>1, <3>2, <3>3, <3>4
  <2>7. ASSUME NEW t \in Tokens, Logout(t)
        PROVE  OtherTokenVars'
    BY <2>7 DEF Logout
  <2>8. CASE LogoutAll \/ ResetRevokesAll
    <3>1. row' = [t \in Tokens |-> IF row[t] = "live" THEN "revoked" ELSE row[t]]
      BY <2>8 DEF LogoutAll, ResetRevokesAll
    <3>2. row' \in [Tokens -> {"none", "live", "revoked", "gone"}]
      BY <3>1
    <3>3. cut' = issued /\ UNCHANGED <<issued, expired, await, presented, origin, forked>>
      BY <2>8 DEF LogoutAll, ResetRevokesAll
    <3> QED
      BY <3>2, <3>3
  <2>9. CASE DeleteUser
    <3>1. row' \in [Tokens -> {"none", "live", "revoked", "gone"}]
      BY <2>9 DEF DeleteUser
    <3> QED
      BY <2>9, <3>1 DEF DeleteUser
  <2>10. CASE SetActive
    BY <2>10 DEF SetActive
  <2>11. CASE Expire
    BY <2>11 DEF Expire
  <2> QED
    <3> HIDE DEF OtherTokenVars
    <3> QED
      BY <2>1, <2>2, <2>3, <2>4, <2>5, <2>6, <2>7, <2>8, <2>9,
         <2>10, <2>11 DEF TokensNext, HandlerStep
<1> QED
  BY <1>1, <1>2, Zenon DEF Booleans, OtherTokenVars, TokensTypeOK

\* A step that issues no token and makes none live: tokens are revoked or go with
\* the user, and a handler begins a login, begins to answer a reuse, goes on to
\* rotate or to insert, or ends.
RowsOnlyRevoked ==
  \A t \in Tokens : row'[t] = row[t] \/ (t <= issued /\ row'[t] \in {"revoked", "gone"})
HandlerGoesOn(h) ==
  \/ await'[h] = await[h] /\ presented'[h] = presented[h]
  \/ await'[h] = "idle" /\ presented'[h] = NoToken
  \/ await'[h] = "insert" /\ presented'[h] = NoToken
  \/ /\ await'[h] = "revokeAll"
     /\ presented'[h] # NoToken /\ presented'[h] <= issued
  \/ await[h] = "readUser" /\ await'[h] = "rotate" /\ presented'[h] = presented[h]
  \/ /\ await[h] = "rotate" /\ await'[h] = "insert" /\ presented'[h] = presented[h]
     /\ row'[presented[h]] # "live"

\* Such a step keeps what the invariant says of the tokens.
LEMMA QuietStep ==
  ASSUME Base, TokensTypeOK', RowsOnlyRevoked,
         \A h \in Handlers : HandlerGoesOn(h),
         issued' = issued, origin' = origin, forked' = forked,
         cut' = cut \/ \A t \in Tokens : row'[t] # "live"
  PROVE  Base'
<1> USE MaxTokensAssumption
    DEF Base, Tokens, NoToken, RowsOnlyRevoked, HandlerGoesOn
<1>1. IssuedInOrder'
  <2>1. ASSUME NEW t \in Tokens
        PROVE  /\ t > issued' => row'[t] = "none" /\ origin'[t] = NoToken
               /\ t <= issued' => origin'[t] \in Tokens /\ origin'[t] <= issued'
    BY DEF TokensTypeOK, IssuedInOrder
  <2>2. ASSUME NEW h \in Handlers
        PROVE  /\ presented'[h] <= issued'
               /\ await'[h] \in {"revokeAll", "readUser", "rotate"} => presented'[h] # NoToken
               /\ await'[h] = "idle" => presented'[h] = NoToken
    <3>1. HandlerGoesOn(h)
      OBVIOUS
    <3>2. /\ presented[h] <= issued
          /\ await[h] \in {"revokeAll", "readUser", "rotate"} => presented[h] # NoToken
          /\ await[h] = "idle" => presented[h] = NoToken
      BY DEF IssuedInOrder
    <3>3. NoToken <= issued
      BY DEF TokensTypeOK
    <3> QED
      BY <3>1, <3>2, <3>3
  <2> QED
    BY <2>1, <2>2 DEF IssuedInOrder
<1>2. RevokedBeforeInsert'
  <2> SUFFICES ASSUME NEW h \in Handlers, await'[h] = "insert", presented'[h] # NoToken
               PROVE  row'[presented'[h]] # "live"
    BY DEF RevokedBeforeInsert
  <2>1. HandlerGoesOn(h) /\ presented'[h] \in Tokens
    BY DEF TokensTypeOK
  <2>2. row'[presented[h]] # "live" /\ presented'[h] = presented[h]
    BY <2>1 DEF RevokedBeforeInsert
  <2> QED
    BY <2>2
<1>3. ASSUME NEW h \in Handlers, Refreshing(h)'
      PROVE  Refreshing(h) /\ presented'[h] = presented[h]
  BY <1>3 DEF TokensTypeOK, TokenAwaits, IssuedInOrder, Refreshing
<1>4. ASSUME NEW t \in Tokens, row'[t] = "live"
      PROVE  row[t] = "live"
  BY <1>4 DEF TokensTypeOK
<1>5. LastOfLogin'
  BY <1>3, <1>4 DEF LastOfLogin, LastOf
<1>6. RevokedForGood'
  BY <1>4 DEF TokensTypeOK, RevokedForGood
<1> QED
  BY <1>1, <1>2, <1>5, <1>6

\* A live token is presented and found valid.
LEMMA RefreshInv ==
  ASSUME Base, NEW h \in Handlers, NEW t \in Tokens, Refresh(h, t),
         TokensTypeOK', row[t] = "live"
  PROVE  Base'
<1> USE MaxTokensAssumption DEF Base, Tokens, NoToken
<1>1. /\ await[h] = "idle" /\ presented[h] = NoToken
      /\ await' = [await EXCEPT ![h] = "readUser"]
      /\ presented' = [presented EXCEPT ![h] = t]
      /\ UNCHANGED <<issued, row, expired, origin, cut>>
  BY DEF Refresh, Start, IssuedInOrder
<1>2. forked \subseteq forked' /\ (InFlight(h, t) # {} => origin[t] \in forked')
  BY DEF Refresh
<1>3. t <= issued /\ origin[t] \in Tokens
  BY DEF IssuedInOrder, TokensTypeOK
<1>4. IssuedInOrder'
  BY <1>1, <1>3 DEF TokensTypeOK, TokenAwaits, IssuedInOrder
<1>5. RevokedBeforeInsert'
  BY <1>1 DEF TokensTypeOK, TokenAwaits, RevokedBeforeInsert
<1>6. RevokedForGood'
  BY <1>1 DEF RevokedForGood
<1>7. \A g \in Handlers \ {h} : Refreshing(g)' = Refreshing(g) /\ presented'[g] = presented[g]
  BY <1>1 DEF TokensTypeOK, Refreshing
<1>8. ASSUME origin[t] \notin forked', NEW g \in Handlers \ {h}, Refreshing(g)
      PROVE  origin[presented[g]] # origin[t]
  <2>1. SUFFICES ASSUME origin[presented[g]] = origin[t]
                 PROVE  FALSE
    OBVIOUS
  <2>2. presented[g] \in Tokens
    BY <1>8 DEF Refreshing, TokensTypeOK
  <2>3. origin[t] \in Tokens \ forked
    BY <1>2, <1>3, <1>8
  <2>4. t <= presented[g]
    BY <1>8, <2>1, <2>3 DEF LastOfLogin, LastOf
  <2>5. presented[g] <= t
    BY <2>1, <2>2, <2>3 DEF LastOfLogin, LastOf
  <2>6. presented[g] = t
    BY <2>2, <2>4, <2>5
  <2>7. g \in InFlight(h, t)
    BY <1>8, <2>6 DEF InFlight, Refreshing
  <2> QED
    BY <1>2, <1>8, <2>7
<1>9. LastOfLogin'
  <2> SUFFICES ASSUME NEW o \in Tokens, o \notin forked'
               PROVE  LastOf(o)'
    BY DEF LastOfLogin
  <2>1. LastOf(o)
    BY <1>2 DEF LastOfLogin
  <2>2. ASSUME NEW g \in Handlers, Refreshing(g)', origin'[presented'[g]] = o,
               NEW s \in Tokens, origin'[s] = o
        PROVE  s <= presented'[g]
    <3>1. CASE g # h
      BY <1>1, <1>7, <2>1, <2>2, <3>1 DEF LastOf
    <3>2. CASE g = h
      <4>1. presented'[h] = t /\ o = origin[t] /\ origin[s] = o
        BY <1>1, <2>2, <3>2 DEF TokensTypeOK
      <4> QED
        BY <2>1, <4>1, <3>2 DEF LastOf
    <3> QED
      BY <3>1, <3>2
  <2>3. ASSUME NEW g \in Handlers, Refreshing(g)', origin'[presented'[g]] = o,
               NEW k \in Handlers, Refreshing(k)', origin'[presented'[k]] = o
        PROVE  k = g
    <3>1. presented'[h] = t
      BY <1>1 DEF TokensTypeOK
    <3>2. CASE k = h /\ g # h
      BY <1>1, <1>7, <1>8, <2>3, <3>1, <3>2
    <3>3. CASE g = h /\ k # h
      BY <1>1, <1>7, <1>8, <2>3, <3>1, <3>3
    <3>4. CASE g # h /\ k # h
      BY <1>1, <1>7, <2>1, <2>3, <3>4 DEF LastOf
    <3> QED
      BY <3>2, <3>3, <3>4
  <2>4. \A s, q \in Tokens :
          row'[s] = "live" /\ origin'[s] = o /\ origin'[q] = o => q <= s
    BY <1>1, <2>1 DEF LastOf
  <2> QED
    BY <2>2, <2>3, <2>4 DEF LastOf
<1> QED
  BY <1>4, <1>5, <1>6, <1>9

\* A successor, or the first token of a login, is inserted.
LEMMA InsertInv ==
  ASSUME Base, NEW h \in Handlers, GenerateTokens(h), TokensTypeOK', exists
  PROVE  Base'
<1> USE MaxTokensAssumption DEF Base, Tokens, NoToken
<1> DEFINE t == issued + 1
           p == presented[h]
           o == IF p = NoToken THEN t ELSE origin[p]
<1>1. /\ await[h] = "insert" /\ t \in Tokens /\ issued' = t
      /\ row' = [row EXCEPT ![t] = "live"]
      /\ origin' = [origin EXCEPT ![t] = o]
      /\ await' = [await EXCEPT ![h] = "idle"]
      /\ presented' = [presented EXCEPT ![h] = NoToken]
      /\ UNCHANGED <<forked, cut>>
  BY DEF GenerateTokens, Leave, TokensTypeOK
<1>2. o \in Tokens /\ o <= t
  BY <1>1 DEF TokensTypeOK, IssuedInOrder
<1>3. \A g \in Handlers \ {h} :
        await'[g] = await[g] /\ presented'[g] = presented[g]
  BY <1>1 DEF TokensTypeOK
<1>4. await'[h] = "idle" /\ presented'[h] = NoToken
  BY <1>1 DEF TokensTypeOK
<1>5. \A s \in Tokens \ {t} : row'[s] = row[s] /\ origin'[s] = origin[s]
  BY <1>1 DEF TokensTypeOK
<1>6. row'[t] = "live" /\ origin'[t] = o
  BY <1>1 DEF TokensTypeOK
<1>7. \A g \in Handlers : presented[g] # t
  BY <1>1 DEF TokensTypeOK, IssuedInOrder
<1> HIDE DEF o
<1>8. IssuedInOrder'
  BY <1>1, <1>2, <1>3, <1>4, <1>5, <1>6 DEF TokensTypeOK, IssuedInOrder
<1>9. RevokedBeforeInsert'
  BY <1>1, <1>3, <1>4, <1>5, <1>7 DEF TokensTypeOK, RevokedBeforeInsert
<1>10. RevokedForGood'
  BY <1>1, <1>5 DEF TokensTypeOK, RevokedForGood
<1>11. \A g \in Handlers :
         Refreshing(g)' => g # h /\ Refreshing(g) /\ presented'[g] = presented[g]
                           /\ presented[g] \in Tokens \ {t}
  BY <1>3, <1>4, <1>7 DEF Refreshing, TokensTypeOK
\* The other tokens of the login the new one belongs to are not live, and
\* nobody else refreshes one of them.
<1>12. ASSUME o \notin forked, NEW s \in Tokens \ {t}, row[s] = "live"
       PROVE  origin[s] # o
  <2>1. CASE p = NoToken
    BY <1>1, <1>12, <2>1 DEF o, TokensTypeOK, IssuedInOrder
  <2>2. CASE p # NoToken
    <3>1. Refreshing(h) /\ p \in Tokens /\ row[p] # "live" /\ o = origin[p]
      BY <1>1, <2>2 DEF Refreshing, RevokedBeforeInsert, TokensTypeOK, o
    <3>2. LastOf(o)
      BY <1>2, <1>12 DEF LastOfLogin
    <3>3. ASSUME origin[s] = o
          PROVE  s <= p /\ p <= s
      BY <1>12, <3>1, <3>2, <3>3 DEF LastOf
    <3> QED
      BY <1>12, <3>1, <3>3
  <2> QED
    BY <2>1, <2>2
<1>13. ASSUME o \notin forked, NEW g \in Handlers \ {h}, Refreshing(g)
       PROVE  origin[presented[g]] # o
  <2>1. presented[g] \in Tokens /\ presented[g] <= issued
    BY <1>13 DEF Refreshing, TokensTypeOK, IssuedInOrder
  <2>2. CASE p = NoToken
    BY <1>1, <2>1, <2>2 DEF o, TokensTypeOK, IssuedInOrder
  <2>3. CASE p # NoToken
    <3>1. Refreshing(h) /\ o = origin[p]
      BY <1>1, <2>3 DEF Refreshing, o
    <3>2. LastOf(o)
      BY <1>2, <1>13 DEF LastOfLogin
    <3> QED
      BY <1>13, <3>1, <3>2 DEF LastOf
  <2> QED
    BY <2>2, <2>3
<1>14. LastOfLogin'
  <2> SUFFICES ASSUME NEW x \in Tokens, x \notin forked'
               PROVE  LastOf(x)'
    BY DEF LastOfLogin
  <2>1. LastOf(x)
    BY <1>1 DEF LastOfLogin
  <2>2. CASE x # o
    BY <1>5, <1>6, <1>11, <2>1, <2>2 DEF LastOf
  <2>3. CASE x = o
    <3>1. ASSUME NEW s \in Tokens, row'[s] = "live", origin'[s] = o
          PROVE  s = t
      BY <1>1, <1>5, <1>12, <2>3, <3>1
    <3>2. ASSUME NEW g \in Handlers, Refreshing(g)'
          PROVE  origin'[presented'[g]] # o
      BY <1>1, <1>5, <1>11, <1>13, <2>3, <3>2
    <3>3. \A s \in Tokens : origin'[s] = o => s <= t
      <4>1. \A s \in Tokens : s > t => origin'[s] = NoToken
        BY <1>1, <1>8 DEF IssuedInOrder
      <4> QED
        BY <1>1, <1>2, <4>1 DEF TokensTypeOK
    <3> QED
      BY <2>3, <3>1, <3>2, <3>3 DEF LastOf
  <2> QED
    BY <2>2, <2>3
<1> QED
  BY <1>8, <1>9, <1>10, <1>14

\* Every step preserves the invariant.
LEMMA TokensStepInv == TokensInv /\ [TokensNext]_tokenVars => TokensInv'
<1> SUFFICES ASSUME TokensInv, [TokensNext]_tokenVars
             PROVE  Base'
  <2>1. Base' => OneLivePerLogin'
    <3>1. Base => OneLivePerLogin
      BY LastIsOne DEF Base
    <3> QED
      BY <3>1, PTL
  <2> QED
    BY <2>1 DEF TokensInv, Base
<1>1. Base
  BY DEF TokensInv, Base
<1>2. CASE UNCHANGED tokenVars
  BY <1>1, <1>2 DEF tokenVars, Base, TokensTypeOK, IssuedInOrder, RevokedBeforeInsert,
     LastOfLogin, LastOf, RevokedForGood, Refreshing
<1>3. SUFFICES ASSUME TokensNext
               PROVE  Base'
  BY <1>2
<1>4. TokensTypeOK'
  BY <1>1, <1>3, TokensTypeStep DEF Base
<1> DEFINE Quiet ==
      /\ RowsOnlyRevoked /\ \A h \in Handlers : HandlerGoesOn(h)
      /\ issued' = issued /\ origin' = origin /\ forked' = forked
      /\ cut' = cut \/ \A t \in Tokens : row'[t] # "live"
<1>0. \A t \in Tokens : row[t] # "none" => t <= issued
  BY <1>1, MaxTokensAssumption DEF Base, TokensTypeOK, IssuedInOrder, Tokens
<1>5. Quiet => Base'
  BY <1>1, <1>4, QuietStep
<1> USE DEF RowsOnlyRevoked, HandlerGoesOn, Start, Move, Leave, RevokeLive, Base,
            TokensTypeOK
<1>6. ASSUME NEW h \in Handlers, NEW t \in Tokens, Refresh(h, t)
      PROVE  Base'
  <2>1. CASE row[t] = "live"
    BY <1>1, <1>4, <1>6, <2>1, RefreshInv
  <2>2. CASE row[t] = "revoked"
    <3>1. t # NoToken /\ t <= issued
      BY <1>1, <2>2, MaxTokensAssumption DEF IssuedInOrder, Tokens, NoToken
    <3>2. Quiet
      BY <1>1, <1>6, <2>2, <3>1 DEF Refresh
    <3> QED
      BY <1>5, <3>2
  <2> QED
    BY <1>6, <2>1, <2>2 DEF Refresh
<1>7. ASSUME NEW h \in Handlers, GenerateTokens(h)
      PROVE  Base'
  <2>1. CASE exists
    BY <1>1, <1>4, <1>7, <2>1, InsertInv
  <2>2. CASE ~exists
    <3>1. Quiet
      BY <1>1, <1>7, <2>2 DEF GenerateTokens
    <3> QED
      BY <1>5, <3>1
  <2> QED
    BY <2>1, <2>2
<1>8. ASSUME NEW h \in Handlers, Login(h) \/ GoogleLogin(h) \/ Abort(h)
      PROVE  Quiet
  BY <1>1, <1>8 DEF Login, GoogleLogin, Abort
<1>9. ASSUME NEW h \in Handlers, ReuseDetected(h)
      PROVE  Quiet
  BY <1>0, <1>1, <1>9 DEF ReuseDetected
<1>10. ASSUME NEW h \in Handlers, RefreshReadsUser(h)
       PROVE  Quiet
  BY <1>1, <1>10 DEF RefreshReadsUser
<1>11. ASSUME NEW h \in Handlers, Rotate(h)
       PROVE  Quiet
  <2>1. presented[h] \in Tokens
    BY <1>1, <1>11 DEF Rotate, IssuedInOrder
  <2>2. CASE exists
    <3>1. presented[h] <= issued
      BY <1>1, <1>11, <2>1, <2>2 DEF Rotate, IssuedInOrder
    <3> QED
      BY <1>1, <1>11, <2>1, <2>2, <3>1 DEF Rotate
  <2>3. CASE ~exists
    BY <1>1, <1>11, <2>3 DEF Rotate
  <2> QED
    BY <2>2, <2>3
<1>12. ASSUME NEW t \in Tokens, Logout(t)
       PROVE  Quiet
  BY <1>0, <1>1, <1>12 DEF Logout
<1>13. CASE LogoutAll \/ ResetRevokesAll
  <2>1. Quiet
    BY <1>0, <1>1, <1>13 DEF LogoutAll, ResetRevokesAll
  <2> QED
    BY <1>5, <2>1
<1>14. CASE SetActive \/ DeleteUser \/ Expire
  <2>1. Quiet
    BY <1>0, <1>1, <1>14 DEF SetActive, DeleteUser, Expire
  <2> QED
    BY <1>5, <2>1
<1>15. QED
  <2> HIDE DEF Base, Quiet
  <2> QED
    BY <1>3, <1>5, <1>6, <1>7, <1>8, <1>9, <1>10, <1>11, <1>12, <1>13, <1>14
       DEF TokensNext, HandlerStep

\* The invariant holds in every reachable state.
THEOREM TokensInvariant == TokensSpec => []TokensInv
  BY TokensInitInv, TokensStepInv, PTL DEF TokensSpec

\* Type correctness of the rows and of the requests.
THEOREM TokensTypeCorrect == TokensSpec => []TokensTypeOK
<1>1. TokensInv => TokensTypeOK
  BY DEF TokensInv
<1> QED
  BY <1>1, TokensInvariant, PTL

\* Rotation in auth.service.ts refresh: a login has one live refresh token at
\* most, whatever overlaps, except two refreshes of the same token.
THEOREM RotationKeepsOne == TokensSpec => []OneLivePerLogin
<1>1. TokensInv => OneLivePerLogin
  BY DEF TokensInv
<1> QED
  BY <1>1, TokensInvariant, PTL

\* Tokens revoked by reuse detection, by a vault reset or by logoutAll are never
\* live again, though handlers save entities they read before.
THEOREM RevocationLasts == TokensSpec => []RevokedForGood
<1>1. TokensInv => RevokedForGood
  BY DEF TokensInv
<1> QED
  BY <1>1, TokensInvariant, PTL

-----------------------------------------------------------------------------
(* SignupLimit.  LimitInv adds to the limit what the counter knows of the    *)
(* accounts while registrations do not overlap.                              *)

\* No account has been made and nobody is registering.
LEMMA LimitInitInv == LimitInit => LimitInv
<1> SUFFICES ASSUME LimitInit
             PROVE  LimitInv
    OBVIOUS
<1> USE MaxSignupsAssumption DEF LimitInit
<1>1. LimitTypeOK
  BY DEF LimitTypeOK
<1>2. CountedOnce
  BY DEF CountedOnce
<1>3. SignupLimitHolds
  BY DEF SignupLimitHolds
<1>4. QED
  BY <1>1, <1>2, <1>3, Zenon DEF LimitInv

\* Every await of a registration, every failure and the expiry of the counter
\* preserve the invariant.
LEMMA LimitStepInv == LimitInv /\ [LimitNext]_limitVars => LimitInv'
<1> SUFFICES ASSUME LimitInv, [LimitNext]_limitVars
             PROVE  LimitInv'
    OBVIOUS
<1> USE MaxSignupsAssumption, MaxAccountsAssumption
    DEF LimitInv, LimitTypeOK, CountedOnce, SignupLimitHolds, Advance, Alone
<1>1. ASSUME NEW r \in Signups, ArriveSignup(r)
      PROVE  LimitInv'
  BY <1>1 DEF ArriveSignup
<1>2. ASSUME NEW r \in Signups, CheckCount(r)
      PROVE  LimitInv'
  BY <1>2 DEF CheckCount
<1>3. ASSUME NEW r \in Signups, CheckFails(r)
      PROVE  LimitInv'
  BY <1>3 DEF CheckFails
<1>4. ASSUME NEW r \in Signups, MakeAccount(r)
      PROVE  LimitInv'
  <2>1. LimitTypeOK'
    BY <1>4 DEF MakeAccount
  <2>2. CountedOnce'
    BY <1>4 DEF MakeAccount
  <2>3. SignupLimitHolds'
    BY <1>4 DEF MakeAccount
  <2> QED
    BY <2>1, <2>2, <2>3, Zenon
<1>5. ASSUME NEW r \in Signups, CounterExists(r)
      PROVE  LimitInv'
  <2>1. LimitTypeOK'
    BY <1>5 DEF CounterExists
  <2>2. CountedOnce'
    BY <1>5 DEF CounterExists
  <2>3. SignupLimitHolds'
    BY <1>5 DEF CounterExists
  <2> QED
    BY <2>1, <2>2, <2>3, Zenon
<1>6. ASSUME NEW r \in Signups, IncrementCounter(r)
      PROVE  LimitInv'
  <2>1. LimitTypeOK'
    BY <1>6 DEF IncrementCounter
  <2>2. CountedOnce'
    BY <1>6 DEF IncrementCounter
  <2>3. orderly' => accounts' <= MaxSignups
    BY <1>6 DEF IncrementCounter
  <2>4. ASSUME count' > 0, ~hasTtl'
        PROVE  undying' \/ \E q \in Signups : step'[q] = "expire"
    <3>1. CASE r \notin existed
      BY <1>6, <3>1 DEF IncrementCounter
    <3>2. CASE r \in existed /\ count = 0
      <4>1. undying' = (undying \/ (r \in existed /\ count = 0))
        BY <1>6 DEF IncrementCounter
      <4> QED
        BY <3>2, <4>1, Zenon
    <3>3. CASE r \in existed /\ count # 0
      <4>1. ~hasTtl
        BY <1>6, <2>4, Zenon DEF IncrementCounter
      <4>2. undying \/ \E q \in Signups : step[q] = "expire"
        BY <3>3, <4>1
      <4>3. undying => undying'
        BY <1>6, Zenon DEF IncrementCounter
      <4>4. \A q \in Signups : step[q] = "expire" => step'[q] = "expire"
        BY <1>6 DEF IncrementCounter
      <4> QED
        BY <4>2, <4>3, <4>4, Zenon
    <3> QED
      BY <3>1, <3>2, <3>3, Zenon
  <2> QED
    BY <2>1, <2>2, <2>3, <2>4, Zenon
<1>7. ASSUME NEW r \in Signups, SetCounterTtl(r)
      PROVE  LimitInv'
  <2>1. LimitTypeOK'
    <3>1. hasTtl' \in BOOLEAN /\ undying' \in BOOLEAN /\ orderly' \in BOOLEAN
      <4>1. (count > 0) \in BOOLEAN
        OBVIOUS
      <4> QED
        BY <1>7, <4>1, Zenon DEF SetCounterTtl
    <3>2. count' \in Nat /\ accounts' \in Nat /\ existed' \subseteq Signups
      BY <1>7 DEF SetCounterTtl
    <3>3. step' \in [Signups -> {"idle", "get", "register", "exists", "incr", "expire"}]
      BY <1>7 DEF SetCounterTtl
    <3> QED
      BY <3>1, <3>2, <3>3, Zenon
  <2>2. CountedOnce'
    BY <1>7 DEF SetCounterTtl
  <2>3. orderly' => accounts' <= MaxSignups
    BY <1>7 DEF SetCounterTtl
  <2>4. count' > 0 => hasTtl'
    <3>1. hasTtl' = (count' > 0)
      BY <1>7, Zenon DEF SetCounterTtl
    <3> QED
      BY <3>1, Zenon
  <2> QED
    BY <2>1, <2>2, <2>3, <2>4, Zenon
<1>8. ASSUME NEW r \in Signups, IncrementFails(r)
      PROVE  LimitInv'
  BY <1>8 DEF IncrementFails
<1>9. CASE CounterLapses
  <2>1. LimitTypeOK'
    BY <1>9 DEF CounterLapses
  <2>2. CountedOnce'
    <3>1. orderly' = \A r \in Signups : step[r] = "idle"
      BY <1>9, Zenon DEF CounterLapses
    <3>2. ASSUME orderly'
          PROVE  \A r \in Signups : step'[r] = "idle"
      BY <1>9, <3>1, <3>2, Zenon DEF CounterLapses
    <3>3. accounts' = 0 /\ count' = 0
      BY <1>9 DEF CounterLapses
    <3>4. ASSUME \A r \in Signups : step'[r] = "idle"
          PROVE  CountedOnce'
      BY <3>3, <3>4
    <3> QED
      BY <3>2, <3>4, Zenon
  <2>3. SignupLimitHolds'
    BY <1>9 DEF CounterLapses
  <2> QED
    BY <2>1, <2>2, <2>3, Zenon
<1>10. CASE UNCHANGED limitVars
  BY <1>10 DEF limitVars
<1>11. QED
  <2> HIDE DEF LimitInv
  <2> QED
    BY <1>1, <1>2, <1>3, <1>4, <1>5, <1>6, <1>7, <1>8, <1>9, <1>10
       DEF LimitNext, SignupStep

\* The invariant holds in every reachable state.
THEOREM LimitInvariant == LimitSpec => []LimitInv
  BY LimitInitInv, LimitStepInv, PTL DEF LimitSpec

\* Type correctness of the counter and of the registrations.
THEOREM LimitTypeCorrect == LimitSpec => []LimitTypeOK
<1>1. LimitInv => LimitTypeOK
  BY DEF LimitInv
<1> QED
  BY <1>1, LimitInvariant, PTL

\* signup-ip-limit.guard.ts: no more than MaxSignups accounts are counted from
\* the first one as long as registrations do not overlap and Redis answers; and
\* the counter does not stay without its expiry unless a command failed or the
\* key expired under the increment.
THEOREM SignupLimitKept == LimitSpec => []SignupLimitHolds
<1>1. LimitInv => SignupLimitHolds
  BY DEF LimitInv
<1> QED
  BY <1>1, LimitInvariant, PTL

-----------------------------------------------------------------------------
(* Gateway.  What the proofs use of the table of routes is shown of each     *)
(* controller's part and then of the whole.                                  *)

IsList(s) == s \in Seq({s[i] : i \in DOMAIN s})

\* No request that wants r is taken by q.
Differ(q, r, k) ==
  /\ k <= Len(q.path)
  /\ q.path[k] \notin {Id, Word} \cup Texts /\ q.path[k] # r.path[k]
Apart(q, r) ==
  \/ q.method # r.method \/ Len(q.path) # Len(r.path)
  \/ Differ(q, r, 1) \/ Differ(q, r, 2) \/ Differ(q, r, 3) \/ Differ(q, r, 4)

\* A part of the table whose paths begin with words of C.
Under(s, C) ==
  /\ IsList(s)
  /\ \A i \in DOMAIN s :
       /\ Len(s[i].path) \in 1 .. 4 /\ DOMAIN s[i].path = 1 .. Len(s[i].path)
       /\ s[i].path[1] \in C
RowsInOrder(s) == \A i, j \in DOMAIN s : i < j => Apart(s[i], s[j])
Before(s, t) == \A i \in DOMAIN s, j \in DOMAIN t : Apart(s[i], t[j])
Part(s, C) == Under(s, C) /\ RowsInOrder(s)

\* The guards of a route fit the data that its operation is given.
WellGuarded(r) ==
  /\ DOMAIN r.guards = 1 .. Len(r.guards) /\ Len(r.guards) \in Nat
  /\ r.guards = [k \in 1 .. Len(r.guards) |-> r.guards[k]]
  /\ \A k \in DOMAIN r.guards : r.guards[k] \in Guards
  /\ r.subject = "all" => \E k \in DOMAIN r.guards : r.guards[k] = "admin"
  /\ r.subject \in {"all", "self"} => r.public = FALSE
AllGuarded(s) == \A i \in DOMAIN s : WellGuarded(s[i])

\* Tuples are sequences.
LEMMA Lists ==
  \A a, b, c, d, e, f, g :
    /\ IsList(<<a>>) /\ IsList(<<a, b>>) /\ IsList(<<a, b, c>>)
    /\ IsList(<<a, b, c, d>>) /\ IsList(<<a, b, c, d, e>>)
    /\ IsList(<<a, b, c, d, e, f>>) /\ IsList(<<a, b, c, d, e, f, g>>)
BY DEF IsList

\* Every sequence is one.
LEMMA SequencesAreLists ==
  ASSUME NEW U, NEW q \in Seq(U)
  PROVE  IsList(q)
BY DEF IsList

\* The domain of a sequence.
LEMMA ListDomain ==
  ASSUME NEW s, IsList(s)
  PROVE  DOMAIN s = 1 .. Len(s) /\ Len(s) \in Nat
<1>1. \A U : s \in Seq(U) => DOMAIN s = 1 .. Len(s) /\ Len(s) \in Nat
  OBVIOUS
<1> QED
  BY <1>1, Zenon DEF IsList

\* One list behind the other.
LEMMA Joined ==
  ASSUME NEW s, NEW t, IsList(s), IsList(t)
  PROVE  /\ IsList(s \o t)
         /\ \A k \in DOMAIN (s \o t) :
              \/ k \in DOMAIN s /\ (s \o t)[k] = s[k]
              \/ k - Len(s) \in DOMAIN t /\ k > Len(s) /\ (s \o t)[k] = t[k - Len(s)]
         /\ DOMAIN s = 1 .. Len(s) /\ Len(s) \in Nat
         /\ DOMAIN t = 1 .. Len(t) /\ Len(t) \in Nat
         /\ DOMAIN (s \o t) = 1 .. Len(s) + Len(t)
<1> DEFINE S == {s[i] : i \in DOMAIN s}
           T == {t[i] : i \in DOMAIN t}
           U == S \cup T
<1>1. s \in Seq(U) /\ t \in Seq(U)
  BY DEF IsList
<1>2. /\ DOMAIN s = 1 .. Len(s) /\ Len(s) \in Nat
      /\ DOMAIN t = 1 .. Len(t) /\ Len(t) \in Nat
      /\ DOMAIN (s \o t) = 1 .. Len(s) + Len(t) /\ Len(s \o t) = Len(s) + Len(t)
  BY <1>1
<1>3. \A k \in DOMAIN (s \o t) :
        \/ k \in DOMAIN s /\ (s \o t)[k] = s[k]
        \/ k - Len(s) \in DOMAIN t /\ k > Len(s) /\ (s \o t)[k] = t[k - Len(s)]
  BY <1>1, <1>2
<1>4. IsList(s \o t)
  <2>1. s \o t \in Seq(U)
    BY <1>1
  <2> QED
    BY <2>1, SequencesAreLists, Zenon
<1> QED
  BY <1>2, <1>3, <1>4

\* One part of the table behind the other.
LEMMA PartsJoined ==
  ASSUME NEW s, NEW t, NEW C, NEW D, Part(s, C), Part(t, D), Before(s, t)
  PROVE  Part(s \o t, C \cup D)
<1> USE DEF Part
<1>1. IsList(s) /\ IsList(t)
  BY DEF Under
<1>2. ASSUME NEW k \in DOMAIN (s \o t)
      PROVE  LET p == (s \o t)[k].path
             IN Len(p) \in 1 .. 4 /\ DOMAIN p = 1 .. Len(p) /\ p[1] \in C \cup D
  <2>1. CASE k \in DOMAIN s /\ (s \o t)[k] = s[k]
    BY <2>1 DEF Under
  <2>2. CASE k - Len(s) \in DOMAIN t /\ (s \o t)[k] = t[k - Len(s)]
    BY <2>2 DEF Under
  <2> QED
    BY <1>1, <2>1, <2>2, Joined
<1>3. ASSUME NEW i \in DOMAIN (s \o t), NEW j \in DOMAIN (s \o t), i < j
      PROVE  Apart((s \o t)[i], (s \o t)[j])
  <2> DEFINE In(k) == k \in DOMAIN s /\ (s \o t)[k] = s[k]
             Behind(k) == /\ k - Len(s) \in DOMAIN t /\ k > Len(s)
                          /\ (s \o t)[k] = t[k - Len(s)]
  <2>1. (In(i) \/ Behind(i)) /\ (In(j) \/ Behind(j))
    BY <1>1, Joined
  <2>2. /\ DOMAIN s = 1 .. Len(s) /\ Len(s) \in Nat
        /\ DOMAIN t = 1 .. Len(t) /\ Len(t) \in Nat /\ i \in Nat /\ j \in Nat
    BY <1>1, Joined
  <2>3. CASE In(i) /\ In(j)
    BY <2>3, <1>3 DEF RowsInOrder
  <2>4. CASE In(i) /\ Behind(j)
    BY <2>4 DEF Before
  <2>5. CASE Behind(i) /\ Behind(j)
    <3>1. i - Len(s) < j - Len(s)
      BY <2>2, <1>3
    <3> QED
      BY <2>5, <3>1 DEF RowsInOrder
  <2>6. ~(Behind(i) /\ In(j))
    BY <2>2, <1>3
  <2> QED
    BY <2>1, <2>3, <2>4, <2>5, <2>6
<1>4. Under(s \o t, C \cup D)
  BY <1>1, <1>2, Joined DEF Under
<1> QED
  BY <1>3, <1>4 DEF RowsInOrder

\* Controllers with different prefixes do not take each other's requests.
LEMMA ControllersJoined ==
  ASSUME NEW s, NEW t, NEW C, NEW D, Part(s, C), Part(t, D), C \cap D = {},
         \A w \in C : w \notin {Id, Word} \cup Texts
  PROVE  Part(s \o t, C \cup D)
<1>1. Before(s, t)
  BY DEF Before, Part, Under, Apart, Differ
<1> QED
  BY <1>1, PartsJoined

\* Guards that are added to every route change neither method nor path.
LEMMA SameShape ==
  ASSUME NEW s, NEW t, NEW C, IsList(t), DOMAIN s = DOMAIN t,
         \A i \in DOMAIN s : s[i].method = t[i].method /\ s[i].path = t[i].path,
         Part(s, C)
  PROVE  Part(t, C)
<1>1. Under(t, C)
  BY DEF Under, Part
<1>2. ASSUME NEW i \in DOMAIN t, NEW j \in DOMAIN t, i < j
      PROVE  Apart(t[i], t[j])
  <2>1. Apart(s[i], s[j])
    BY <1>2 DEF RowsInOrder, Part
  <2> QED
    BY <2>1 DEF Apart, Differ
<1> QED
  BY <1>1, <1>2 DEF RowsInOrder, Part

\* Guarded parts, one behind the other.
LEMMA GuardedJoined ==
  ASSUME NEW s, NEW t, IsList(s), IsList(t), AllGuarded(s), AllGuarded(t)
  PROVE  AllGuarded(s \o t)
BY Joined DEF AllGuarded

\* What a route consists of.
LEMMA RowParts ==
  \A m, p, s, o :
    LET r == Route(m, p, s, o)
    IN /\ r.method = m /\ r.path = p /\ r.subject = s
       /\ r.public = FALSE /\ r.guards = <<>>
BY DEF Route

\* What a public route consists of.
LEMMA PublicParts ==
  \A m, p, s, o :
    LET r == Public(Route(m, p, s, o))
    IN /\ r.method = m /\ r.path = p /\ r.subject = s
       /\ r.public = TRUE /\ r.guards = <<>>
BY DEF Route, Public

\* What a route with guards of its own consists of.
LEMMA GuardedParts ==
  \A gs, m, p, s, o :
    LET r == Guarded(gs, Route(m, p, s, o))
    IN /\ r.method = m /\ r.path = p /\ r.subject = s
       /\ r.public = FALSE /\ r.guards = gs
BY DEF Route, Guarded

\* What SignupRoutes declares.
LEMMA SignupsRows ==
  LET t == SignupRoutes
  IN /\ DOMAIN t = 1 .. 2
     /\ t[1].method = "POST" /\ t[1].path = <<"auth", "register", "send-otp">>
     /\ t[2].method = "POST" /\ t[2].path = <<"auth", "register">>
BY GuardedParts DEF SignupRoutes

\* No route of SignupRoutes takes the requests of a later one.
LEMMA SignupTable == Part(SignupRoutes, {"auth"}) /\ AllGuarded(SignupRoutes)
<1>1. IsList(SignupRoutes)
  BY Lists DEF SignupRoutes
<1>2. \A i \in DOMAIN SignupRoutes : Len(SignupRoutes[i].path) \in 1 .. 4 /\ SignupRoutes[i].path[1] = "auth"
  BY GuardedParts DEF SignupRoutes
<1> USE SignupsRows
<1>3. \A i \in DOMAIN SignupRoutes : DOMAIN SignupRoutes[i].path = 1 .. Len(SignupRoutes[i].path)
  OBVIOUS
<1>4. RowsInOrder(SignupRoutes)
  <2> USE DEF Apart, Differ, Id, Word, Texts
  <2>1. Apart(SignupRoutes[1], SignupRoutes[2])
    OBVIOUS
  <2> HIDE DEF Apart, Differ, Id, Word, Texts
  <2> QED
    BY <2>1 DEF RowsInOrder
<1>5. AllGuarded(SignupRoutes)
  <2> USE GuardedParts DEF SignupRoutes
  <2>1. \A i \in DOMAIN SignupRoutes :
          LET gs == SignupRoutes[i].guards IN gs = [k \in 1 .. Len(gs) |-> gs[k]]
    OBVIOUS
  <2>2. \A i \in DOMAIN SignupRoutes :
          LET gs == SignupRoutes[i].guards
          IN /\ DOMAIN gs = 1 .. Len(gs) /\ Len(gs) \in 1 .. 2
             /\ gs[1] \in Guards /\ (Len(gs) = 2 => gs[2] \in Guards)
    BY DEF Guards
  <2>3. \A i \in DOMAIN SignupRoutes :
          SignupRoutes[i].public = FALSE /\ SignupRoutes[i].subject # "all"
    OBVIOUS
  <2> HIDE DEF SignupRoutes
  <2> QED
    BY <2>1, <2>2, <2>3 DEF AllGuarded, WellGuarded
<1> QED
  BY <1>1, <1>2, <1>3, <1>4, <1>5 DEF Part, Under

\* What SignInRoutes declares.
LEMMA SignInsRows ==
  LET t == SignInRoutes
  IN /\ DOMAIN t = 1 .. 7
     /\ t[1].method = "POST" /\ t[1].path = <<"auth", "login">>
     /\ t[2].method = "POST" /\ t[2].path = <<"auth", "refresh">>
     /\ t[3].method = "POST" /\ t[3].path = <<"auth", "google">>
     /\ t[4].method = "POST" /\ t[4].path = <<"auth", "vault-reset", "request">>
     /\ t[5].method = "POST" /\ t[5].path = <<"auth", "vault-reset", "verify">>
     /\ t[6].method = "POST" /\ t[6].path = <<"auth", "vault-reset", "params">>
     /\ t[7].method = "POST" /\ t[7].path = <<"auth", "vault-reset", "complete">>
BY GuardedParts, SMTT(20) DEF SignInRoutes, Every, IsList

\* No route of SignInRoutes takes the requests of a later one.
LEMMA SignInTable == Part(SignInRoutes, {"auth"}) /\ AllGuarded(SignInRoutes)
<1>1. IsList(SignInRoutes)
  BY Lists DEF SignInRoutes, Every, IsList
<1>2. \A i \in DOMAIN SignInRoutes : Len(SignInRoutes[i].path) \in 1 .. 4 /\ SignInRoutes[i].path[1] = "auth"
  BY GuardedParts DEF SignInRoutes, Every, IsList
<1> USE SignInsRows
<1>3. \A i \in DOMAIN SignInRoutes : DOMAIN SignInRoutes[i].path = 1 .. Len(SignInRoutes[i].path)
  OBVIOUS
<1>4. RowsInOrder(SignInRoutes)
  <2> USE DEF Apart, Differ, Id, Word, Texts
  <2>1. \A j \in 2 .. 7 : Apart(SignInRoutes[1], SignInRoutes[j])
    OBVIOUS
  <2>2. \A j \in 3 .. 7 : Apart(SignInRoutes[2], SignInRoutes[j])
    OBVIOUS
  <2>3. \A j \in 4 .. 7 : Apart(SignInRoutes[3], SignInRoutes[j])
    OBVIOUS
  <2>4. \A j \in 5 .. 7 : Apart(SignInRoutes[4], SignInRoutes[j])
    OBVIOUS
  <2>5. \A j \in 6 .. 7 : Apart(SignInRoutes[5], SignInRoutes[j])
    OBVIOUS
  <2>6. Apart(SignInRoutes[6], SignInRoutes[7])
    OBVIOUS
  <2> HIDE DEF Apart, Differ, Id, Word, Texts
  <2> QED
    BY <2>1, <2>2, <2>3, <2>4, <2>5, <2>6 DEF RowsInOrder
<1>5. AllGuarded(SignInRoutes)
  <2>1. \A i \in DOMAIN SignInRoutes : SignInRoutes[i].guards = <<"authThrottle">>
    BY GuardedParts, SMTT(20) DEF SignInRoutes, Every, IsList
  <2>2. \A i \in DOMAIN SignInRoutes :
          SignInRoutes[i].public = FALSE /\ SignInRoutes[i].subject # "all"
    BY GuardedParts, SMTT(20) DEF SignInRoutes, Every, IsList
  <2>3. \A gs : gs = <<"authThrottle">> =>
          /\ DOMAIN gs = 1 .. Len(gs) /\ Len(gs) \in Nat
          /\ gs = [k \in 1 .. Len(gs) |-> gs[k]]
          /\ \A k \in DOMAIN gs : gs[k] \in Guards
    BY DEF Guards
  <2> QED
    BY <2>1, <2>2, <2>3, Zenon DEF AllGuarded, WellGuarded
<1> QED
  BY <1>1, <1>2, <1>3, <1>4, <1>5 DEF Part, Under

\* What ProfileRoutes declares.
LEMMA ProfilesRows ==
  LET t == ProfileRoutes
  IN /\ DOMAIN t = 1 .. 3
     /\ t[1].method = "GET" /\ t[1].path = <<"users", "me">>
     /\ t[2].method = "PATCH" /\ t[2].path = <<"users", "me">>
     /\ t[3].method = "POST" /\ t[3].path = <<"users", "me", "avatar">>
BY RowParts DEF ProfileRoutes

\* No route of ProfileRoutes takes the requests of a later one.
LEMMA ProfileTable == Part(ProfileRoutes, {"users"}) /\ AllGuarded(ProfileRoutes)
<1>1. IsList(ProfileRoutes)
  BY Lists DEF ProfileRoutes
<1>2. \A i \in DOMAIN ProfileRoutes : Len(ProfileRoutes[i].path) \in 1 .. 4 /\ ProfileRoutes[i].path[1] = "users"
  BY RowParts DEF ProfileRoutes
<1> USE ProfilesRows
<1>3. \A i \in DOMAIN ProfileRoutes : DOMAIN ProfileRoutes[i].path = 1 .. Len(ProfileRoutes[i].path)
  OBVIOUS
<1>4. RowsInOrder(ProfileRoutes)
  <2> USE DEF Apart, Differ, Id, Word, Texts
  <2>1. \A j \in 2 .. 3 : Apart(ProfileRoutes[1], ProfileRoutes[j])
    OBVIOUS
  <2>2. Apart(ProfileRoutes[2], ProfileRoutes[3])
    OBVIOUS
  <2> HIDE DEF Apart, Differ, Id, Word, Texts
  <2> QED
    BY <2>1, <2>2 DEF RowsInOrder
<1>5. AllGuarded(ProfileRoutes)
  BY RowParts DEF ProfileRoutes, AllGuarded, WellGuarded, Guards
<1> QED
  BY <1>1, <1>2, <1>3, <1>4, <1>5 DEF Part, Under

\* What AccountRoutes declares.
LEMMA OwnAccountRows ==
  LET t == AccountRoutes
  IN /\ DOMAIN t = 1 .. 5
     /\ t[1].method = "DELETE" /\ t[1].path = <<"users", "me">>
     /\ t[2].method = "GET" /\ t[2].path = <<"users", "me", "security">>
     /\ t[3].method = "POST" /\ t[3].path = <<"users", "me", "security">>
     /\ t[4].method = "PATCH" /\ t[4].path = <<"users", "me", "vault-password">>
     /\ t[5].method = "GET" /\ t[5].path = <<"users", "me", "storage">>
BY RowParts DEF AccountRoutes

\* No route of AccountRoutes takes the requests of a later one.
LEMMA AccountTable == Part(AccountRoutes, {"users"}) /\ AllGuarded(AccountRoutes)
<1>1. IsList(AccountRoutes)
  BY Lists DEF AccountRoutes
<1>2. \A i \in DOMAIN AccountRoutes : Len(AccountRoutes[i].path) \in 1 .. 4 /\ AccountRoutes[i].path[1] = "users"
  BY RowParts DEF AccountRoutes
<1> USE OwnAccountRows
<1>3. \A i \in DOMAIN AccountRoutes : DOMAIN AccountRoutes[i].path = 1 .. Len(AccountRoutes[i].path)
  OBVIOUS
<1>4. RowsInOrder(AccountRoutes)
  <2> USE DEF Apart, Differ, Id, Word, Texts
  <2>1. \A j \in 2 .. 5 : Apart(AccountRoutes[1], AccountRoutes[j])
    OBVIOUS
  <2>2. \A j \in 3 .. 5 : Apart(AccountRoutes[2], AccountRoutes[j])
    OBVIOUS
  <2>3. \A j \in 4 .. 5 : Apart(AccountRoutes[3], AccountRoutes[j])
    OBVIOUS
  <2>4. Apart(AccountRoutes[4], AccountRoutes[5])
    OBVIOUS
  <2> HIDE DEF Apart, Differ, Id, Word, Texts
  <2> QED
    BY <2>1, <2>2, <2>3, <2>4 DEF RowsInOrder
<1>5. AllGuarded(AccountRoutes)
  BY RowParts DEF AccountRoutes, AllGuarded, WellGuarded, Guards
<1> QED
  BY <1>1, <1>2, <1>3, <1>4, <1>5 DEF Part, Under

\* What FileListRoutes declares.
LEMMA FileListsRows ==
  LET t == FileListRoutes
  IN /\ DOMAIN t = 1 .. 2
     /\ t[1].method = "GET" /\ t[1].path = <<"files">>
     /\ t[2].method = "GET" /\ t[2].path = <<"files", "check-duplicate">>
BY RowParts DEF FileListRoutes

\* No route of FileListRoutes takes the requests of a later one.
LEMMA FileListTable == Part(FileListRoutes, {"files"}) /\ AllGuarded(FileListRoutes)
<1>1. IsList(FileListRoutes)
  BY Lists DEF FileListRoutes
<1>2. \A i \in DOMAIN FileListRoutes : Len(FileListRoutes[i].path) \in 1 .. 4 /\ FileListRoutes[i].path[1] = "files"
  BY RowParts DEF FileListRoutes
<1> USE FileListsRows
<1>3. \A i \in DOMAIN FileListRoutes : DOMAIN FileListRoutes[i].path = 1 .. Len(FileListRoutes[i].path)
  OBVIOUS
<1>4. RowsInOrder(FileListRoutes)
  <2> USE DEF Apart, Differ, Id, Word, Texts
  <2>1. Apart(FileListRoutes[1], FileListRoutes[2])
    OBVIOUS
  <2> HIDE DEF Apart, Differ, Id, Word, Texts
  <2> QED
    BY <2>1 DEF RowsInOrder
<1>5. AllGuarded(FileListRoutes)
  BY RowParts DEF FileListRoutes, AllGuarded, WellGuarded, Guards
<1> QED
  BY <1>1, <1>2, <1>3, <1>4, <1>5 DEF Part, Under

\* What FileUploadRoutes declares.
LEMMA FileUploadRows ==
  LET t == FileUploadRoutes
  IN /\ DOMAIN t = 1 .. 1
     /\ t[1].method = "POST" /\ t[1].path = <<"files", "upload">>
BY RowParts DEF FileUploadRoutes

\* No route of FileUploadRoutes takes the requests of a later one.
LEMMA FileUploadTable == Part(FileUploadRoutes, {"files"}) /\ AllGuarded(FileUploadRoutes)
<1>1. IsList(FileUploadRoutes)
  BY Lists DEF FileUploadRoutes
<1>2. \A i \in DOMAIN FileUploadRoutes : Len(FileUploadRoutes[i].path) \in 1 .. 4 /\ FileUploadRoutes[i].path[1] = "files"
  BY RowParts DEF FileUploadRoutes
<1> USE FileUploadRows
<1>3. \A i \in DOMAIN FileUploadRoutes : DOMAIN FileUploadRoutes[i].path = 1 .. Len(FileUploadRoutes[i].path)
  OBVIOUS
<1>4. RowsInOrder(FileUploadRoutes)
  BY DEF RowsInOrder
<1>5. AllGuarded(FileUploadRoutes)
  BY RowParts DEF FileUploadRoutes, AllGuarded, WellGuarded, Guards
<1> QED
  BY <1>1, <1>2, <1>3, <1>4, <1>5 DEF Part, Under

\* What FileReadRoutes declares.
LEMMA FileReadsRows ==
  LET t == FileReadRoutes
  IN /\ DOMAIN t = 1 .. 5
     /\ t[1].method = "POST" /\ t[1].path = <<"files", "batch">>
     /\ t[2].method = "GET" /\ t[2].path = <<"files", "trash">>
     /\ t[3].method = "GET" /\ t[3].path = <<"files", Id, "content", Word>>
     /\ t[4].method = "GET" /\ t[4].path = <<"files", Id>>
     /\ t[5].method = "PATCH" /\ t[5].path = <<"files", Id>>
BY RowParts DEF FileReadRoutes

\* No route of FileReadRoutes takes the requests of a later one.
LEMMA FileReadTable == Part(FileReadRoutes, {"files"}) /\ AllGuarded(FileReadRoutes)
<1>1. IsList(FileReadRoutes)
  BY Lists DEF FileReadRoutes
<1>2. \A i \in DOMAIN FileReadRoutes : Len(FileReadRoutes[i].path) \in 1 .. 4 /\ FileReadRoutes[i].path[1] = "files"
  BY RowParts DEF FileReadRoutes
<1> USE FileReadsRows
<1>3. \A i \in DOMAIN FileReadRoutes : DOMAIN FileReadRoutes[i].path = 1 .. Len(FileReadRoutes[i].path)
  OBVIOUS
<1>4. RowsInOrder(FileReadRoutes)
  <2> USE DEF Apart, Differ, Id, Word, Texts
  <2>1. \A j \in 2 .. 5 : Apart(FileReadRoutes[1], FileReadRoutes[j])
    OBVIOUS
  <2>2. \A j \in 3 .. 5 : Apart(FileReadRoutes[2], FileReadRoutes[j])
    OBVIOUS
  <2>3. \A j \in 4 .. 5 : Apart(FileReadRoutes[3], FileReadRoutes[j])
    OBVIOUS
  <2>4. Apart(FileReadRoutes[4], FileReadRoutes[5])
    OBVIOUS
  <2> HIDE DEF Apart, Differ, Id, Word, Texts
  <2> QED
    BY <2>1, <2>2, <2>3, <2>4 DEF RowsInOrder
<1>5. AllGuarded(FileReadRoutes)
  BY RowParts DEF FileReadRoutes, AllGuarded, WellGuarded, Guards
<1> QED
  BY <1>1, <1>2, <1>3, <1>4, <1>5 DEF Part, Under

\* What FileTrashRoutes declares.
LEMMA FileTrashRows ==
  LET t == FileTrashRoutes
  IN /\ DOMAIN t = 1 .. 5
     /\ t[1].method = "POST" /\ t[1].path = <<"files", "trash">>
     /\ t[2].method = "POST" /\ t[2].path = <<"files", "restore">>
     /\ t[3].method = "POST" /\ t[3].path = <<"files", "purge">>
     /\ t[4].method = "POST" /\ t[4].path = <<"files", "trash", "empty">>
     /\ t[5].method = "DELETE" /\ t[5].path = <<"files", Id>>
BY RowParts DEF FileTrashRoutes

\* No route of FileTrashRoutes takes the requests of a later one.
LEMMA FileTrashTable == Part(FileTrashRoutes, {"files"}) /\ AllGuarded(FileTrashRoutes)
<1>1. IsList(FileTrashRoutes)
  BY Lists DEF FileTrashRoutes
<1>2. \A i \in DOMAIN FileTrashRoutes : Len(FileTrashRoutes[i].path) \in 1 .. 4 /\ FileTrashRoutes[i].path[1] = "files"
  BY RowParts DEF FileTrashRoutes
<1> USE FileTrashRows
<1>3. \A i \in DOMAIN FileTrashRoutes : DOMAIN FileTrashRoutes[i].path = 1 .. Len(FileTrashRoutes[i].path)
  OBVIOUS
<1>4. RowsInOrder(FileTrashRoutes)
  <2> USE DEF Apart, Differ, Id, Word, Texts
  <2>1. \A j \in 2 .. 5 : Apart(FileTrashRoutes[1], FileTrashRoutes[j])
    OBVIOUS
  <2>2. \A j \in 3 .. 5 : Apart(FileTrashRoutes[2], FileTrashRoutes[j])
    OBVIOUS
  <2>3. \A j \in 4 .. 5 : Apart(FileTrashRoutes[3], FileTrashRoutes[j])
    OBVIOUS
  <2>4. Apart(FileTrashRoutes[4], FileTrashRoutes[5])
    OBVIOUS
  <2> HIDE DEF Apart, Differ, Id, Word, Texts
  <2> QED
    BY <2>1, <2>2, <2>3, <2>4 DEF RowsInOrder
<1>5. AllGuarded(FileTrashRoutes)
  BY RowParts DEF FileTrashRoutes, AllGuarded, WellGuarded, Guards
<1> QED
  BY <1>1, <1>2, <1>3, <1>4, <1>5 DEF Part, Under

\* What FolderReadRoutes declares.
LEMMA FolderReadsRows ==
  LET t == FolderReadRoutes
  IN /\ DOMAIN t = 1 .. 5
     /\ t[1].method = "POST" /\ t[1].path = <<"folders">>
     /\ t[2].method = "GET" /\ t[2].path = <<"folders", "library">>
     /\ t[3].method = "GET" /\ t[3].path = <<"folders">>
     /\ t[4].method = "GET" /\ t[4].path = <<"folders", Id, "all-files">>
     /\ t[5].method = "GET" /\ t[5].path = <<"folders", Id>>
BY RowParts DEF FolderReadRoutes

\* No route of FolderReadRoutes takes the requests of a later one.
LEMMA FolderReadTable == Part(FolderReadRoutes, {"folders"}) /\ AllGuarded(FolderReadRoutes)
<1>1. IsList(FolderReadRoutes)
  BY Lists DEF FolderReadRoutes
<1>2. \A i \in DOMAIN FolderReadRoutes : Len(FolderReadRoutes[i].path) \in 1 .. 4 /\ FolderReadRoutes[i].path[1] = "folders"
  BY RowParts DEF FolderReadRoutes
<1> USE FolderReadsRows
<1>3. \A i \in DOMAIN FolderReadRoutes : DOMAIN FolderReadRoutes[i].path = 1 .. Len(FolderReadRoutes[i].path)
  OBVIOUS
<1>4. RowsInOrder(FolderReadRoutes)
  <2> USE DEF Apart, Differ, Id, Word, Texts
  <2>1. \A j \in 2 .. 5 : Apart(FolderReadRoutes[1], FolderReadRoutes[j])
    OBVIOUS
  <2>2. \A j \in 3 .. 5 : Apart(FolderReadRoutes[2], FolderReadRoutes[j])
    OBVIOUS
  <2>3. \A j \in 4 .. 5 : Apart(FolderReadRoutes[3], FolderReadRoutes[j])
    OBVIOUS
  <2>4. Apart(FolderReadRoutes[4], FolderReadRoutes[5])
    OBVIOUS
  <2> HIDE DEF Apart, Differ, Id, Word, Texts
  <2> QED
    BY <2>1, <2>2, <2>3, <2>4 DEF RowsInOrder
<1>5. AllGuarded(FolderReadRoutes)
  BY RowParts DEF FolderReadRoutes, AllGuarded, WellGuarded, Guards
<1> QED
  BY <1>1, <1>2, <1>3, <1>4, <1>5 DEF Part, Under

\* What FolderChangeRoutes declares.
LEMMA FolderChangesRows ==
  LET t == FolderChangeRoutes
  IN /\ DOMAIN t = 1 .. 6
     /\ t[1].method = "PATCH" /\ t[1].path = <<"folders", Id>>
     /\ t[2].method = "DELETE" /\ t[2].path = <<"folders", Id>>
     /\ t[3].method = "POST" /\ t[3].path = <<"folders", Id, "restore">>
     /\ t[4].method = "DELETE" /\ t[4].path = <<"folders", Id, "permanent">>
     /\ t[5].method = "POST" /\ t[5].path = <<"folders", "move-files">>
     /\ t[6].method = "POST" /\ t[6].path = <<"folders", Id, "move">>
BY RowParts DEF FolderChangeRoutes

\* No route of FolderChangeRoutes takes the requests of a later one.
LEMMA FolderChangeTable == Part(FolderChangeRoutes, {"folders"}) /\ AllGuarded(FolderChangeRoutes)
<1>1. IsList(FolderChangeRoutes)
  BY Lists DEF FolderChangeRoutes
<1>2. \A i \in DOMAIN FolderChangeRoutes : Len(FolderChangeRoutes[i].path) \in 1 .. 4 /\ FolderChangeRoutes[i].path[1] = "folders"
  BY RowParts DEF FolderChangeRoutes
<1> USE FolderChangesRows
<1>3. \A i \in DOMAIN FolderChangeRoutes : DOMAIN FolderChangeRoutes[i].path = 1 .. Len(FolderChangeRoutes[i].path)
  OBVIOUS
<1>4. RowsInOrder(FolderChangeRoutes)
  <2> USE DEF Apart, Differ, Id, Word, Texts
  <2>1. \A j \in 2 .. 6 : Apart(FolderChangeRoutes[1], FolderChangeRoutes[j])
    OBVIOUS
  <2>2. \A j \in 3 .. 6 : Apart(FolderChangeRoutes[2], FolderChangeRoutes[j])
    OBVIOUS
  <2>3. \A j \in 4 .. 6 : Apart(FolderChangeRoutes[3], FolderChangeRoutes[j])
    OBVIOUS
  <2>4. \A j \in 5 .. 6 : Apart(FolderChangeRoutes[4], FolderChangeRoutes[j])
    OBVIOUS
  <2>5. Apart(FolderChangeRoutes[5], FolderChangeRoutes[6])
    OBVIOUS
  <2> HIDE DEF Apart, Differ, Id, Word, Texts
  <2> QED
    BY <2>1, <2>2, <2>3, <2>4, <2>5 DEF RowsInOrder
<1>5. AllGuarded(FolderChangeRoutes)
  BY RowParts DEF FolderChangeRoutes, AllGuarded, WellGuarded, Guards
<1> QED
  BY <1>1, <1>2, <1>3, <1>4, <1>5 DEF Part, Under

\* What AdminUserRoutes declares.
LEMMA AdminUsersRows ==
  LET t == AdminUserRoutes
  IN /\ DOMAIN t = 1 .. 5
     /\ t[1].method = "GET" /\ t[1].path = <<"admin", "dashboard">>
     /\ t[2].method = "GET" /\ t[2].path = <<"admin", "users">>
     /\ t[3].method = "PATCH" /\ t[3].path = <<"admin", "users", Id, "storage-limit">>
     /\ t[4].method = "DELETE" /\ t[4].path = <<"admin", "users", Id>>
     /\ t[5].method = "PATCH" /\ t[5].path = <<"admin", "users", Id, "status">>
BY RowParts DEF AdminUserRoutes

\* No route of AdminUserRoutes takes the requests of a later one.
LEMMA AdminUserTable == Part(AdminUserRoutes, {"admin"})
<1>1. IsList(AdminUserRoutes)
  BY Lists DEF AdminUserRoutes
<1>2. \A i \in DOMAIN AdminUserRoutes : Len(AdminUserRoutes[i].path) \in 1 .. 4 /\ AdminUserRoutes[i].path[1] = "admin"
  BY RowParts DEF AdminUserRoutes
<1> USE AdminUsersRows
<1>3. \A i \in DOMAIN AdminUserRoutes : DOMAIN AdminUserRoutes[i].path = 1 .. Len(AdminUserRoutes[i].path)
  OBVIOUS
<1>4. RowsInOrder(AdminUserRoutes)
  <2> USE DEF Apart, Differ, Id, Word, Texts
  <2>1. \A j \in 2 .. 5 : Apart(AdminUserRoutes[1], AdminUserRoutes[j])
    OBVIOUS
  <2>2. \A j \in 3 .. 5 : Apart(AdminUserRoutes[2], AdminUserRoutes[j])
    OBVIOUS
  <2>3. \A j \in 4 .. 5 : Apart(AdminUserRoutes[3], AdminUserRoutes[j])
    OBVIOUS
  <2>4. Apart(AdminUserRoutes[4], AdminUserRoutes[5])
    OBVIOUS
  <2> HIDE DEF Apart, Differ, Id, Word, Texts
  <2> QED
    BY <2>1, <2>2, <2>3, <2>4 DEF RowsInOrder
<1> QED
  BY <1>1, <1>2, <1>3, <1>4 DEF Part, Under

\* What AdminSystemRoutes declares.
LEMMA AdminSystemRows ==
  LET t == AdminSystemRoutes
  IN /\ DOMAIN t = 1 .. 7
     /\ t[1].method = "GET" /\ t[1].path = <<"admin", "storage">>
     /\ t[2].method = "GET" /\ t[2].path = <<"admin", "health">>
     /\ t[3].method = "GET" /\ t[3].path = <<"admin", "alerts">>
     /\ t[4].method = "GET" /\ t[4].path = <<"admin", "plans">>
     /\ t[5].method = "PATCH" /\ t[5].path = <<"admin", "plans", Id>>
     /\ t[6].method = "GET" /\ t[6].path = <<"admin", "flagged-signups">>
     /\ t[7].method = "PATCH" /\ t[7].path = <<"admin", "flagged-signups", Id, "resolve">>
BY RowParts DEF AdminSystemRoutes

\* No route of AdminSystemRoutes takes the requests of a later one.
LEMMA AdminSystemTable == Part(AdminSystemRoutes, {"admin"})
<1>1. IsList(AdminSystemRoutes)
  BY Lists DEF AdminSystemRoutes
<1>2. \A i \in DOMAIN AdminSystemRoutes : Len(AdminSystemRoutes[i].path) \in 1 .. 4 /\ AdminSystemRoutes[i].path[1] = "admin"
  BY RowParts DEF AdminSystemRoutes
<1> USE AdminSystemRows
<1>3. \A i \in DOMAIN AdminSystemRoutes : DOMAIN AdminSystemRoutes[i].path = 1 .. Len(AdminSystemRoutes[i].path)
  OBVIOUS
<1>4. RowsInOrder(AdminSystemRoutes)
  <2> USE DEF Apart, Differ, Id, Word, Texts
  <2>1. \A j \in 2 .. 7 : Apart(AdminSystemRoutes[1], AdminSystemRoutes[j])
    OBVIOUS
  <2>2. \A j \in 3 .. 7 : Apart(AdminSystemRoutes[2], AdminSystemRoutes[j])
    OBVIOUS
  <2>3. \A j \in 4 .. 7 : Apart(AdminSystemRoutes[3], AdminSystemRoutes[j])
    OBVIOUS
  <2>4. \A j \in 5 .. 7 : Apart(AdminSystemRoutes[4], AdminSystemRoutes[j])
    OBVIOUS
  <2>5. \A j \in 6 .. 7 : Apart(AdminSystemRoutes[5], AdminSystemRoutes[j])
    OBVIOUS
  <2>6. Apart(AdminSystemRoutes[6], AdminSystemRoutes[7])
    OBVIOUS
  <2> HIDE DEF Apart, Differ, Id, Word, Texts
  <2> QED
    BY <2>1, <2>2, <2>3, <2>4, <2>5, <2>6 DEF RowsInOrder
<1> QED
  BY <1>1, <1>2, <1>3, <1>4 DEF Part, Under

\* What AdminInstapayRoutes declares.
LEMMA AdminInstapayRows ==
  LET t == AdminInstapayRoutes
  IN /\ DOMAIN t = 1 .. 5
     /\ t[1].method = "GET" /\ t[1].path = <<"admin", "instapay", "pending">>
     /\ t[2].method = "GET" /\ t[2].path = <<"admin", "instapay", "history">>
     /\ t[3].method = "GET" /\ t[3].path = <<"admin", "instapay", "pending", "count">>
     /\ t[4].method = "GET" /\ t[4].path = <<"admin", "instapay", Id>>
     /\ t[5].method = "POST" /\ t[5].path = <<"admin", "instapay", Id, "review">>
BY RowParts DEF AdminInstapayRoutes

\* No route of AdminInstapayRoutes takes the requests of a later one.
LEMMA AdminInstapayTable == Part(AdminInstapayRoutes, {"admin"})
<1>1. IsList(AdminInstapayRoutes)
  BY Lists DEF AdminInstapayRoutes
<1>2. \A i \in DOMAIN AdminInstapayRoutes : Len(AdminInstapayRoutes[i].path) \in 1 .. 4 /\ AdminInstapayRoutes[i].path[1] = "admin"
  BY RowParts DEF AdminInstapayRoutes
<1> USE AdminInstapayRows
<1>3. \A i \in DOMAIN AdminInstapayRoutes : DOMAIN AdminInstapayRoutes[i].path = 1 .. Len(AdminInstapayRoutes[i].path)
  OBVIOUS
<1>4. RowsInOrder(AdminInstapayRoutes)
  <2> USE DEF Apart, Differ, Id, Word, Texts
  <2>1. \A j \in 2 .. 5 : Apart(AdminInstapayRoutes[1], AdminInstapayRoutes[j])
    OBVIOUS
  <2>2. \A j \in 3 .. 5 : Apart(AdminInstapayRoutes[2], AdminInstapayRoutes[j])
    OBVIOUS
  <2>3. \A j \in 4 .. 5 : Apart(AdminInstapayRoutes[3], AdminInstapayRoutes[j])
    OBVIOUS
  <2>4. Apart(AdminInstapayRoutes[4], AdminInstapayRoutes[5])
    OBVIOUS
  <2> HIDE DEF Apart, Differ, Id, Word, Texts
  <2> QED
    BY <2>1, <2>2, <2>3, <2>4 DEF RowsInOrder
<1> QED
  BY <1>1, <1>2, <1>3, <1>4 DEF Part, Under

\* What ShareRoutes declares.
LEMMA SharesRows ==
  LET t == ShareRoutes
  IN /\ DOMAIN t = 1 .. 6
     /\ t[1].method = "POST" /\ t[1].path = <<"shares">>
     /\ t[2].method = "GET" /\ t[2].path = <<"shares">>
     /\ t[3].method = "DELETE" /\ t[3].path = <<"shares", Id>>
     /\ t[4].method = "POST" /\ t[4].path = <<"shares", Word, "save-to-account">>
     /\ t[5].method = "GET" /\ t[5].path = <<"shares", Word>>
     /\ t[6].method = "GET" /\ t[6].path = <<"shares", Word, "browse", Id>>
<1> DEFINE t == ShareRoutes
<1> USE RowParts, PublicParts DEF ShareRoutes
<1>1. DOMAIN t = 1 .. 6
  OBVIOUS
<1>2. t[1].method = "POST" /\ t[1].path = <<"shares">>
  OBVIOUS
<1>3. t[2].method = "GET" /\ t[2].path = <<"shares">>
  OBVIOUS
<1>4. t[3].method = "DELETE" /\ t[3].path = <<"shares", Id>>
  OBVIOUS
<1>5. t[4].method = "POST" /\ t[4].path = <<"shares", Word, "save-to-account">>
  OBVIOUS
<1>6. t[5].method = "GET" /\ t[5].path = <<"shares", Word>>
  OBVIOUS
<1>7. t[6].method = "GET" /\ t[6].path = <<"shares", Word, "browse", Id>>
  OBVIOUS
<1> HIDE DEF ShareRoutes
<1> QED
  BY <1>1, <1>2, <1>3, <1>4, <1>5, <1>6, <1>7

\* No route of ShareRoutes takes the requests of a later one.
LEMMA ShareTable == Part(ShareRoutes, {"shares"}) /\ AllGuarded(ShareRoutes)
<1>1. IsList(ShareRoutes)
  BY Lists DEF ShareRoutes
<1>2. \A i \in DOMAIN ShareRoutes : Len(ShareRoutes[i].path) \in 1 .. 4 /\ ShareRoutes[i].path[1] = "shares"
  BY RowParts, PublicParts DEF ShareRoutes
<1> USE SharesRows
<1>3. \A i \in DOMAIN ShareRoutes : DOMAIN ShareRoutes[i].path = 1 .. Len(ShareRoutes[i].path)
  OBVIOUS
<1>4. RowsInOrder(ShareRoutes)
  <2> USE DEF Apart, Differ, Id, Word, Texts
  <2>1. \A j \in 2 .. 6 : Apart(ShareRoutes[1], ShareRoutes[j])
    OBVIOUS
  <2>2. \A j \in 3 .. 6 : Apart(ShareRoutes[2], ShareRoutes[j])
    OBVIOUS
  <2>3. \A j \in 4 .. 6 : Apart(ShareRoutes[3], ShareRoutes[j])
    OBVIOUS
  <2>4. \A j \in 5 .. 6 : Apart(ShareRoutes[4], ShareRoutes[j])
    OBVIOUS
  <2>5. Apart(ShareRoutes[5], ShareRoutes[6])
    OBVIOUS
  <2> HIDE DEF Apart, Differ, Id, Word, Texts
  <2> QED
    BY <2>1, <2>2, <2>3, <2>4, <2>5 DEF RowsInOrder
<1>5. AllGuarded(ShareRoutes)
  BY RowParts, PublicParts, SMTT(20) DEF ShareRoutes, AllGuarded, WellGuarded, Guards
<1> QED
  BY <1>1, <1>2, <1>3, <1>4, <1>5 DEF Part, Under

\* What ContactRoutes declares.
LEMMA ContactsRows ==
  LET t == ContactRoutes
  IN /\ DOMAIN t = 1 .. 4
     /\ t[1].method = "POST" /\ t[1].path = <<"contacts", "sync">>
     /\ t[2].method = "GET" /\ t[2].path = <<"contacts", "search">>
     /\ t[3].method = "GET" /\ t[3].path = <<"contacts">>
     /\ t[4].method = "DELETE" /\ t[4].path = <<"contacts">>
BY GuardedParts DEF ContactRoutes, Every, IsList

\* No route of ContactRoutes takes the requests of a later one.
LEMMA ContactTable == Part(ContactRoutes, {"contacts"}) /\ AllGuarded(ContactRoutes)
<1>1. IsList(ContactRoutes)
  BY Lists DEF ContactRoutes, Every, IsList
<1>2. \A i \in DOMAIN ContactRoutes : Len(ContactRoutes[i].path) \in 1 .. 4 /\ ContactRoutes[i].path[1] = "contacts"
  BY GuardedParts DEF ContactRoutes, Every, IsList
<1> USE ContactsRows
<1>3. \A i \in DOMAIN ContactRoutes : DOMAIN ContactRoutes[i].path = 1 .. Len(ContactRoutes[i].path)
  OBVIOUS
<1>4. RowsInOrder(ContactRoutes)
  <2> USE DEF Apart, Differ, Id, Word, Texts
  <2>1. \A j \in 2 .. 4 : Apart(ContactRoutes[1], ContactRoutes[j])
    OBVIOUS
  <2>2. \A j \in 3 .. 4 : Apart(ContactRoutes[2], ContactRoutes[j])
    OBVIOUS
  <2>3. Apart(ContactRoutes[3], ContactRoutes[4])
    OBVIOUS
  <2> HIDE DEF Apart, Differ, Id, Word, Texts
  <2> QED
    BY <2>1, <2>2, <2>3 DEF RowsInOrder
<1>5. AllGuarded(ContactRoutes)
  <2>1. \A i \in DOMAIN ContactRoutes : ContactRoutes[i].guards = <<"jwt">>
    BY GuardedParts DEF ContactRoutes, Every, IsList
  <2>2. \A i \in DOMAIN ContactRoutes :
          ContactRoutes[i].public = FALSE /\ ContactRoutes[i].subject # "all"
    BY GuardedParts DEF ContactRoutes, Every, IsList
  <2>3. \A gs : gs = <<"jwt">> =>
          /\ DOMAIN gs = 1 .. Len(gs) /\ Len(gs) \in Nat
          /\ gs = [k \in 1 .. Len(gs) |-> gs[k]]
          /\ \A k \in DOMAIN gs : gs[k] \in Guards
    BY DEF Guards
  <2> QED
    BY <2>1, <2>2, <2>3, Zenon DEF AllGuarded, WellGuarded
<1> QED
  BY <1>1, <1>2, <1>3, <1>4, <1>5 DEF Part, Under

\* What UploadRoutes declares.
LEMMA UploadsRows ==
  LET t == UploadRoutes
  IN /\ DOMAIN t = 1 .. 7
     /\ t[1].method = "POST" /\ t[1].path = <<"uploads", "start">>
     /\ t[2].method = "POST" /\ t[2].path = <<"uploads", Id, "part-urls">>
     /\ t[3].method = "POST" /\ t[3].path = <<"uploads", Id, "part-complete">>
     /\ t[4].method = "POST" /\ t[4].path = <<"uploads", Id, "complete">>
     /\ t[5].method = "POST" /\ t[5].path = <<"uploads", Id, "cancel">>
     /\ t[6].method = "GET" /\ t[6].path = <<"uploads", Id, "status">>
     /\ t[7].method = "GET" /\ t[7].path = <<"uploads", "pending">>
BY RowParts DEF UploadRoutes

\* No route of UploadRoutes takes the requests of a later one.
LEMMA UploadTable == Part(UploadRoutes, {"uploads"}) /\ AllGuarded(UploadRoutes)
<1>1. IsList(UploadRoutes)
  BY Lists DEF UploadRoutes
<1>2. \A i \in DOMAIN UploadRoutes : Len(UploadRoutes[i].path) \in 1 .. 4 /\ UploadRoutes[i].path[1] = "uploads"
  BY RowParts DEF UploadRoutes
<1> USE UploadsRows
<1>3. \A i \in DOMAIN UploadRoutes : DOMAIN UploadRoutes[i].path = 1 .. Len(UploadRoutes[i].path)
  OBVIOUS
<1>4. RowsInOrder(UploadRoutes)
  <2> USE DEF Apart, Differ, Id, Word, Texts
  <2>1. \A j \in 2 .. 7 : Apart(UploadRoutes[1], UploadRoutes[j])
    OBVIOUS
  <2>2. \A j \in 3 .. 7 : Apart(UploadRoutes[2], UploadRoutes[j])
    OBVIOUS
  <2>3. \A j \in 4 .. 7 : Apart(UploadRoutes[3], UploadRoutes[j])
    OBVIOUS
  <2>4. \A j \in 5 .. 7 : Apart(UploadRoutes[4], UploadRoutes[j])
    OBVIOUS
  <2>5. \A j \in 6 .. 7 : Apart(UploadRoutes[5], UploadRoutes[j])
    OBVIOUS
  <2>6. Apart(UploadRoutes[6], UploadRoutes[7])
    OBVIOUS
  <2> HIDE DEF Apart, Differ, Id, Word, Texts
  <2> QED
    BY <2>1, <2>2, <2>3, <2>4, <2>5, <2>6 DEF RowsInOrder
<1>5. AllGuarded(UploadRoutes)
  BY RowParts, SMTT(20) DEF UploadRoutes, AllGuarded, WellGuarded, Guards
<1> QED
  BY <1>1, <1>2, <1>3, <1>4, <1>5 DEF Part, Under

\* What SubscriptionRoutes declares.
LEMMA SubscriptionsRows ==
  LET t == SubscriptionRoutes
  IN /\ DOMAIN t = 1 .. 6
     /\ t[1].method = "GET" /\ t[1].path = <<"payments", "plans">>
     /\ t[2].method = "GET" /\ t[2].path = <<"payments", "subscription">>
     /\ t[3].method = "GET" /\ t[3].path = <<"payments", "subscription", "history">>
     /\ t[4].method = "POST" /\ t[4].path = <<"payments", "checkout">>
     /\ t[5].method = "POST" /\ t[5].path = <<"payments", "renew">>
     /\ t[6].method = "GET" /\ t[6].path = <<"payments", "history">>
BY RowParts, PublicParts DEF SubscriptionRoutes

\* No route of SubscriptionRoutes takes the requests of a later one.
LEMMA SubscriptionTable == Part(SubscriptionRoutes, {"payments"}) /\ AllGuarded(SubscriptionRoutes)
<1>1. IsList(SubscriptionRoutes)
  BY Lists DEF SubscriptionRoutes
<1>2. \A i \in DOMAIN SubscriptionRoutes : Len(SubscriptionRoutes[i].path) \in 1 .. 4 /\ SubscriptionRoutes[i].path[1] = "payments"
  BY RowParts, PublicParts DEF SubscriptionRoutes
<1> USE SubscriptionsRows
<1>3. \A i \in DOMAIN SubscriptionRoutes : DOMAIN SubscriptionRoutes[i].path = 1 .. Len(SubscriptionRoutes[i].path)
  OBVIOUS
<1>4. RowsInOrder(SubscriptionRoutes)
  <2> USE DEF Apart, Differ, Id, Word, Texts
  <2>1. \A j \in 2 .. 6 : Apart(SubscriptionRoutes[1], SubscriptionRoutes[j])
    OBVIOUS
  <2>2. \A j \in 3 .. 6 : Apart(SubscriptionRoutes[2], SubscriptionRoutes[j])
    OBVIOUS
  <2>3. \A j \in 4 .. 6 : Apart(SubscriptionRoutes[3], SubscriptionRoutes[j])
    OBVIOUS
  <2>4. \A j \in 5 .. 6 : Apart(SubscriptionRoutes[4], SubscriptionRoutes[j])
    OBVIOUS
  <2>5. Apart(SubscriptionRoutes[5], SubscriptionRoutes[6])
    OBVIOUS
  <2> HIDE DEF Apart, Differ, Id, Word, Texts
  <2> QED
    BY <2>1, <2>2, <2>3, <2>4, <2>5 DEF RowsInOrder
<1>5. AllGuarded(SubscriptionRoutes)
  BY RowParts, PublicParts DEF SubscriptionRoutes, AllGuarded, WellGuarded, Guards
<1> QED
  BY <1>1, <1>2, <1>3, <1>4, <1>5 DEF Part, Under

\* What TransferRoutes declares.
LEMMA TransfersRows ==
  LET t == TransferRoutes
  IN /\ DOMAIN t = 1 .. 5
     /\ t[1].method = "GET" /\ t[1].path = <<"payments", "instapay", "info">>
     /\ t[2].method = "GET" /\ t[2].path = <<"payments", "instapay", "status">>
     /\ t[3].method = "POST" /\ t[3].path = <<"payments", "instapay", "submit">>
     /\ t[4].method = "POST" /\ t[4].path = <<"payments", "webhook">>
     /\ t[5].method = "GET" /\ t[5].path = <<"payments", "callback">>
BY RowParts, PublicParts DEF TransferRoutes

\* No route of TransferRoutes takes the requests of a later one.
LEMMA TransferTable == Part(TransferRoutes, {"payments"}) /\ AllGuarded(TransferRoutes)
<1>1. IsList(TransferRoutes)
  BY Lists DEF TransferRoutes
<1>2. \A i \in DOMAIN TransferRoutes : Len(TransferRoutes[i].path) \in 1 .. 4 /\ TransferRoutes[i].path[1] = "payments"
  BY RowParts, PublicParts DEF TransferRoutes
<1> USE TransfersRows
<1>3. \A i \in DOMAIN TransferRoutes : DOMAIN TransferRoutes[i].path = 1 .. Len(TransferRoutes[i].path)
  OBVIOUS
<1>4. RowsInOrder(TransferRoutes)
  <2> USE DEF Apart, Differ, Id, Word, Texts
  <2>1. \A j \in 2 .. 5 : Apart(TransferRoutes[1], TransferRoutes[j])
    OBVIOUS
  <2>2. \A j \in 3 .. 5 : Apart(TransferRoutes[2], TransferRoutes[j])
    OBVIOUS
  <2>3. \A j \in 4 .. 5 : Apart(TransferRoutes[3], TransferRoutes[j])
    OBVIOUS
  <2>4. Apart(TransferRoutes[4], TransferRoutes[5])
    OBVIOUS
  <2> HIDE DEF Apart, Differ, Id, Word, Texts
  <2> QED
    BY <2>1, <2>2, <2>3, <2>4 DEF RowsInOrder
<1>5. AllGuarded(TransferRoutes)
  BY RowParts, PublicParts DEF TransferRoutes, AllGuarded, WellGuarded, Guards
<1> QED
  BY <1>1, <1>2, <1>3, <1>4, <1>5 DEF Part, Under

\* What FeedbackRoutes declares.
LEMMA FeedbacksRows ==
  LET t == FeedbackRoutes
  IN /\ DOMAIN t = 1 .. 3
     /\ t[1].method = "POST" /\ t[1].path = <<"feedback">>
     /\ t[2].method = "GET" /\ t[2].path = <<"feedback">>
     /\ t[3].method = "GET" /\ t[3].path = <<"feedback", "stats">>
BY RowParts, GuardedParts DEF FeedbackRoutes

\* No route of FeedbackRoutes takes the requests of a later one.
LEMMA FeedbackTable == Part(FeedbackRoutes, {"feedback"}) /\ AllGuarded(FeedbackRoutes)
<1>1. IsList(FeedbackRoutes)
  BY Lists DEF FeedbackRoutes
<1>2. \A i \in DOMAIN FeedbackRoutes : Len(FeedbackRoutes[i].path) \in 1 .. 4 /\ FeedbackRoutes[i].path[1] = "feedback"
  BY RowParts, GuardedParts DEF FeedbackRoutes
<1> USE FeedbacksRows
<1>3. \A i \in DOMAIN FeedbackRoutes : DOMAIN FeedbackRoutes[i].path = 1 .. Len(FeedbackRoutes[i].path)
  OBVIOUS
<1>4. RowsInOrder(FeedbackRoutes)
  <2> USE DEF Apart, Differ, Id, Word, Texts
  <2>1. \A j \in 2 .. 3 : Apart(FeedbackRoutes[1], FeedbackRoutes[j])
    OBVIOUS
  <2>2. Apart(FeedbackRoutes[2], FeedbackRoutes[3])
    OBVIOUS
  <2> HIDE DEF Apart, Differ, Id, Word, Texts
  <2> QED
    BY <2>1, <2>2 DEF RowsInOrder
<1>5. AllGuarded(FeedbackRoutes)
  BY RowParts, GuardedParts DEF FeedbackRoutes, AllGuarded, WellGuarded, Guards
<1> QED
  BY <1>1, <1>2, <1>3, <1>4, <1>5 DEF Part, Under

\* No route of ProfileRoutes takes the requests of one of AccountRoutes.
LEMMA ProfilesBefore == Before(ProfileRoutes, AccountRoutes)
<1> USE ProfilesRows, OwnAccountRows DEF Apart, Differ, Id, Word, Texts
<1>1. \A j \in 1 .. 5 : Apart(ProfileRoutes[1], AccountRoutes[j])
  OBVIOUS
<1>2. \A j \in 1 .. 5 : Apart(ProfileRoutes[2], AccountRoutes[j])
  OBVIOUS
<1>3. \A j \in 1 .. 5 : Apart(ProfileRoutes[3], AccountRoutes[j])
  OBVIOUS
<1> HIDE DEF Apart, Differ, Id, Word, Texts
<1> QED
  BY <1>1, <1>2, <1>3 DEF Before

\* No route of FolderReadRoutes takes the requests of one of FolderChangeRoutes.
LEMMA FoldersBefore == Before(FolderReadRoutes, FolderChangeRoutes)
<1> USE FolderReadsRows, FolderChangesRows DEF Apart, Differ, Id, Word, Texts
<1>1. \A j \in 1 .. 6 : Apart(FolderReadRoutes[1], FolderChangeRoutes[j])
  OBVIOUS
<1>2. \A j \in 1 .. 6 : Apart(FolderReadRoutes[2], FolderChangeRoutes[j])
  OBVIOUS
<1>3. \A j \in 1 .. 6 : Apart(FolderReadRoutes[3], FolderChangeRoutes[j])
  OBVIOUS
<1>4. \A j \in 1 .. 6 : Apart(FolderReadRoutes[4], FolderChangeRoutes[j])
  OBVIOUS
<1>5. \A j \in 1 .. 6 : Apart(FolderReadRoutes[5], FolderChangeRoutes[j])
  OBVIOUS
<1> HIDE DEF Apart, Differ, Id, Word, Texts
<1> QED
  BY <1>1, <1>2, <1>3, <1>4, <1>5 DEF Before

\* No route of SubscriptionRoutes takes the requests of one of TransferRoutes.
LEMMA PaymentsBefore == Before(SubscriptionRoutes, TransferRoutes)
<1> USE SubscriptionsRows, TransfersRows DEF Apart, Differ, Id, Word, Texts
<1>1. \A j \in 1 .. 5 : Apart(SubscriptionRoutes[1], TransferRoutes[j])
  OBVIOUS
<1>2. \A j \in 1 .. 5 : Apart(SubscriptionRoutes[2], TransferRoutes[j])
  OBVIOUS
<1>3. \A j \in 1 .. 5 : Apart(SubscriptionRoutes[3], TransferRoutes[j])
  OBVIOUS
<1>4. \A j \in 1 .. 5 : Apart(SubscriptionRoutes[4], TransferRoutes[j])
  OBVIOUS
<1>5. \A j \in 1 .. 5 : Apart(SubscriptionRoutes[5], TransferRoutes[j])
  OBVIOUS
<1>6. \A j \in 1 .. 5 : Apart(SubscriptionRoutes[6], TransferRoutes[j])
  OBVIOUS
<1> HIDE DEF Apart, Differ, Id, Word, Texts
<1> QED
  BY <1>1, <1>2, <1>3, <1>4, <1>5, <1>6 DEF Before

\* No route of AdminUserRoutes takes the requests of one of AdminSystemRoutes.
LEMMA UsersBeforeSystem == Before(AdminUserRoutes, AdminSystemRoutes)
<1> USE AdminUsersRows, AdminSystemRows DEF Apart, Differ, Id, Word, Texts
<1>1. \A j \in 1 .. 7 : Apart(AdminUserRoutes[1], AdminSystemRoutes[j])
  OBVIOUS
<1>2. \A j \in 1 .. 7 : Apart(AdminUserRoutes[2], AdminSystemRoutes[j])
  OBVIOUS
<1>3. \A j \in 1 .. 7 : Apart(AdminUserRoutes[3], AdminSystemRoutes[j])
  OBVIOUS
<1>4. \A j \in 1 .. 7 : Apart(AdminUserRoutes[4], AdminSystemRoutes[j])
  OBVIOUS
<1>5. \A j \in 1 .. 7 : Apart(AdminUserRoutes[5], AdminSystemRoutes[j])
  OBVIOUS
<1> HIDE DEF Apart, Differ, Id, Word, Texts
<1> QED
  BY <1>1, <1>2, <1>3, <1>4, <1>5 DEF Before

\* No route of AdminUserRoutes takes the requests of one of AdminInstapayRoutes.
LEMMA UsersBeforeInstapay == Before(AdminUserRoutes, AdminInstapayRoutes)
<1> USE AdminUsersRows, AdminInstapayRows DEF Apart, Differ, Id, Word, Texts
<1>1. \A j \in 1 .. 5 : Apart(AdminUserRoutes[1], AdminInstapayRoutes[j])
  OBVIOUS
<1>2. \A j \in 1 .. 5 : Apart(AdminUserRoutes[2], AdminInstapayRoutes[j])
  OBVIOUS
<1>3. \A j \in 1 .. 5 : Apart(AdminUserRoutes[3], AdminInstapayRoutes[j])
  OBVIOUS
<1>4. \A j \in 1 .. 5 : Apart(AdminUserRoutes[4], AdminInstapayRoutes[j])
  OBVIOUS
<1>5. \A j \in 1 .. 5 : Apart(AdminUserRoutes[5], AdminInstapayRoutes[j])
  OBVIOUS
<1> HIDE DEF Apart, Differ, Id, Word, Texts
<1> QED
  BY <1>1, <1>2, <1>3, <1>4, <1>5 DEF Before

\* No route of AdminSystemRoutes takes the requests of one of AdminInstapayRoutes.
LEMMA SystemBeforeInstapay == Before(AdminSystemRoutes, AdminInstapayRoutes)
<1> USE AdminSystemRows, AdminInstapayRows DEF Apart, Differ, Id, Word, Texts
<1>1. \A j \in 1 .. 5 : Apart(AdminSystemRoutes[1], AdminInstapayRoutes[j])
  OBVIOUS
<1>2. \A j \in 1 .. 5 : Apart(AdminSystemRoutes[2], AdminInstapayRoutes[j])
  OBVIOUS
<1>3. \A j \in 1 .. 5 : Apart(AdminSystemRoutes[3], AdminInstapayRoutes[j])
  OBVIOUS
<1>4. \A j \in 1 .. 5 : Apart(AdminSystemRoutes[4], AdminInstapayRoutes[j])
  OBVIOUS
<1>5. \A j \in 1 .. 5 : Apart(AdminSystemRoutes[5], AdminInstapayRoutes[j])
  OBVIOUS
<1>6. \A j \in 1 .. 5 : Apart(AdminSystemRoutes[6], AdminInstapayRoutes[j])
  OBVIOUS
<1>7. \A j \in 1 .. 5 : Apart(AdminSystemRoutes[7], AdminInstapayRoutes[j])
  OBVIOUS
<1> HIDE DEF Apart, Differ, Id, Word, Texts
<1> QED
  BY <1>1, <1>2, <1>3, <1>4, <1>5, <1>6, <1>7 DEF Before

\* No route of FileListRoutes takes the requests of one of FileReadRoutes.
LEMMA ListsBeforeReads == Before(FileListRoutes, FileReadRoutes)
<1> USE FileListsRows, FileReadsRows DEF Apart, Differ, Id, Word, Texts
<1>1. \A j \in 1 .. 5 : Apart(FileListRoutes[1], FileReadRoutes[j])
  OBVIOUS
<1>2. \A j \in 1 .. 5 : Apart(FileListRoutes[2], FileReadRoutes[j])
  OBVIOUS
<1> HIDE DEF Apart, Differ, Id, Word, Texts
<1> QED
  BY <1>1, <1>2 DEF Before

\* No route of FileListRoutes takes the requests of one of FileTrashRoutes.
LEMMA ListsBeforeTrash == Before(FileListRoutes, FileTrashRoutes)
<1> USE FileListsRows, FileTrashRows DEF Apart, Differ, Id, Word, Texts
<1>1. \A j \in 1 .. 5 : Apart(FileListRoutes[1], FileTrashRoutes[j])
  OBVIOUS
<1>2. \A j \in 1 .. 5 : Apart(FileListRoutes[2], FileTrashRoutes[j])
  OBVIOUS
<1> HIDE DEF Apart, Differ, Id, Word, Texts
<1> QED
  BY <1>1, <1>2 DEF Before

\* No route of FileListRoutes takes the requests of one of FileUploadRoutes.
LEMMA ListsBeforeUpload == Before(FileListRoutes, FileUploadRoutes)
<1> USE FileListsRows, FileUploadRows DEF Apart, Differ, Id, Word, Texts
<1>1. Apart(FileListRoutes[1], FileUploadRoutes[1])
  OBVIOUS
<1>2. Apart(FileListRoutes[2], FileUploadRoutes[1])
  OBVIOUS
<1> HIDE DEF Apart, Differ, Id, Word, Texts
<1> QED
  BY <1>1, <1>2 DEF Before

\* No route of FileUploadRoutes takes the requests of one of FileReadRoutes.
LEMMA UploadBeforeReads == Before(FileUploadRoutes, FileReadRoutes)
<1> USE FileUploadRows, FileReadsRows DEF Apart, Differ, Id, Word, Texts
<1>1. \A j \in 1 .. 5 : Apart(FileUploadRoutes[1], FileReadRoutes[j])
  OBVIOUS
<1> HIDE DEF Apart, Differ, Id, Word, Texts
<1> QED
  BY <1>1 DEF Before

\* No route of FileUploadRoutes takes the requests of one of FileTrashRoutes.
LEMMA UploadBeforeTrash == Before(FileUploadRoutes, FileTrashRoutes)
<1> USE FileUploadRows, FileTrashRows DEF Apart, Differ, Id, Word, Texts
<1>1. \A j \in 1 .. 5 : Apart(FileUploadRoutes[1], FileTrashRoutes[j])
  OBVIOUS
<1> HIDE DEF Apart, Differ, Id, Word, Texts
<1> QED
  BY <1>1 DEF Before

\* No route of FileReadRoutes takes the requests of one of FileTrashRoutes.
LEMMA ReadsBeforeTrash == Before(FileReadRoutes, FileTrashRoutes)
<1> USE FileReadsRows, FileTrashRows DEF Apart, Differ, Id, Word, Texts
<1>1. \A j \in 1 .. 5 : Apart(FileReadRoutes[1], FileTrashRoutes[j])
  OBVIOUS
<1>2. \A j \in 1 .. 5 : Apart(FileReadRoutes[2], FileTrashRoutes[j])
  OBVIOUS
<1>3. \A j \in 1 .. 5 : Apart(FileReadRoutes[3], FileTrashRoutes[j])
  OBVIOUS
<1>4. \A j \in 1 .. 5 : Apart(FileReadRoutes[4], FileTrashRoutes[j])
  OBVIOUS
<1>5. \A j \in 1 .. 5 : Apart(FileReadRoutes[5], FileTrashRoutes[j])
  OBVIOUS
<1> HIDE DEF Apart, Differ, Id, Word, Texts
<1> QED
  BY <1>1, <1>2, <1>3, <1>4, <1>5 DEF Before

\* No route of SignupRoutes takes the requests of one of SignInRoutes.
LEMMA SignupsBefore == Before(SignupRoutes, SignInRoutes)
<1> USE SignupsRows, SignInsRows DEF Apart, Differ, Id, Word, Texts
<1>1. \A j \in 1 .. 7 : Apart(SignupRoutes[1], SignInRoutes[j])
  OBVIOUS
<1>2. \A j \in 1 .. 7 : Apart(SignupRoutes[2], SignInRoutes[j])
  OBVIOUS
<1> HIDE DEF Apart, Differ, Id, Word, Texts
<1> QED
  BY <1>1, <1>2 DEF Before

-----------------------------------------------------------------------------
(* What @Public and the guards of a class do to the routes of a controller.   *)

Fields == {"method", "path", "public", "guards", "subject", "op"}
AreRoutes(s, subject) ==
  \A i \in DOMAIN s :
    /\ DOMAIN s[i] = Fields /\ s[i] = [k \in Fields |-> s[i][k]]
    /\ s[i].subject = subject /\ s[i].public = FALSE

\* The routes before @Public and the guards of their class are added.
LEMMA BareRoutes ==
  /\ AreRoutes(SignupRoutes, "none") /\ AreRoutes(SignInRoutes, "none")
  /\ AreRoutes(AdminUserRoutes, "all") /\ AreRoutes(AdminSystemRoutes, "all")
  /\ AreRoutes(AdminInstapayRoutes, "all")
<1> USE DEF AreRoutes, Route, Fields
<1>1. AreRoutes(SignupRoutes, "none")
  BY DEF SignupRoutes, Guarded
<1>2. AreRoutes(SignInRoutes, "none")
  BY DEF SignInRoutes, Guarded, Every
<1>3. AreRoutes(AdminUserRoutes, "all")
  BY DEF AdminUserRoutes
<1>4. AreRoutes(AdminSystemRoutes, "all")
  BY DEF AdminSystemRoutes
<1>5. AreRoutes(AdminInstapayRoutes, "all")
  BY DEF AdminInstapayRoutes
<1> QED
  BY <1>1, <1>2, <1>3, <1>4, <1>5

\* Bare routes, one part behind the other.
LEMMA RoutesJoined ==
  ASSUME NEW s, NEW t, NEW subject, IsList(s), IsList(t),
         AreRoutes(s, subject), AreRoutes(t, subject)
  PROVE  AreRoutes(s \o t, subject)
<1> SUFFICES ASSUME NEW k \in DOMAIN (s \o t)
             PROVE  /\ DOMAIN (s \o t)[k] = Fields
                    /\ (s \o t)[k] = [f \in Fields |-> (s \o t)[k][f]]
                    /\ (s \o t)[k].subject = subject /\ (s \o t)[k].public = FALSE
  BY Zenon DEF AreRoutes
<1>1. CASE k \in DOMAIN s /\ (s \o t)[k] = s[k]
  BY <1>1, Zenon DEF AreRoutes
<1>2. CASE k - Len(s) \in DOMAIN t /\ (s \o t)[k] = t[k - Len(s)]
  BY <1>2, Zenon DEF AreRoutes
<1> QED
  BY <1>1, <1>2, Joined

\* @Public changes nothing else.
LEMMA MadePublic ==
  ASSUME NEW r, DOMAIN r = Fields, r = [k \in Fields |-> r[k]]
  PROVE  /\ Public(r).path = r.path /\ Public(r).method = r.method
         /\ Public(r).guards = r.guards /\ Public(r).subject = r.subject
BY DEF Fields, Public

\* Guards change nothing else.
LEMMA MadeGuarded ==
  ASSUME NEW r, NEW gs, DOMAIN r = Fields, r = [k \in Fields |-> r[k]]
  PROVE  /\ Guarded(gs, r).path = r.path /\ Guarded(gs, r).method = r.method
         /\ Guarded(gs, r).guards = gs /\ Guarded(gs, r).subject = r.subject
         /\ Guarded(gs, r).public = r.public
BY DEF Fields, Guarded

\* What comes before two parts comes before them together.
LEMMA BeforeJoined ==
  ASSUME NEW s, NEW t, NEW u, IsList(s), IsList(t), Before(s, u), Before(t, u)
  PROVE  Before(s \o t, u)
<1> SUFFICES ASSUME NEW k \in DOMAIN (s \o t), NEW j \in DOMAIN u
             PROVE  Apart((s \o t)[k], u[j])
  BY Zenon DEF Before
<1>1. CASE k \in DOMAIN s /\ (s \o t)[k] = s[k]
  BY <1>1 DEF Before
<1>2. CASE k - Len(s) \in DOMAIN t /\ (s \o t)[k] = t[k - Len(s)]
  BY <1>2 DEF Before
<1> QED
  BY <1>1, <1>2, Joined

\* The routes under auth, all public.
LEMMA AuthTable == Part(AuthRoutes, {"auth"}) /\ AllGuarded(AuthRoutes)
<1> DEFINE s == SignupRoutes \o SignInRoutes
<1>1. IsList(SignupRoutes) /\ IsList(SignInRoutes)
  BY SignupTable, SignInTable DEF Part, Under
<1>2. Part(s, {"auth"})
  <2>1. Part(s, {"auth"} \cup {"auth"})
    BY SignupTable, SignInTable, SignupsBefore, PartsJoined, Zenon
  <2> QED
    BY <2>1
<1>3. AllGuarded(s)
  BY <1>1, SignupTable, SignInTable, GuardedJoined, Zenon
<1>4. AreRoutes(s, "none")
  BY <1>1, BareRoutes, RoutesJoined, Zenon
<1>5. IsList(s) /\ DOMAIN s = 1 .. Len(s) /\ Len(s) \in Nat
  <2>1. IsList(s)
    BY <1>2 DEF Part, Under
  <2> QED
    BY <2>1, ListDomain, Zenon
<1> HIDE DEF s
<1>6. AuthRoutes = [i \in DOMAIN s |-> Public(s[i])]
  BY DEF AuthRoutes, Every, s
<1>7. IsList(AuthRoutes) /\ DOMAIN AuthRoutes = DOMAIN s
  <2>1. AuthRoutes \in Seq({AuthRoutes[i] : i \in 1 .. Len(s)})
    BY <1>5, <1>6
  <2> QED
    BY <2>1, <1>5, <1>6, SequencesAreLists
<1>8. ASSUME NEW i \in DOMAIN s
      PROVE  /\ AuthRoutes[i].method = s[i].method /\ AuthRoutes[i].path = s[i].path
             /\ AuthRoutes[i].guards = s[i].guards /\ AuthRoutes[i].subject = "none"
  BY <1>4, <1>6, MadePublic DEF AreRoutes
<1>9. Part(AuthRoutes, {"auth"})
  BY <1>2, <1>7, <1>8, SameShape
<1>10. AllGuarded(AuthRoutes)
  BY <1>3, <1>7, <1>8 DEF AllGuarded, WellGuarded
<1> QED
  BY <1>9, <1>10

\* The routes under admin, all with AdminGuard.
LEMMA AdminTable == Part(AdminRoutes, {"admin"}) /\ AllGuarded(AdminRoutes)
<1> DEFINE q == AdminUserRoutes \o AdminSystemRoutes
           s == q \o AdminInstapayRoutes
<1>1. IsList(AdminUserRoutes) /\ IsList(AdminSystemRoutes) /\ IsList(AdminInstapayRoutes)
  BY AdminUserTable, AdminSystemTable, AdminInstapayTable DEF Part, Under
<1>2. Part(q, {"admin"})
  <2>1. Part(q, {"admin"} \cup {"admin"})
    BY AdminUserTable, AdminSystemTable, UsersBeforeSystem, PartsJoined, Zenon
  <2> QED
    BY <2>1
<1>3. IsList(q)
  BY <1>2 DEF Part, Under
<1>4. AreRoutes(q, "all")
  BY <1>1, BareRoutes, RoutesJoined, Zenon
<1>5. Before(q, AdminInstapayRoutes)
  BY <1>1, UsersBeforeInstapay, SystemBeforeInstapay, BeforeJoined, Zenon
<1> HIDE DEF q
<1>6. Part(s, {"admin"})
  <2>1. Part(s, {"admin"} \cup {"admin"})
    BY <1>2, <1>5, AdminInstapayTable, PartsJoined, Zenon
  <2> QED
    BY <2>1
<1>7. AreRoutes(s, "all")
  BY <1>1, <1>3, <1>4, BareRoutes, RoutesJoined, Zenon
<1>8. IsList(s) /\ DOMAIN s = 1 .. Len(s) /\ Len(s) \in Nat
  <2>1. IsList(s)
    BY <1>6 DEF Part, Under
  <2> QED
    BY <2>1, ListDomain, Zenon
<1> HIDE DEF s
<1>9. AdminRoutes = [i \in DOMAIN s |-> Guarded(<<"admin">>, s[i])]
  BY DEF AdminRoutes, Every, s, q
<1>10. IsList(AdminRoutes) /\ DOMAIN AdminRoutes = DOMAIN s
  <2>1. AdminRoutes \in Seq({AdminRoutes[i] : i \in 1 .. Len(s)})
    BY <1>8, <1>9
  <2> QED
    BY <2>1, <1>8, <1>9, SequencesAreLists
<1>11. ASSUME NEW i \in DOMAIN s
       PROVE  /\ AdminRoutes[i].method = s[i].method /\ AdminRoutes[i].path = s[i].path
              /\ AdminRoutes[i].guards = <<"admin">> /\ AdminRoutes[i].public = FALSE
  BY <1>7, <1>9, MadeGuarded DEF AreRoutes
<1>12. Part(AdminRoutes, {"admin"})
  BY <1>6, <1>10, <1>11, SameShape
<1>13. ASSUME NEW i \in DOMAIN AdminRoutes
       PROVE  WellGuarded(AdminRoutes[i])
  <2> DEFINE gs == AdminRoutes[i].guards
  <2>1. /\ DOMAIN gs = 1 .. 1 /\ Len(gs) = 1 /\ gs[1] = "admin"
        /\ gs = [k \in 1 .. Len(gs) |-> gs[k]]
    <3>1. gs = <<"admin">>
      BY <1>10, <1>11, Zenon
    <3> HIDE DEF gs
    <3> QED
      BY <3>1
  <2>2. AdminRoutes[i].public = FALSE
    BY <1>10, <1>11
  <2> HIDE DEF gs
  <2>3. \A k \in DOMAIN gs : gs[k] \in Guards
    BY <2>1 DEF Guards
  <2> QED
    BY <2>1, <2>2, <2>3 DEF WellGuarded, gs
<1> QED
  BY <1>12, <1>13 DEF AllGuarded

\* The routes under users.
LEMMA UserTable == Part(UserRoutes, {"users"}) /\ AllGuarded(UserRoutes)
<1>1. Part(UserRoutes, {"users"} \cup {"users"})
  BY ProfileTable, AccountTable, ProfilesBefore, PartsJoined, Zenon DEF UserRoutes
<1>2. AllGuarded(UserRoutes)
  BY ProfileTable, AccountTable, GuardedJoined, Zenon DEF UserRoutes, Part, Under
<1> QED
  BY <1>1, <1>2

\* The routes under folders.
LEMMA FolderTable == Part(FolderRoutes, {"folders"}) /\ AllGuarded(FolderRoutes)
<1>1. Part(FolderRoutes, {"folders"} \cup {"folders"})
  BY FolderReadTable, FolderChangeTable, FoldersBefore, PartsJoined, Zenon DEF FolderRoutes
<1>2. AllGuarded(FolderRoutes)
  BY FolderReadTable, FolderChangeTable, GuardedJoined, Zenon DEF FolderRoutes, Part, Under
<1> QED
  BY <1>1, <1>2

\* The routes under payments.
LEMMA PaymentTable == Part(PaymentRoutes, {"payments"}) /\ AllGuarded(PaymentRoutes)
<1>1. Part(PaymentRoutes, {"payments"} \cup {"payments"})
  BY SubscriptionTable, TransferTable, PaymentsBefore, PartsJoined, Zenon DEF PaymentRoutes
<1>2. AllGuarded(PaymentRoutes)
  BY SubscriptionTable, TransferTable, GuardedJoined, Zenon DEF PaymentRoutes, Part, Under
<1> QED
  BY <1>1, <1>2

\* The routes under files: words are declared before ids.
LEMMA FileTable == Part(FileRoutes, {"files"}) /\ AllGuarded(FileRoutes)
<1> DEFINE p == FileListRoutes \o FileUploadRoutes
           q == p \o FileReadRoutes
<1>1. /\ IsList(FileListRoutes) /\ IsList(FileUploadRoutes)
      /\ IsList(FileReadRoutes) /\ IsList(FileTrashRoutes)
  BY FileListTable, FileUploadTable, FileReadTable, FileTrashTable DEF Part, Under
<1>2. Part(p, {"files"})
  <2>1. Part(p, {"files"} \cup {"files"})
    BY FileListTable, FileUploadTable, ListsBeforeUpload, PartsJoined, Zenon
  <2> QED
    BY <2>1
<1>3. IsList(p) /\ AllGuarded(p)
  BY <1>1, <1>2, FileListTable, FileUploadTable, GuardedJoined, Zenon DEF Part, Under
<1>4. Before(p, FileReadRoutes) /\ Before(p, FileTrashRoutes)
  BY <1>1, ListsBeforeReads, UploadBeforeReads, ListsBeforeTrash, UploadBeforeTrash,
     BeforeJoined, Zenon
<1> HIDE DEF p
<1>5. Part(q, {"files"})
  <2>1. Part(q, {"files"} \cup {"files"})
    BY <1>2, <1>4, FileReadTable, PartsJoined, Zenon
  <2> QED
    BY <2>1
<1>6. IsList(q) /\ AllGuarded(q)
  BY <1>1, <1>3, <1>5, FileReadTable, GuardedJoined, Zenon DEF Part, Under
<1>7. Before(q, FileTrashRoutes)
  BY <1>1, <1>3, <1>4, ReadsBeforeTrash, BeforeJoined, Zenon
<1> HIDE DEF q
<1>8. FileRoutes = q \o FileTrashRoutes
  BY DEF FileRoutes, p, q
<1>9. Part(FileRoutes, {"files"} \cup {"files"})
  BY <1>5, <1>7, <1>8, FileTrashTable, PartsJoined, Zenon
<1>10. AllGuarded(FileRoutes)
  BY <1>1, <1>6, <1>8, FileTrashTable, GuardedJoined, Zenon
<1> QED
  BY <1>9, <1>10

\* The whole table: no route takes the requests of a later one, and the guards of
\* each fit its data.
LEMMA WholeTable ==
  /\ \A i \in DOMAIN Routes :
       Len(Routes[i].path) \in 1 .. 4 /\ DOMAIN Routes[i].path = 1 .. Len(Routes[i].path)
  /\ DOMAIN Routes = 1 .. Len(Routes) /\ Len(Routes) \in Nat
  /\ RowsInOrder(Routes)
  /\ AllGuarded(Routes)
<1> DEFINE Good(s, C) == Part(s, C) /\ AllGuarded(s)
           Words == {"auth", "users", "files", "folders", "admin", "shares",
                     "contacts", "uploads", "payments", "feedback"}
<1>1. ASSUME NEW s, NEW t, NEW C \in SUBSET Words, NEW D, Good(s, C), Good(t, D),
             C \cap D = {}
      PROVE  Good(s \o t, C \cup D)
  <2>1. \A w \in C : w \notin {Id, Word} \cup Texts
    BY DEF Id, Word, Texts
  <2>2. Part(s \o t, C \cup D)
    BY <1>1, <2>1, ControllersJoined, Zenon
  <2> QED
    BY <1>1, <2>2, GuardedJoined, Zenon DEF Part, Under
<1> DEFINE R2 == AuthRoutes \o UserRoutes
           R3 == R2 \o FileRoutes
           R4 == R3 \o FolderRoutes
           R5 == R4 \o AdminRoutes
           R6 == R5 \o ShareRoutes
           R7 == R6 \o ContactRoutes
           R8 == R7 \o UploadRoutes
           R9 == R8 \o PaymentRoutes
<1>2. /\ Good(AuthRoutes, {"auth"}) /\ Good(UserRoutes, {"users"})
      /\ Good(FileRoutes, {"files"}) /\ Good(FolderRoutes, {"folders"})
      /\ Good(AdminRoutes, {"admin"}) /\ Good(ShareRoutes, {"shares"})
      /\ Good(ContactRoutes, {"contacts"}) /\ Good(UploadRoutes, {"uploads"})
      /\ Good(PaymentRoutes, {"payments"}) /\ Good(FeedbackRoutes, {"feedback"})
  BY AuthTable, UserTable, FileTable, FolderTable, AdminTable, ShareTable, ContactTable, UploadTable,
     PaymentTable, FeedbackTable
<1>3. Routes = R9 \o FeedbackRoutes
  BY DEF Routes
<1> HIDE DEF Good, R2, R3, R4, R5, R6, R7, R8, R9
<1>4. Good(R2, {"auth", "users"})
  <2>1. Good(R2, {"auth"} \cup {"users"})
    BY <1>1, <1>2 DEF R2
  <2>2. {"auth"} \cup {"users"} = {"auth", "users"}
    OBVIOUS
  <2> QED
    BY <2>1, <2>2, Zenon
<1>5. Good(R3, {"auth", "users", "files"})
  <2>1. Good(R3, {"auth", "users"} \cup {"files"})
    BY <1>1, <1>2, <1>4 DEF R3
  <2>2. {"auth", "users"} \cup {"files"} = {"auth", "users", "files"}
    OBVIOUS
  <2> QED
    BY <2>1, <2>2, Zenon
<1>6. Good(R4, {"auth", "users", "files", "folders"})
  <2>1. Good(R4, {"auth", "users", "files"} \cup {"folders"})
    BY <1>1, <1>2, <1>5 DEF R4
  <2>2. {"auth", "users", "files"} \cup {"folders"} = {"auth", "users", "files", "folders"}
    OBVIOUS
  <2> QED
    BY <2>1, <2>2, Zenon
<1>7. Good(R5, {"auth", "users", "files", "folders", "admin"})
  <2>1. Good(R5, {"auth", "users", "files", "folders"} \cup {"admin"})
    BY <1>1, <1>2, <1>6 DEF R5
  <2>2. {"auth", "users", "files", "folders"} \cup {"admin"} = {"auth", "users", "files", "folders", "admin"}
    OBVIOUS
  <2> QED
    BY <2>1, <2>2, Zenon
<1>8. Good(R6, {"auth", "users", "files", "folders", "admin", "shares"})
  <2>1. Good(R6, {"auth", "users", "files", "folders", "admin"} \cup {"shares"})
    BY <1>1, <1>2, <1>7 DEF R6
  <2>2. {"auth", "users", "files", "folders", "admin"} \cup {"shares"} = {"auth", "users", "files", "folders", "admin", "shares"}
    OBVIOUS
  <2> QED
    BY <2>1, <2>2, Zenon
<1>9. Good(R7, {"auth", "users", "files", "folders", "admin", "shares", "contacts"})
  <2>1. Good(R7, {"auth", "users", "files", "folders", "admin", "shares"} \cup {"contacts"})
    BY <1>1, <1>2, <1>8 DEF R7
  <2>2. {"auth", "users", "files", "folders", "admin", "shares"} \cup {"contacts"} = {"auth", "users", "files", "folders", "admin", "shares", "contacts"}
    OBVIOUS
  <2> QED
    BY <2>1, <2>2, Zenon
<1>10. Good(R8, {"auth", "users", "files", "folders", "admin", "shares", "contacts", "uploads"})
  <2>1. Good(R8, {"auth", "users", "files", "folders", "admin", "shares", "contacts"} \cup {"uploads"})
    BY <1>1, <1>2, <1>9 DEF R8
  <2>2. {"auth", "users", "files", "folders", "admin", "shares", "contacts"} \cup {"uploads"} = {"auth", "users", "files", "folders", "admin", "shares", "contacts", "uploads"}
    OBVIOUS
  <2> QED
    BY <2>1, <2>2, Zenon
<1>11. Good(R9, {"auth", "users", "files", "folders", "admin", "shares", "contacts", "uploads", "payments"})
  <2>1. Good(R9, {"auth", "users", "files", "folders", "admin", "shares", "contacts", "uploads"} \cup {"payments"})
    BY <1>1, <1>2, <1>10 DEF R9
  <2>2. {"auth", "users", "files", "folders", "admin", "shares", "contacts", "uploads"} \cup {"payments"} = {"auth", "users", "files", "folders", "admin", "shares", "contacts", "uploads", "payments"}
    OBVIOUS
  <2> QED
    BY <2>1, <2>2, Zenon
<1>12. \E C : Good(Routes, C)
  BY <1>1, <1>2, <1>3, <1>11
<1>13. PICK C : Part(Routes, C) /\ AllGuarded(Routes)
  BY <1>12, Zenon DEF Good
<1>14. IsList(Routes)
  BY <1>13 DEF Part, Under
<1>15. DOMAIN Routes = 1 .. Len(Routes) /\ Len(Routes) \in Nat
  BY <1>14, ListDomain, Zenon
<1> QED
  BY <1>13, <1>15, Zenon DEF Part, Under

-----------------------------------------------------------------------------
(* The invariant of Gateway.                                                *)

\* The router takes every request to the route it was made for.
LEMMA Routed ==
  ASSUME NEW i \in DOMAIN Routes, NEW text \in Texts
  PROVE  FirstMatch(Routes[i].method, Fill(Routes[i].path, text)) = i
<1> DEFINE m == Routes[i].method
           p == Routes[i].path
           f == Fill(p, text)
           First(k) == /\ Matches(Routes[k], m, f)
                       /\ \A j \in 1 .. k - 1 : ~Matches(Routes[j], m, f)
<1>1. /\ Len(p) \in Nat /\ DOMAIN p = 1 .. Len(p)
      /\ DOMAIN Routes = 1 .. Len(Routes) /\ Len(Routes) \in Nat
  BY WholeTable
<1>2. DOMAIN f = DOMAIN p /\ Len(f) = Len(p)
  BY <1>1 DEF Fill
<1>3. \A k \in DOMAIN p : f[k] = IF p[k] \in {Id, Word} THEN text ELSE p[k]
  BY DEF Fill
<1> HIDE DEF f
<1>4. Matches(Routes[i], m, f)
  BY <1>1, <1>2, <1>3 DEF Matches
<1>5. ASSUME NEW j \in DOMAIN Routes, j < i
      PROVE  ~Matches(Routes[j], m, f)
  <2> DEFINE q == Routes[j].path
  <2>1. Apart(Routes[j], Routes[i])
    BY <1>5, WholeTable DEF RowsInOrder
  <2>2. Len(q) \in Nat /\ DOMAIN q = 1 .. Len(q)
    BY WholeTable
  <2>3. ASSUME NEW k \in Nat \ {0}, Differ(Routes[j], Routes[i], k), Len(q) = Len(f)
        PROVE  k \in DOMAIN f /\ q[k] \notin {Id, Word, f[k]}
    BY <1>1, <1>2, <1>3, <2>2, <2>3 DEF Differ
  <2> QED
    BY <1>2, <2>1, <2>3 DEF Apart, Matches
<1>6. First(i)
  BY <1>1, <1>4, <1>5
<1>7. \A k \in DOMAIN Routes : First(k) => k = i
  BY <1>1, <1>4, <1>5
<1> HIDE DEF First
<1>8. (CHOOSE k \in DOMAIN Routes : First(k)) = i
  BY <1>6, <1>7
<1> QED
  BY <1>8 DEF FirstMatch, First, f

\* The guards of a route are a sequence of guards.
LEMMA GuardsOfRoute ==
  ASSUME NEW i \in DOMAIN Routes
  PROVE  Routes[i].guards \in Seq(Guards)
<1> DEFINE gs == Routes[i].guards
<1>1. WellGuarded(Routes[i])
  BY WholeTable, Zenon DEF AllGuarded
<1> HIDE DEF gs
<1>2. /\ DOMAIN gs = 1 .. Len(gs) /\ Len(gs) \in Nat
      /\ \A k \in DOMAIN gs : gs[k] \in Guards
      /\ gs = [k \in 1 .. Len(gs) |-> gs[k]]
  BY <1>1, Zenon DEF WellGuarded, gs
<1> QED
  BY <1>2 DEF gs

\* Two elements in front of a sequence.
LEMMA TwoBefore ==
  ASSUME NEW S, NEW a \in S, NEW b \in S, NEW gs \in Seq(S)
  PROVE  LET all == <<a, b>> \o gs
         IN /\ all \in Seq(S) /\ Len(all) = Len(gs) + 2 /\ Len(gs) \in Nat
            /\ all[1] = a /\ all[2] = b
            /\ \A k \in DOMAIN gs : all[k + 2] = gs[k]
OBVIOUS

\* The global guards come before those of a route.
LEMMA GlobalGuards ==
  ASSUME NEW gs \in Seq(Guards)
  PROVE  LET all == <<"throttle", "jwt">> \o gs
         IN /\ all \in Seq(Guards) /\ Len(all) = Len(gs) + 2 /\ Len(gs) \in Nat
            /\ all[1] = "throttle" /\ all[2] = "jwt"
            /\ \A k \in DOMAIN gs : all[k + 2] = gs[k]
<1>1. "throttle" \in Guards /\ "jwt" \in Guards
  BY DEF Guards
<1>2. PICK a \in Guards : a = "throttle"
  BY <1>1
<1>3. PICK b \in Guards : b = "jwt"
  BY <1>1
<1>4. LET all == <<a, b>> \o gs
      IN /\ all \in Seq(Guards) /\ Len(all) = Len(gs) + 2 /\ Len(gs) \in Nat
         /\ all[1] = a /\ all[2] = b
         /\ \A k \in DOMAIN gs : all[k + 2] = gs[k]
  BY TwoBefore
<1> QED
  BY <1>2, <1>3, <1>4, Zenon

\* Before the first request nothing is known of a user.
LEMMA GatewayInitInv == GatewayInit => GatewayInv
BY WholeTable DEF GatewayInit, GatewayInv, GatewayTypeOK, RouteFound, GuardsInOrder, NoCall

\* A request arrives: all guards of its route are still to run.
LEMMA ReceiveKeeps ==
  ASSUME GatewayInv, ReceiveRequest
  PROVE  GatewayInv'
<1> USE DEF GatewayInv
<1>1. PICK i \in DOMAIN Routes, text \in Texts,
           token \in {"none", "expired", "user", "admin"}, captcha \in BOOLEAN :
        /\ request' = [path |-> Fill(Routes[i].path, text), token |-> token,
                       captcha |-> captcha]
        /\ asked' = i
        /\ LET j == FirstMatch(Routes[i].method, request'.path)
           IN matched' = j /\ todo' = <<"throttle", "jwt">> \o Routes[j].guards
  BY Zenon DEF ReceiveRequest
<1>2. /\ phase' = "guards" /\ user' = "none" /\ status' = status
  BY DEF ReceiveRequest
<1>3. matched' = i /\ todo' = <<"throttle", "jwt">> \o Routes[i].guards
  <2>1. request'.path = Fill(Routes[i].path, text)
    BY <1>1
  <2>2. FirstMatch(Routes[i].method, request'.path) = i
    BY <2>1, Routed
  <2> QED
    BY <1>1, <2>2
<1> DEFINE gs == Routes[i].guards
           all == <<"throttle", "jwt">> \o gs
<1>4. gs \in Seq(Guards)
  BY GuardsOfRoute
<1>5. all \in Seq(Guards) /\ Len(all) = Len(gs) + 2
  BY <1>4, GlobalGuards
<1>6. GatewayTypeOK'
  <2>1. request'.token \in {"none", "expired", "user", "admin"} /\ request'.captcha \in BOOLEAN
    BY <1>1
  <2>2. todo' \in Seq(Guards)
    BY <1>3, <1>5
  <2>3. asked' \in 0 .. Len(Routes) /\ matched' \in 0 .. Len(Routes)
    BY <1>1, <1>3, WholeTable, SMTT(20)
  <2> QED
    BY <1>2, <2>1, <2>2, <2>3 DEF GatewayTypeOK
<1>7. RouteFound'
  BY <1>1, <1>3 DEF RouteFound
<1>8. GuardsInOrder'
  BY <1>2, <1>3, <1>5 DEF GuardsInOrder
<1> QED
  BY <1>2, <1>6, <1>7, <1>8

\* A guard passes or refuses; JwtAuthGuard, which runs second, sets the user.
LEMMA RunGuardKeeps ==
  ASSUME GatewayInv, RunGuard
  PROVE  GatewayInv'
<1> DEFINE gs == Routes[matched].guards
           all == <<"throttle", "jwt">> \o gs
           ran == Len(all) - Len(todo)
           g == Head(todo)
<1>1. /\ phase = "guards" /\ todo \in Seq(Guards) /\ todo # <<>>
      /\ asked' = asked /\ request' = request /\ matched' = matched
  BY DEF RunGuard, GatewayInv, GatewayTypeOK
<1>2. matched \in DOMAIN Routes /\ asked \in DOMAIN Routes /\ matched = asked
  BY <1>1 DEF GatewayInv, RouteFound
<1>3. gs \in Seq(Guards)
  BY <1>2, GuardsOfRoute
<1> HIDE DEF gs
<1>4. /\ all \in Seq(Guards) /\ Len(all) = Len(gs) + 2 /\ Len(gs) \in Nat
      /\ all[1] = "throttle" /\ all[2] = "jwt"
  BY <1>3, GlobalGuards
<1> HIDE DEF all
<1>5. /\ ran >= 0
      /\ \A k \in DOMAIN todo : todo[k] = all[ran + k]
      /\ IF ran < 2 THEN user = "none" ELSE JwtPasses /\ user = JwtUser
      /\ "admin" \in {all[k] : k \in 1 .. ran} => user = "admin"
  BY <1>1, Zenon DEF GatewayInv, GuardsInOrder, gs, all
<1>6. /\ Len(todo) \in Nat \ {0} /\ Len(all) \in Nat /\ DOMAIN todo = 1 .. Len(todo)
      /\ ran \in Nat /\ g = all[ran + 1] /\ g \in Guards
  <2>1. /\ Len(todo) \in Nat \ {0} /\ DOMAIN todo = 1 .. Len(todo)
        /\ g = todo[1] /\ g \in Guards
    BY <1>1
  <2>2. Len(all) \in Nat
    BY <1>4
  <2> QED
    BY <2>1, <2>2, <1>5
<1>7. CASE /\ GuardPasses(g)
           /\ user' = IF g = "jwt" THEN JwtUser ELSE user
           /\ todo' = Tail(todo)
           /\ UNCHANGED <<phase, status>>
  <2>1. /\ todo' \in Seq(Guards) /\ Len(todo') = Len(todo) - 1
        /\ \A k \in DOMAIN todo' : todo'[k] = todo[k + 1] /\ k + 1 \in DOMAIN todo
    BY <1>1, <1>7
  <2>2. JwtPasses' = JwtPasses /\ JwtUser' = JwtUser
    BY <1>1 DEF JwtPasses, JwtUser
  <2>3. JwtUser \in {"none", "user", "admin"} \/ ~JwtPasses
    BY DEF JwtUser, JwtPasses
  <2>4. g = "jwt" => JwtPasses
    BY <1>7 DEF GuardPasses
  <2>5. g = "admin" => user = "admin"
    BY <1>7 DEF GuardPasses
  <2>6. user' \in {"none", "user", "admin"}
    BY <1>7, <2>3, <2>4 DEF GatewayInv, GatewayTypeOK
  <2>7. GatewayTypeOK'
    BY <1>1, <1>7, <2>1, <2>6 DEF GatewayInv, GatewayTypeOK
  <2>8. GuardsInOrder'
    <3> DEFINE through == Len(all) - Len(todo')
    <3>1. through = ran + 1 /\ through \in Nat
      BY <1>6, <2>1
    <3>2. \A k \in DOMAIN todo' : todo'[k] = all[through + k]
      BY <1>5, <2>1, <3>1, <1>6
    <3>3. IF through < 2 THEN user' = "none" ELSE JwtPasses /\ user' = JwtUser
      <4>1. CASE ran = 0
        BY <4>1, <1>4, <1>5, <1>6, <1>7, <3>1
      <4>2. CASE ran = 1
        BY <4>2, <1>4, <1>6, <1>7, <2>4, <3>1
      <4>3. CASE ran >= 2
        BY <4>3, <1>5, <1>7, <3>1, <1>6
      <4> QED
        BY <4>1, <4>2, <4>3, <1>6
    <3>4. ASSUME NEW k \in 1 .. through, all[k] = "admin"
          PROVE  user' = "admin"
      <4>1. CASE k = through
        BY <4>1, <3>1, <3>4, <1>6, <1>7, <2>5
      <4>2. CASE k \in 1 .. ran
        <5>1. user = "admin"
          BY <4>2, <3>4, <1>5
        <5>2. ran >= 2
          BY <5>1, <1>5
        <5> QED
          BY <5>1, <5>2, <1>5, <1>7
      <4> QED
        BY <4>1, <4>2, <3>1, <1>6
    <3>5. /\ through >= 0
          /\ "admin" \in {all[k] : k \in 1 .. through} => user' = "admin"
      BY <3>1, <3>4
    <3> HIDE DEF through
    <3>6. /\ through >= 0
          /\ \A k \in DOMAIN todo' : todo'[k] = all[through + k]
          /\ IF through < 2 THEN user' = "none" ELSE JwtPasses' /\ user' = JwtUser'
          /\ "admin" \in {all[k] : k \in 1 .. through} => user' = "admin"
      BY <2>2, <3>2, <3>3, <3>5
    <3>7. all' = all
      BY <1>1 DEF all, gs
    <3> QED
      BY <3>6, <3>7, Zenon DEF GuardsInOrder, through, all, gs
  <2>9. phase' = "guards" /\ RouteFound'
    BY <1>1, <1>2, <1>7 DEF RouteFound
  <2> QED
    BY <2>7, <2>8, <2>9 DEF GatewayInv
<1>8. CASE /\ \E refusal \in GuardRefuses(g) : Reply(refusal)
           /\ todo' = <<>>
           /\ UNCHANGED user
  <2>1. phase' = "answered" /\ status' \in Statuses
    BY <1>8 DEF Reply, GuardRefuses, Statuses
  <2>2. GatewayTypeOK'
    BY <1>1, <1>8, <2>1 DEF GatewayInv, GatewayTypeOK
  <2> QED
    BY <1>1, <1>2, <2>1, <2>2 DEF GatewayInv, RouteFound, GuardsInOrder
<1> QED
  BY <1>7, <1>8, Zenon DEF RunGuard

\* All guards have passed: the caller is entitled to what the handler will be given.
LEMMA GuardsDoneKeeps ==
  ASSUME GatewayInv, GuardsDone
  PROVE  GatewayInv'
<1> DEFINE r == Routes[matched]
           all == <<"throttle", "jwt">> \o r.guards
<1>1. /\ phase = "guards" /\ todo = <<>> /\ phase' = "pipes"
      /\ UNCHANGED <<asked, request, matched, todo, user, status>>
  BY DEF GuardsDone
<1>2. matched \in DOMAIN Routes /\ asked \in DOMAIN Routes /\ matched = asked
  BY <1>1 DEF GatewayInv, RouteFound
<1>3. r.guards \in Seq(Guards) /\ WellGuarded(r)
  BY <1>2, GuardsOfRoute, WholeTable DEF AllGuarded
<1>4. Len(all) = Len(r.guards) + 2 /\ Len(r.guards) \in Nat
      /\ \A k \in DOMAIN r.guards : all[k + 2] = r.guards[k]
  BY <1>3, GlobalGuards
<1>5. /\ JwtPasses /\ user = JwtUser
      /\ "admin" \in {all[k] : k \in 1 .. Len(all)} => user = "admin"
  <2>1. Len(todo) = 0
    BY <1>1
  <2>2. LET ran == Len(all) - Len(todo)
        IN /\ IF ran < 2 THEN user = "none" ELSE JwtPasses /\ user = JwtUser
           /\ "admin" \in {all[k] : k \in 1 .. ran} => user = "admin"
    BY <1>1, Zenon DEF GatewayInv, GuardsInOrder
  <2> HIDE DEF all
  <2>3. Len(all) - Len(todo) = Len(all)
    BY <2>1, <1>4
  <2> QED
    BY <2>2, <2>3, <1>4
<1>6. Entitled
  <2>1. CASE r.subject = "all"
    <3>1. PICK k \in DOMAIN r.guards : r.guards[k] = "admin"
      BY <2>1, <1>3, Zenon DEF WellGuarded
    <3>2. user = "admin"
      <4> DEFINE n == k + 2
      <4>1. n \in 1 .. Len(all) /\ all[n] = "admin"
        BY <3>1, <1>3, <1>4
      <4> HIDE DEF n, all
      <4> QED
        BY <4>1, <1>5
    <3>3. request.token = "admin"
      BY <3>2, <1>5 DEF JwtUser
    <3> QED
      BY <2>1, <3>2, <3>3 DEF Entitled
  <2>2. CASE r.subject = "self"
    <3>1. r.public = FALSE
      BY <2>2, <1>3, Zenon DEF WellGuarded
    <3>2. user \in {"user", "admin"}
      BY <3>1, <1>5 DEF JwtUser, JwtPasses
    <3> QED
      BY <2>2, <3>2 DEF Entitled
  <2> QED
    BY <2>1, <2>2 DEF Entitled
<1>7. Entitled'
  BY <1>1, <1>6 DEF Entitled
<1> QED
  BY <1>1, <1>2, <1>7 DEF GatewayInv, GatewayTypeOK, RouteFound, GuardsInOrder

\* Every step keeps GatewayInv.
LEMMA GatewayStepInv == GatewayInv /\ [GatewayNext]_gatewayVars => GatewayInv'
<1> SUFFICES ASSUME GatewayInv, [GatewayNext]_gatewayVars
             PROVE  GatewayInv'
  OBVIOUS
<1> USE DEF GatewayInv, GatewayTypeOK, RouteFound, GuardsInOrder
<1>1. CASE ReceiveRequest
  BY <1>1, ReceiveKeeps
<1>2. CASE RunGuard
  BY <1>2, RunGuardKeeps
<1>3. CASE GuardsDone
  BY <1>3, GuardsDoneKeeps
<1>4. CASE RunPipes
  <2>1. /\ phase = "pipes" /\ UNCHANGED <<asked, request, matched, todo, user>>
        /\ \/ phase' = "handler" /\ status' = status
           \/ phase' = "answered" /\ status' = 400
    BY <1>4 DEF RunPipes, Reply
  <2>2. Entitled' = Entitled
    BY <2>1 DEF Entitled
  <2> QED
    BY <2>1, <2>2 DEF Statuses
<1>5. CASE RunHandler
  <2>1. /\ phase = "handler" /\ UNCHANGED <<asked, request, matched, todo, user>>
        /\ phase' = "answered" /\ status' \in Statuses
    BY <1>5 DEF RunHandler, Reply, Statuses
  <2> QED
    BY <2>1
<1>6. CASE NextRequest
  BY <1>6, WholeTable DEF NextRequest, NoCall
<1>7. CASE UNCHANGED gatewayVars
  <2>1. Entitled' = Entitled /\ JwtPasses' = JwtPasses /\ JwtUser' = JwtUser
    BY <1>7 DEF gatewayVars, Entitled, JwtPasses, JwtUser
  <2> QED
    BY <1>7, <2>1 DEF gatewayVars
<1> QED
  BY <1>1, <1>2, <1>3, <1>4, <1>5, <1>6, <1>7 DEF GatewayNext

\* What the guards have done is always what their route declares.
THEOREM GatewayInvariant == GatewaySpec => []GatewayInv
BY GatewayInitInv, GatewayStepInv, PTL DEF GatewaySpec

\* The table of routes has no route that takes the requests of a later one: whatever
\* a client wants is what runs.
THEOREM RightRoutes == GatewaySpec => []RightOperationRuns
<1>1. GatewayInv => RightOperationRuns
  BY DEF GatewayInv, RouteFound, RightOperationRuns
<1> QED
  BY <1>1, GatewayInvariant, PTL

\* Every handler runs for a caller that is entitled to the data it is given.
THEOREM CallersEntitled == GatewaySpec => []CallerIsEntitled
<1>1. GatewayInv => CallerIsEntitled
  BY DEF GatewayInv, CallerIsEntitled
<1> QED
  BY <1>1, GatewayInvariant, PTL

-----------------------------------------------------------------------------
(* Services.  A step of the composition is a step of one component, and the  *)
(* lemmas of all components hold side by side.                               *)

\* A step of all is a step of each or leaves it alone.
LEMMA StepOfEach ==
  ASSUME [Next]_servicesVars
  PROVE  /\ [OtpNext]_otpVars /\ [TokensNext]_tokenVars /\ [AccountsNext]_accountVars
         /\ [LimitNext]_limitVars /\ [GatewayNext]_gatewayVars
         /\ [StorageNext]_storageVars /\ [DedupeNext]_dedupeVars
<1>1. CASE Next
  BY <1>1, Zenon DEF Next, Only
<1>2. CASE UNCHANGED servicesVars
  BY <1>2, Zenon DEF servicesVars
<1> QED
  BY <1>1, <1>2

\* Side by side, the components keep their inductive invariants, and with them every
\* safety property of theirs.
THEOREM ServicesCorrect == Spec => []ServicesInv
<1>1. Init => ServicesInv
  BY OtpInitInv, TokensInitInv, LimitInitInv, SignupInitInv, GatewayInitInv,
     StorageInitInv, DedupeInitInv DEF Init, ServicesInv
<1>2. ServicesInv /\ [Next]_servicesVars => ServicesInv'
  BY StepOfEach, OtpStepInv, TokensStepInv, LimitStepInv, SignupStepInv, GatewayStepInv,
     StorageStepInv, DedupeStepInv DEF ServicesInv
<1> QED
  BY <1>1, <1>2, PTL DEF Spec

=============================================================================
