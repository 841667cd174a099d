--------------------------- MODULE ListCache_proofs ---------------------------
(***************************************************************************)
(* Theorems of ListCache for every set of files and requests and every      *)
(* filter: ListInv is inductive, and the cache implements RegularList.      *)
(***************************************************************************)
EXTENDS ListCache, TLAPS

\* At the start nothing is stored and nothing has changed.
LEMMA InitInv == Init => ListInv
<1> SUFFICES ASSUME Init
             PROVE  ListInv
    OBVIOUS
<1> USE BoundsAssumption, FailuresAssumption DEF Init
<1>1. HealthTypes
  <2>1. healthy \in BOOLEAN
    BY Zenon
  <2>2. healthy \/ Failures
    BY Zenon
  <2>3. failures \in 0..MaxFailures /\ failures # MaxFailures
    OBVIOUS
  <2>4. QED
    BY <2>1, <2>2, <2>3, Zenon DEF HealthTypes
<1>2. LibraryTypes /\ RedisTypes /\ ListTypes
  BY DEF LibraryTypes, RedisTypes, ListTypes, Kinds, Entry
<1>3. QED
  BY <1>1, <1>2
  DEF ListInv, TypeOK, AnswersRight, NotAhead, CurrentRight, ReadersRight, SureIsSettled

\* The count of failures and isHealthy go together, whatever Redis does.
LEMMA HealthKept ==
  ASSUME HealthTypes,
         (Failures /\ CountFailure) \/ RedisFails \/ RedisWorks \/ UNCHANGED healthVars
  PROVE  HealthTypes'
<1> USE BoundsAssumption DEF HealthTypes
<1>1. CASE Failures /\ CountFailure
  <2>1. healthy' \in BOOLEAN
    BY <1>1, Zenon DEF CountFailure
  <2>2. failures' \in 0..MaxFailures
    BY <1>1 DEF CountFailure
  <2>3. failures' = MaxFailures => ~(failures' < MaxFailures)
    BY <2>2
  <2>4. ~(failures' < MaxFailures) => ~healthy'
    BY <1>1, Zenon DEF CountFailure
  <2>5. QED
    BY <1>1, <2>1, <2>2, <2>3, <2>4, Zenon
<1>2. CASE UNCHANGED healthVars
  BY <1>2 DEF healthVars
<1>3. QED
  BY <1>1, <1>2 DEF RedisFails, RedisWorks

\* Every step preserves it.
LEMMA StepInv == ListInv /\ [Next]_vars => ListInv'
<1> SUFFICES ASSUME ListInv, [Next]_vars
             PROVE  ListInv'
    OBVIOUS
<1> USE BoundsAssumption, FailuresAssumption, FiltersAssumption
    DEF ListInv, TypeOK, LibraryTypes, RedisTypes, HealthTypes, ListTypes,
        AnswersRight, NotAhead, CurrentRight, ReadersRight, SureIsSettled, Busy, Kinds,
        Keys, Entry, libraryVars, redisVars, healthVars, listVars, Go, Leave, Commit,
        CountFailure, RedisFails, RedisWorks
<1>1. ASSUME NEW r \in Slots, Change(r)
      PROVE  ListInv'
  <2> USE <1>1 DEF Change
  <2>1. TypeOK'
    <3>1. LibraryTypes'
      OBVIOUS
    <3>2. RedisTypes'
      OBVIOUS
    <3>3. HealthTypes'
      BY HealthKept
    <3>4. ListTypes'
      OBVIOUS
    <3>5. QED
      BY <3>1, <3>2, <3>3, <3>4
  <2>2. AnswersRight'
    OBVIOUS
  <2>3. NotAhead'
    OBVIOUS
  <2>4. CurrentRight'
    OBVIOUS
  <2>5. ReadersRight'
    OBVIOUS
  <2>6. SureIsSettled'
    OBVIOUS
  <2>7. QED
    BY <2>1, <2>2, <2>3, <2>4, <2>5, <2>6
<1>2. ASSUME NEW g \in Files, SaveToAccount(g)
      PROVE  ListInv'
  BY <1>2, HealthKept DEF SaveToAccount
<1>3. ASSUME NEW r \in Slots, IncrementVersion(r)
      PROVE  ListInv'
  BY <1>3, HealthKept DEF IncrementVersion
<1>4. ASSUME NEW r \in Slots, IncrementLost(r)
      PROVE  ListInv'
  BY <1>4, HealthKept DEF IncrementLost
<1>5. ASSUME NEW r \in Slots, NEW q \in Filters, ListVersion(r, q)
      PROVE  ListInv'
  BY <1>5, HealthKept DEF ListVersion
<1>6. ASSUME NEW r \in Slots, ListHit(r)
      PROVE  ListInv'
  BY <1>6, HealthKept DEF ListHit
<1>7. ASSUME NEW r \in Slots, ListMiss(r)
      PROVE  ListInv'
  BY <1>7, HealthKept DEF ListMiss
<1>8. ASSUME NEW r \in Slots, ListRefetch(r)
      PROVE  ListInv'
  <2> USE <1>8 DEF ListRefetch
  <2>1. TypeOK'
    <3>1. LibraryTypes'
      OBVIOUS
    <3>2. RedisTypes'
      OBVIOUS
    <3>3. HealthTypes'
      BY HealthKept
    <3>4. ListTypes'
      OBVIOUS
    <3>5. QED
      BY <3>1, <3>2, <3>3, <3>4
  <2>2. AnswersRight'
    <3>1. \A k, q : Matches(k, q) => k # "gone"
      BY DEF Matches
    <3>2. QED
      BY <3>1
  <2>3. NotAhead'
    OBVIOUS
  <2>4. CurrentRight'
    OBVIOUS
  <2>5. ReadersRight'
    OBVIOUS
  <2>6. SureIsSettled'
    OBVIOUS
  <2>7. QED
    BY <2>1, <2>2, <2>3, <2>4, <2>5, <2>6
<1>9. ASSUME NEW r \in Slots, ListRows(r)
      PROVE  ListInv'
  BY <1>9, HealthKept DEF ListRows, Listed
<1>10. ASSUME NEW r \in Slots, ListSet(r)
      PROVE  ListInv'
  <2> USE <1>10 DEF ListSet, Store, Stored, KeyOf
  <2>1. TypeOK'
    <3>1. LibraryTypes'
      OBVIOUS
    <3>2. RedisTypes'
      OBVIOUS
    <3>3. HealthTypes'
      BY HealthKept
    <3>4. ListTypes'
      OBVIOUS
    <3>5. QED
      BY <3>1, <3>2, <3>3, <3>4
  <2>2. AnswersRight'
    OBVIOUS
  <2>3. NotAhead'
    OBVIOUS
  <2>4. CurrentRight'
    OBVIOUS
  <2>5. ReadersRight'
    OBVIOUS
  <2>6. SureIsSettled'
    OBVIOUS
  <2>7. QED
    BY <2>1, <2>2, <2>3, <2>4, <2>5, <2>6
<1>11. ASSUME NEW r \in Slots, ListReturn(r)
      PROVE  ListInv'
  BY <1>11, HealthKept DEF ListReturn
<1>12. ASSUME NEW r \in Slots, ListAbort(r)
      PROVE  ListInv'
  BY <1>12, HealthKept DEF ListAbort
<1>13. ASSUME NEW k \in Keys, NEW v \in 0..MaxVersion, Expire(k, v)
      PROVE  ListInv'
  BY <1>13, HealthKept DEF Expire
<1>14. ASSUME RedisForgets
      PROVE  ListInv'
  BY <1>14, HealthKept DEF RedisForgets
<1>15. ASSUME ConnectionError
      PROVE  ListInv'
  BY <1>15, HealthKept DEF ConnectionError
<1>16. ASSUME Connected
      PROVE  ListInv'
  BY <1>16, HealthKept DEF Connected
<1>17. ASSUME UNCHANGED vars
      PROVE  ListInv'
  <2> USE <1>17 DEF vars
  <2>1. TypeOK'
    OBVIOUS
  <2>2. AnswersRight' /\ NotAhead'
    OBVIOUS
  <2>3. CurrentRight'
    OBVIOUS
  <2>4. ReadersRight' /\ SureIsSettled'
    OBVIOUS
  <2>5. QED
    BY <2>1, <2>2, <2>3, <2>4
<1> HIDE DEF ListInv
<1>18. QED
  BY <1>1, <1>2, <1>3, <1>4, <1>5, <1>6, <1>7, <1>8, <1>9, <1>10, <1>11,
     <1>12, <1>13, <1>14, <1>15, <1>16, <1>17
  DEF Next, SlotStep, ListGet

\* The inductive invariant holds in every state the cache can reach.
THEOREM ListInvariant == Spec => []ListInv
BY InitInv, StepInv, PTL DEF Spec

\* A list is right about all files that did not change meanwhile and whose changes
\* before it had been announced, for any number of requests and any failures.
THEOREM AnswersAreRight == Spec => []AnswersRight
<1>1. ListInv => AnswersRight
  BY DEF ListInv
<1>2. QED
  BY <1>1, ListInvariant, PTL

-----------------------------------------------------------------------------
(* The refinement *)

\* The initial states of the cache are initial states of RegularList.
LEMMA InitRefines == Init => Regular!Init
<1> SUFFICES ASSUME Init
             PROVE  Regular!Init
    OBVIOUS
<1> QED
  BY DEF Init, Regular!Init, Busy, Kinds

\* A step of the cache is a step of RegularList or none at all.
LEMMA StepRefines ==
  ListInv /\ ListInv' /\ [Next]_vars => [Regular!Next]_(Regular!vars)
<1> SUFFICES ASSUME ListInv, ListInv', [Next]_vars
             PROVE  [Regular!Next]_(Regular!vars)
    OBVIOUS
<1> USE FailuresAssumption
    DEF ListInv, TypeOK, LibraryTypes, RedisTypes, ListTypes, AnswersRight,
        SureIsSettled, Regular!vars, Busy, libraryVars, redisVars, listVars, Go,
        Leave, Commit
<1> DEFINE answers == [r \in Slots |-> IF pc[r] = "urls" THEN snap[r] ELSE {}]
<1>1. ASSUME NEW r \in Slots, Change(r)
      PROVE  Regular!Change
  BY <1>1 DEF Change, Regular!Change
<1>2. ASSUME NEW g \in Files, SaveToAccount(g)
      PROVE  Regular!Change
  BY <1>2 DEF SaveToAccount, Regular!Change
<1>3. ASSUME NEW r \in Slots, IncrementVersion(r) \/ IncrementLost(r)
      PROVE  Regular!Settle
  BY <1>3 DEF IncrementVersion, IncrementLost, Regular!Settle
<1>4. ASSUME NEW r \in Slots, NEW q \in Filters, ListVersion(r, q)
      PROVE  Regular!Ask(r)
  <2> USE <1>4 DEF ListVersion
  <2>1. answers' = [answers EXCEPT ![r] = {}]
    OBVIOUS
  <2>2. Busy' = Busy /\ rows' = rows
    OBVIOUS
  <2>3. \/ sure' = [sure EXCEPT ![r] = Files \ Busy]
        \/ Failures /\ sure' = [sure EXCEPT ![r] = {}]
    BY DEF RedisWorks, RedisFails, HealthTypes
  <2>4. QED
    BY <2>1, <2>2, <2>3 DEF Regular!Ask
<1>5. ASSUME NEW r \in Slots, ListGet(r) \/ ListRows(r)
      PROVE  UNCHANGED Regular!vars
  <2> USE <1>5 DEF ListGet, ListHit, ListMiss, ListRows
  <2>1. answers' = answers
    OBVIOUS
  <2>2. Busy' = Busy /\ UNCHANGED <<rows, asked, sure>>
    <3>1. UNCHANGED <<changed, doubtful, overtaken, rows, asked, sure>>
      OBVIOUS
    <3>2. QED
      BY <3>1
  <2>3. QED
    BY <2>1, <2>2
<1>6. ASSUME NEW r \in Slots, ListRefetch(r) \/ ListSet(r)
      PROVE  Regular!Answer(r)
  <2> USE <1>6 DEF ListRefetch, ListSet
  <2>1. answers' = [answers EXCEPT ![r] = snap'[r]]
    OBVIOUS
  <2>2. Busy' = Busy /\ UNCHANGED <<rows, asked, sure>>
    <3>1. UNCHANGED <<changed, doubtful, overtaken, rows, asked, sure>>
      OBVIOUS
    <3>2. QED
      BY <3>1
  <2>3. /\ snap'[r] \in SUBSET Files
        /\ \A f \in sure[r] : f \in snap'[r] <=> Matches(rows[f], asked[r])
    OBVIOUS
  <2>4. QED
    BY <2>1, <2>2, <2>3 DEF Regular!Answer
<1>7. ASSUME NEW r \in Slots, ListReturn(r) \/ ListAbort(r)
      PROVE  Regular!Forget(r)
  <2> USE <1>7 DEF ListReturn, ListAbort
  <2>1. answers' = [answers EXCEPT ![r] = {}]
    OBVIOUS
  <2>2. Busy' = Busy /\ UNCHANGED rows
    <3>1. UNCHANGED <<changed, doubtful, overtaken, rows>>
      OBVIOUS
    <3>2. QED
      BY <3>1
  <2>3. QED
    BY <2>1, <2>2 DEF Regular!Forget
<1>8. ASSUME NEW k \in Keys, NEW v \in 0..MaxVersion, Expire(k, v)
      PROVE  UNCHANGED Regular!vars
  BY <1>8 DEF Expire
<1>9. ASSUME RedisForgets
      PROVE  Regular!LoseTrack \/ UNCHANGED Regular!vars
  BY <1>9 DEF RedisForgets, Regular!LoseTrack
<1>10. ASSUME ConnectionError \/ Connected
       PROVE  UNCHANGED Regular!vars
  <2> USE <1>10 DEF ConnectionError, Connected
  <2>1. answers' = answers
    OBVIOUS
  <2>2. Busy' = Busy /\ UNCHANGED <<rows, asked, sure>>
    <3>1. UNCHANGED <<changed, doubtful, overtaken, rows, asked, sure>>
      OBVIOUS
    <3>2. QED
      BY <3>1
  <2>3. QED
    BY <2>1, <2>2
<1>11. ASSUME UNCHANGED vars
       PROVE  UNCHANGED Regular!vars
  BY <1>11 DEF vars
<1> HIDE DEF ListInv, Regular!vars
<1>12. QED
  BY <1>1, <1>2, <1>3, <1>4, <1>5, <1>6, <1>7, <1>8, <1>9, <1>10, <1>11
  DEF Next, SlotStep, Regular!Next

\* The cache of lists, with its versions, failures and all, gives no other answers
\* than a library whose lists are regular.
THEOREM ListsAreRegular == Spec => KeepsRegularList
<1>1. Spec => Regular!Spec
  BY InitRefines, StepRefines, ListInvariant, PTL DEF Spec, Regular!Spec
<1>2. QED
  BY <1>1 DEF KeepsRegularList

=============================================================================
