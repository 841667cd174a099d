----------------------------- MODULE Storage_proofs -----------------------------
(***************************************************************************)
(* Theorems of StorageClient and Dedupe, for any page size and any number   *)
(* of calls, parts, names and versions.  Both read a bucket page by page    *)
(* while it changes; the lemmas about counting in a finite set of numbers   *)
(* say what a page is.                                                      *)
(***************************************************************************)
EXTENDS StorageClient, Dedupe, FiniteSetTheorems, SequenceTheorems, TLAPS

\* How many elements of S lie below p.
Rank(S, p) == Cardinality({q \in S : q < p})

\* Ranks are numbers below the size of the set, and grow with the elements.
LEMMA RankGrows ==
  ASSUME NEW S \in SUBSET Nat, IsFiniteSet(S)
  PROVE  /\ Cardinality(S) \in Nat
         /\ \A p \in Nat : Rank(S, p) \in Nat
         /\ \A p \in S : Rank(S, p) \in 0 .. Cardinality(S) - 1
         /\ \A p \in S, q \in Nat : p < q => Rank(S, p) < Rank(S, q)
         /\ \A p, q \in S : Rank(S, p) = Rank(S, q) => p = q
<1> DEFINE Below(p) == {q \in S : q < p}
<1>1. Cardinality(S) \in Nat
  BY FS_CardinalityType
<1>2. \A p \in Nat : IsFiniteSet(Below(p)) /\ Cardinality(Below(p)) \in Nat
  <2>1. TAKE p \in Nat
  <2>2. IsFiniteSet(Below(p))
    BY FS_Subset
  <2>3. QED
    BY <2>2, FS_CardinalityType
<1>3. ASSUME NEW p \in S
      PROVE  Rank(S, p) \in 0 .. Cardinality(S) - 1
  <2>1. Below(p) \in SUBSET S /\ Below(p) # S
    BY <1>3
  <2>2. Cardinality(Below(p)) <= Cardinality(S) /\ Cardinality(Below(p)) # Cardinality(S)
    BY <2>1, FS_Subset, Zenon
  <2>3. QED
    BY <1>1, <1>2, <2>2 DEF Rank
<1>4. ASSUME NEW p \in S, NEW q \in Nat, p < q
      PROVE  Rank(S, p) < Rank(S, q)
  <2>1. Below(p) \in SUBSET Below(q) /\ Below(p) # Below(q)
    <3>1. p \in Below(q) /\ p \notin Below(p)
      BY <1>4
    <3>2. ASSUME NEW x \in Below(p)
          PROVE  x \in Below(q)
      BY <1>4
    <3>3. QED
      BY <3>1, <3>2
  <2>2. IsFiniteSet(Below(q))
    BY <1>2
  <2>3. Cardinality(Below(p)) <= Cardinality(Below(q))
        /\ Cardinality(Below(p)) # Cardinality(Below(q))
    BY <2>1, <2>2, FS_Subset, Zenon
  <2>4. QED
    BY <1>2, <2>3 DEF Rank
<1>5. \A p \in Nat : Rank(S, p) \in Nat
  BY <1>2 DEF Rank
<1>6. \A p, q \in S : Rank(S, p) = Rank(S, q) => p = q
  <2>1. SUFFICES ASSUME NEW p \in S, NEW q \in S, Rank(S, p) = Rank(S, q), p # q
                 PROVE  FALSE
    OBVIOUS
  <2>2. p < q \/ q < p
    BY <2>1
  <2>3. QED
    BY <1>4, <1>5, <2>1, <2>2
<1>7. QED
  BY <1>1, <1>3, <1>4, <1>5, <1>6

\* Every rank is somebody's: as many elements, as many ranks.
LEMMA RankTaken ==
  ASSUME NEW S \in SUBSET Nat, IsFiniteSet(S), NEW k \in 0 .. Cardinality(S) - 1
  PROVE  \E p \in S : Rank(S, p) = k
<1> DEFINE n == Cardinality(S)
           T == 0 .. n - 1
           f == [p \in S |-> Rank(S, p)]
<1>1. n \in Nat
  BY FS_CardinalityType
<1>2. IsFiniteSet(T) /\ Cardinality(T) = n
  <2>1. n - 1 \in Int
    BY <1>1
  <2>2. IsFiniteSet(0 .. n - 1)
        /\ Cardinality(0 .. n - 1) = IF 0 > n - 1 THEN 0 ELSE n - 1 - 0 + 1
    BY <2>1, FS_Interval
  <2>3. QED
    BY <1>1, <2>2
<1>3. f \in Injection(S, T)
  <2>1. f \in [S -> T]
    BY RankGrows
  <2>2. \A p, q \in S : f[p] = f[q] => p = q
    BY RankGrows
  <2>3. QED
    BY <2>1, <2>2 DEF Injection, IsInjective
<1>4. f \in Surjection(S, T)
  BY <1>2, <1>3, FS_Injection, Zenon
<1>5. \E p \in S : f[p] = k
  BY <1>4 DEF Surjection
<1>6. QED
  BY <1>5

\* A set of numbers that is finite and not empty has a least and a greatest one.
LEMMA Extremes ==
  ASSUME NEW S \in SUBSET Nat, IsFiniteSet(S), S # {}
  PROVE  /\ \E p \in S : \A q \in S : p <= q
         /\ \E p \in S : \A q \in S : q <= p
<1> DEFINE n == Cardinality(S)
<1>1. n \in Nat \ {0}
  BY FS_CardinalityType, FS_EmptySet
<1>2. PICK a \in S : Rank(S, a) = 0
  BY <1>1, RankTaken
<1>3. PICK b \in S : Rank(S, b) = n - 1
  BY <1>1, RankTaken
<1>4. \A q \in S : a <= q
  <2>1. SUFFICES ASSUME NEW q \in S, q < a
                 PROVE  FALSE
    OBVIOUS
  <2>2. Rank(S, q) < Rank(S, a) /\ Rank(S, q) \in Nat
    BY <2>1, RankGrows
  <2>3. QED
    BY <1>2, <2>2
<1>5. \A q \in S : q <= b
  <2>1. SUFFICES ASSUME NEW q \in S, b < q
                 PROVE  FALSE
    OBVIOUS
  <2>2. Rank(S, b) < Rank(S, q) /\ Rank(S, q) \in 0 .. n - 1
    BY <2>1, RankGrows
  <2>3. QED
    BY <1>1, <1>3, <2>2
<1>6. QED
  BY <1>4, <1>5

\* InOrder lists a finite set of numbers, in order and each once.
LEMMA InOrderLists ==
  ASSUME NEW S \in SUBSET Nat, IsFiniteSet(S)
  PROVE  /\ Cardinality(S) \in Nat
         /\ InOrder(S) \in Seq(S) /\ Len(InOrder(S)) = Cardinality(S)
         /\ \A i \in 1 .. Cardinality(S) : Rank(S, InOrder(S)[i]) = i - 1
         /\ \A i, j \in 1 .. Cardinality(S) : i < j => InOrder(S)[i] < InOrder(S)[j]
         /\ \A p \in S : \E i \in 1 .. Cardinality(S) : InOrder(S)[i] = p
<1> DEFINE n == Cardinality(S)
<1>1. n \in Nat
  BY FS_CardinalityType
<1>2. \A i \in 1 .. n : InOrder(S)[i] \in S /\ Rank(S, InOrder(S)[i]) = i - 1
  <2>1. TAKE i \in 1 .. n
  <2>2. \E p \in S : Rank(S, p) = i - 1
    BY <1>1, <2>1, RankTaken
  <2>3. InOrder(S)[i] = CHOOSE p \in S : Rank(S, p) = i - 1
    BY <2>1 DEF InOrder, Rank
  <2>4. QED
    BY <2>2, <2>3
<1>3. InOrder(S) \in Seq(S) /\ Len(InOrder(S)) = n
  <2>1. InOrder(S) \in [1 .. n -> S]
    BY <1>2 DEF InOrder
  <2>2. QED
    BY <1>1, <2>1
<1>4. ASSUME NEW i \in 1 .. n, NEW j \in 1 .. n, i < j
      PROVE  InOrder(S)[i] < InOrder(S)[j]
  <2>1. PICK p \in S : p = InOrder(S)[i] /\ Rank(S, p) = i - 1
    BY <1>2
  <2>2. PICK q \in S : q = InOrder(S)[j] /\ Rank(S, q) = j - 1
    BY <1>2
  <2>3. p # q /\ ~(q < p)
    <3>1. q < p => Rank(S, q) < Rank(S, p)
      BY RankGrows
    <3>2. QED
      BY <1>1, <1>4, <2>1, <2>2, <3>1
  <2>4. p < q
    BY <2>3
  <2>5. QED
    BY <2>1, <2>2, <2>4
<1>5. ASSUME NEW p \in S
      PROVE  \E i \in 1 .. n : InOrder(S)[i] = p
  <2>1. Rank(S, p) \in 0 .. n - 1
    BY RankGrows
  <2>2. PICK i \in 1 .. n : Rank(S, p) = i - 1
    BY <1>1, <2>1
  <2>3. PICK q \in S : q = InOrder(S)[i] /\ Rank(S, q) = i - 1
    BY <1>2
  <2>4. p = q
    BY <2>2, <2>3, RankGrows
  <2>5. QED
    BY <2>3, <2>4
<1>6. QED
  BY <1>1, <1>2, <1>3, <1>4, <1>5

-----------------------------------------------------------------------------
(* The client: uploads and listings.                                         *)

\* A page is made of the least of the parts that are left, and at its end the
\* next part number is the least of those it does not have.
LEMMA PageSplits ==
  ASSUME parts \subseteq 1 .. MaxParts, NEW from \in 0 .. MaxParts
  PROVE  /\ Page(from) \in SUBSET parts /\ IsFiniteSet(Page(from))
         /\ \A p \in Page(from) : p >= from
         /\ \A p \in Page(from), q \in parts : from <= q /\ q < p => q \in Page(from)
         /\ LET rest == {p \in parts : p >= from} \ Page(from) IN
              rest # {} => \E p \in rest : \A q \in rest : p <= q
<1> DEFINE A == {p \in parts : p >= from}
           rest == A \ Page(from)
<1>1. parts \in SUBSET Nat /\ IsFiniteSet(parts)
  <2>1. IsFiniteSet(1 .. MaxParts)
    BY MaxPartsAssumption, FS_Interval
  <2>2. parts \in SUBSET (1 .. MaxParts)
    OBVIOUS
  <2>3. IsFiniteSet(parts)
    BY <2>1, <2>2, FS_Subset
  <2>4. QED
    BY <2>2, <2>3, MaxPartsAssumption
<1>2. A \in SUBSET Nat /\ IsFiniteSet(A)
  <2>1. A \in SUBSET parts
    OBVIOUS
  <2>2. QED
    BY <1>1, <2>1, FS_Subset
<1>3. \A p \in parts : {q \in parts : from <= q /\ q < p} = {q \in A : q < p}
  BY <1>1
<1>4. Page(from) = {p \in A : Rank(A, p) < PageSize}
  BY <1>3 DEF Page, Rank
<1>5. Page(from) \in SUBSET parts /\ (\A p \in Page(from) : p >= from)
  BY DEF Page
<1>6. IsFiniteSet(Page(from)) /\ IsFiniteSet(rest) /\ rest \in SUBSET Nat
  <2>1. Page(from) \in SUBSET A /\ rest \in SUBSET A
    BY <1>5
  <2>2. QED
    BY <1>2, <2>1, FS_Subset
<1>7. ASSUME NEW p \in Page(from), NEW q \in parts, from <= q, q < p
      PROVE  q \in Page(from)
  <2>1. p \in A /\ q \in A /\ Rank(A, p) < PageSize
    BY <1>1, <1>4, <1>7
  <2>2. Rank(A, q) < Rank(A, p) /\ Rank(A, q) \in Nat /\ Rank(A, p) \in Nat
    BY <1>2, <1>7, <2>1, RankGrows
  <2>3. QED
    BY <1>4, <2>1, <2>2, PageSizeAssumption
<1>8. rest # {} => \E p \in rest : \A q \in rest : p <= q
  BY <1>6, Extremes
<1>9. QED
  BY <1>5, <1>6, <1>7, <1>8

\* A call that begins, or begins again, has nothing.
LEMMA BeginHasNothing ==
  ASSUME parts \subseteq 1 .. MaxParts, NEW op \in CallOps, NEW k \in 0 .. MaxRetries
  PROVE  /\ Begin(op, k) \in Calls
         /\ Begin(op, k).op = op /\ Begin(op, k).at = "send"
         /\ Begin(op, k).from = 0 /\ Begin(op, k).got = <<>>
         /\ Begin(op, k).saw \subseteq parts
BY MaxPartsAssumption DEF Begin, Calls, CallSteps

\* Replacing the state of one call keeps types and leaves the others alone.
LEMMA PutOne ==
  ASSUME call \in [Callers -> Calls \cup {NoStorageCall}], NEW c \in Callers,
         NEW r \in Calls \cup {NoStorageCall}, Put(c, r)
  PROVE  /\ call' \in [Callers -> Calls \cup {NoStorageCall}]
         /\ call'[c] = r
         /\ \A d \in Callers : d # c => call'[d] = call[d]
BY DEF Put

\* A step of a call that is no upload, and becomes none.
LEMMA NoUploadStep ==
  ASSUME UploadOnce, NEW c \in Callers,
         call'[c].op = "upload" => call[c].op = "upload",
         \A d \in Callers : d # c => call'[d] = call[d],
         UNCHANGED <<versions, started, doubled>>
  PROVE  UploadOnce'
BY DEF UploadOnce, RetryStoresOnce

\* A step of a call that is not between two pages of a listing afterwards.
LEMMA NoListingStep ==
  ASSUME ListingSoFar, ListingExact, NEW c \in Callers,
         ~Stands(c, "list", "send")', ~Stands(c, "list", "done")',
         \A d \in Callers : d # c => call'[d] = call[d],
         UNCHANGED parts
  PROVE  ListingSoFar' /\ ListingExact'
BY DEF ListingSoFar, ListingExact, Stands

\* A listing that begins has nothing of the parts below the first part number.
LEMMA CallBegins ==
  ASSUME ListingSoFar, ListingExact, parts \subseteq 1 .. MaxParts, NEW c \in Callers,
         NEW op \in CallOps, NEW k \in 0 .. MaxRetries, call'[c] = Begin(op, k),
         \A d \in Callers : d # c => call'[d] = call[d],
         UNCHANGED parts
  PROVE  ListingSoFar' /\ ListingExact'
<1>1. /\ call'[c].at = "send" /\ call'[c].from = 0 /\ call'[c].got = <<>>
      /\ call'[c].saw \subseteq parts
  BY BeginHasNothing
<1>2. ASSUME NEW p \in call'[c].saw
      PROVE  ~(p < call'[c].from)
  <2>1. p \in 1 .. MaxParts /\ call'[c].from = 0
    BY <1>1
  <2>2. QED
    BY <2>1, MaxPartsAssumption
<1>3. ListingSoFar'
  BY <1>1, <1>2 DEF ListingSoFar, Stands
<1>4. ListingExact'
  BY <1>1 DEF ListingExact, Stands
<1>5. QED
  BY <1>3, <1>4

\* A page goes on where the listing was.
LEMMA PageAppended ==
  ASSUME parts \subseteq 1 .. MaxParts, NEW from \in 0 .. MaxParts,
         NEW got \in Seq(1 .. MaxParts),
         \A i, j \in DOMAIN got : i < j => got[i] < got[j],
         \A i \in DOMAIN got : got[i] < from /\ got[i] \in parts
  PROVE  LET all == got \o InOrder(Page(from)) IN
         /\ all \in Seq(1 .. MaxParts)
         /\ \A i, j \in DOMAIN all : i < j => all[i] < all[j]
         /\ \A i \in DOMAIN all : all[i] \in parts /\ (all[i] < from \/ all[i] \in Page(from))
         /\ \A i \in DOMAIN got : \E j \in DOMAIN all : all[j] = got[i]
         /\ \A p \in Page(from) : \E j \in DOMAIN all : all[j] = p
<1> DEFINE page == Page(from)
           s == InOrder(page)
           m == Len(got)
           n == Cardinality(page)
           all == got \o s
<1>1. /\ page \in SUBSET parts /\ IsFiniteSet(page) /\ page \in SUBSET Nat
      /\ \A p \in page : p >= from
  <2>1. /\ page \in SUBSET parts /\ IsFiniteSet(page)
        /\ \A p \in page : p >= from
    BY PageSplits
  <2>2. 1 .. MaxParts \in SUBSET Nat
    BY MaxPartsAssumption
  <2>3. page \in SUBSET Nat
    BY <2>1, <2>2
  <2>4. QED
    BY <2>1, <2>3
<1>2. /\ n \in Nat /\ s \in Seq(page) /\ Len(s) = n
      /\ \A i, j \in 1 .. n : i < j => s[i] < s[j]
      /\ \A p \in page : \E i \in 1 .. n : s[i] = p
  BY <1>1, InOrderLists
<1> HIDE DEF page, s, n
<1>3. m \in Nat /\ DOMAIN got = 1 .. m /\ \A i \in 1 .. m : got[i] \in 1 .. MaxParts
  <2>1. m \in Nat /\ DOMAIN got = 1 .. m
    BY LenProperties
  <2>2. QED
    BY <2>1, ElementOfSeq
<1>4. \A i \in 1 .. n : s[i] \in page /\ s[i] \in parts /\ s[i] \in 1 .. MaxParts
  <2>1. \A i \in 1 .. n : s[i] \in page
    BY <1>2, ElementOfSeq
  <2>2. QED
    BY <1>1, <2>1
<1>5. s \in Seq(1 .. MaxParts)
  <2>1. page \subseteq 1 .. MaxParts
    BY <1>1
  <2>2. QED
    BY <1>2, <2>1, SeqMonotonic
<1>6. all \in Seq(1 .. MaxParts) /\ Len(all) = m + n /\ DOMAIN all = 1 .. m + n
  <2>1. all \in Seq(1 .. MaxParts) /\ Len(all) = m + n
    BY <1>2, <1>3, <1>5, ConcatProperties
  <2>2. QED
    BY <2>1, LenProperties
<1>7. \A i \in 1 .. m : all[i] = got[i]
  BY <1>2, <1>3, <1>5
<1>8. \A i \in 1 .. n : all[m + i] = s[i]
  BY <1>2, <1>3, <1>5
<1>9. \A i \in 1 .. m + n : i <= m \/ (i - m \in 1 .. n /\ all[i] = s[i - m])
  BY <1>2, <1>3, <1>8
<1> HIDE DEF all, m
<1>10. ASSUME NEW i \in 1 .. m + n, NEW j \in 1 .. m + n, i < j
       PROVE  all[i] < all[j]
  <2>1. CASE j <= m
    BY <1>3, <1>7, <1>10, <2>1
  <2>2. CASE i <= m /\ ~(j <= m)
    <3>1. all[i] \in Nat /\ all[i] < from
      BY <1>3, <1>7, <1>10, <2>2, MaxPartsAssumption
    <3>2. all[j] \in Nat /\ all[j] >= from
      BY <1>1, <1>4, <1>9, <1>10, <2>2, MaxPartsAssumption
    <3>3. QED
      BY <3>1, <3>2, MaxPartsAssumption
  <2>3. CASE ~(i <= m) /\ ~(j <= m)
    BY <1>2, <1>3, <1>9, <1>10, <2>3
  <2>4. QED
    BY <1>3, <1>10, <2>1, <2>2, <2>3
<1>11. ASSUME NEW i \in 1 .. m + n
       PROVE  all[i] \in parts /\ (all[i] < from \/ all[i] \in page)
  <2>1. CASE i <= m
    <3>1. i \in DOMAIN got /\ all[i] = got[i]
      BY <1>2, <1>3, <1>7, <1>11, <2>1
    <3>2. QED
      BY <3>1
  <2>2. CASE ~(i <= m)
    BY <1>4, <1>9, <1>11, <2>2
  <2>3. QED
    BY <2>1, <2>2
<1>12. \A i \in 1 .. m : i \in 1 .. m + n /\ all[i] = got[i]
  BY <1>2, <1>3, <1>7
<1>13. ASSUME NEW p \in page
       PROVE  \E j \in 1 .. m + n : all[j] = p
  <2>1. PICK i \in 1 .. n : s[i] = p
    BY <1>2
  <2>2. m + i \in 1 .. m + n /\ all[m + i] = p
    BY <1>2, <1>3, <1>8, <2>1
  <2>3. QED
    BY <2>2
<1>14. QED
  BY <1>3, <1>6, <1>10, <1>11, <1>12, <1>13 DEF all, page, s

\* A call that ends and changes nothing but the credentials.
LEMMA CallEnds ==
  ASSUME StorageTypeOK, UploadOnce, ListingSoFar, ListingExact, NEW c \in Callers,
         Put(c, NoStorageCall), UNCHANGED bucketVars,
         client' \in {client, "valid"}, fresh' \in BOOLEAN, booting' \in BOOLEAN,
         configured' \in BOOLEAN
  PROVE  StorageInv'
<1>1. /\ call' \in [Callers -> Calls \cup {NoStorageCall}]
      /\ call'[c] = NoStorageCall
      /\ \A d \in Callers : d # c => call'[d] = call[d]
  BY PutOne DEF StorageTypeOK
<1>2. StorageTypeOK'
  BY <1>1 DEF StorageTypeOK, bucketVars
<1>3. UploadOnce'
  BY <1>1, NoUploadStep DEF bucketVars, NoStorageCall
<1>4. ListingSoFar' /\ ListingExact'
  BY <1>1, NoListingStep DEF bucketVars, Stands
<1>5. QED
  BY <1>2, <1>3, <1>4 DEF StorageInv

\* A call that ends, or stands elsewhere afterwards, and changes nothing else.
LEMMA QuietCall ==
  ASSUME StorageTypeOK, UploadOnce, ListingSoFar, ListingExact, NEW c \in Callers,
         call[c] # NoStorageCall, UNCHANGED <<clientVars, bucketVars>>,
         NEW at \in CallSteps \ {"send", "done"},
         Put(c, NoStorageCall) \/ Put(c, [call[c] EXCEPT !.at = at])
  PROVE  StorageInv'
<1>1. CASE Put(c, NoStorageCall)
  BY <1>1, CallEnds DEF clientVars, StorageTypeOK
<1>2. CASE Put(c, [call[c] EXCEPT !.at = at])
  <2>1. /\ [call[c] EXCEPT !.at = at] \in Calls
        /\ [call[c] EXCEPT !.at = at].op = call[c].op
        /\ [call[c] EXCEPT !.at = at].at = at
    BY DEF StorageTypeOK, Calls
  <2>2. /\ call' \in [Callers -> Calls \cup {NoStorageCall}]
        /\ call'[c] = [call[c] EXCEPT !.at = at]
        /\ \A d \in Callers : d # c => call'[d] = call[d]
    BY <1>2, <2>1, PutOne DEF StorageTypeOK
  <2>3. StorageTypeOK'
    BY <2>2 DEF StorageTypeOK, clientVars, bucketVars
  <2>4. UploadOnce'
    BY <2>1, <2>2, NoUploadStep DEF bucketVars
  <2>5. ListingSoFar' /\ ListingExact'
    BY <2>1, <2>2, NoListingStep DEF bucketVars, Stands
  <2>6. QED
    BY <2>3, <2>4, <2>5 DEF StorageInv
<1>3. QED
  BY <1>1, <1>2

\* Nothing has been called.
LEMMA StorageInitInv == StorageInit => StorageInv
<1> SUFFICES ASSUME StorageInit
             PROVE  StorageInv
    OBVIOUS
<1> USE MaxPartsAssumption, MaxRetriesAssumption DEF StorageInit, NoStorageCall
<1>1. StorageTypeOK
  BY DEF StorageTypeOK
<1>2. UploadOnce
  BY DEF UploadOnce, RetryStoresOnce
<1>3. ListingSoFar /\ ListingExact
  BY DEF ListingSoFar, ListingExact, Stands
<1>4. QED
  BY <1>1, <1>2, <1>3 DEF StorageInv

\* Every request of a call, every failure, a restart and the parts that browsers
\* upload meanwhile preserve it.
LEMMA StorageStepInv == StorageInv /\ [StorageNext]_storageVars => StorageInv'
<1> SUFFICES ASSUME StorageInv, [StorageNext]_storageVars
             PROVE  StorageInv'
    OBVIOUS
<1>0. StorageTypeOK /\ UploadOnce /\ ListingSoFar /\ ListingExact
  BY DEF StorageInv
<1>1. ASSUME NEW c \in Callers, StartCall(c)
      PROVE  StorageInv'
  <2>1. PICK op \in CallOps :
               /\ Put(c, Begin(op, 0))
               /\ op = "upload" => ~started
               /\ started' = (started \/ op = "upload")
    <3>1. CASE booting
      <4>1. Put(c, Begin("cors", 0)) /\ UNCHANGED started /\ "cors" \in CallOps
        BY <1>1, <3>1 DEF StartCall, CallOps
      <4>2. started' = (started \/ "cors" = "upload")
        BY <1>0, <4>1 DEF StorageTypeOK
      <4>3. QED
        BY <4>1, <4>2
    <3>2. CASE ~booting
      BY <1>1, <3>2 DEF StartCall
    <3>3. QED
      BY <3>1, <3>2
  <2>2. /\ UNCHANGED <<client, fresh, parts, versions, rules, configured, doubled>>
        /\ booting' = FALSE
    BY <1>1 DEF StartCall
  <2>3. 0 \in 0 .. MaxRetries
    BY MaxRetriesAssumption
  <2>4. Begin(op, 0) \in Calls /\ Begin(op, 0).op = op
    BY <1>0, <2>3, BeginHasNothing DEF StorageTypeOK
  <2>5. /\ call' \in [Callers -> Calls \cup {NoStorageCall}]
        /\ call'[c] = Begin(op, 0)
        /\ \A d \in Callers : d # c => call'[d] = call[d]
    <3>1. Put(c, Begin(op, 0))
      BY <2>1
    <3>2. QED
      BY <1>0, <2>4, <3>1, PutOne DEF StorageTypeOK
  <2>6. StorageTypeOK'
    <3>1. started' \in BOOLEAN
      BY <2>1
    <3>2. QED
      BY <1>0, <2>2, <2>5, <3>1 DEF StorageTypeOK
  <2>7. UploadOnce'
    <3>1. CASE op = "upload"
      BY <1>0, <2>1, <2>2, <2>4, <2>5, <3>1 DEF UploadOnce, RetryStoresOnce
    <3>2. CASE op # "upload"
      <4>1. started' = started
        BY <1>0, <2>1, <3>2 DEF StorageTypeOK
      <4>2. QED
        BY <1>0, <2>2, <2>4, <2>5, <3>2, <4>1, NoUploadStep
    <3>3. QED
      BY <3>1, <3>2
  <2>8. ListingSoFar' /\ ListingExact'
    BY <1>0, <2>2, <2>3, <2>5, CallBegins DEF StorageTypeOK
  <2>9. QED
    BY <2>6, <2>7, <2>8 DEF StorageInv
<1>2. ASSUME NEW c \in Callers, Refused401(c)
      PROVE  StorageInv'
  <2>1. /\ call[c] # NoStorageCall
        /\ Put(c, NoStorageCall) \/ Put(c, [call[c] EXCEPT !.at = "authorize"])
        /\ UNCHANGED <<clientVars, bucketVars>>
    BY <1>2 DEF Refused401, GoOn, Finish, Stands
  <2>2. "authorize" \in CallSteps \ {"send", "done"}
    BY DEF CallSteps
  <2>3. QED
    BY <1>0, <2>1, <2>2, QuietCall
<1>3. ASSUME NEW c \in Callers, Authorize(c)
      PROVE  StorageInv'
  <2>1. /\ call[c] # NoStorageCall /\ client' = c
        /\ Put(c, [call[c] EXCEPT !.at = "authorizing"])
        /\ UNCHANGED <<booting, fresh, configured, bucketVars>>
    BY <1>3 DEF Authorize, GoOn
  <2>2. /\ [call[c] EXCEPT !.at = "authorizing"] \in Calls
        /\ [call[c] EXCEPT !.at = "authorizing"].op = call[c].op
        /\ [call[c] EXCEPT !.at = "authorizing"].at = "authorizing"
    BY <1>0, <2>1 DEF StorageTypeOK, Calls, CallSteps
  <2>3. /\ call' \in [Callers -> Calls \cup {NoStorageCall}]
        /\ call'[c] = [call[c] EXCEPT !.at = "authorizing"]
        /\ \A d \in Callers : d # c => call'[d] = call[d]
    BY <1>0, <2>1, <2>2, PutOne DEF StorageTypeOK
  <2>4. StorageTypeOK'
    BY <1>0, <2>1, <2>3 DEF StorageTypeOK, bucketVars
  <2>5. UploadOnce'
    BY <1>0, <2>1, <2>2, <2>3, NoUploadStep DEF bucketVars
  <2>6. ListingSoFar' /\ ListingExact'
    BY <1>0, <2>1, <2>2, <2>3, NoListingStep DEF Stands, bucketVars
  <2>7. QED
    BY <2>4, <2>5, <2>6 DEF StorageInv
<1>4. ASSUME NEW c \in Callers, Authorized(c)
      PROVE  StorageInv'
  <2>1. /\ client' \in {client, "valid"} /\ fresh' = TRUE
        /\ UNCHANGED <<booting, configured, bucketVars>>
        /\ call[c] # NoStorageCall
        /\ Put(c, NoStorageCall) \/ Put(c, Begin(call[c].op, call[c].retries))
    BY <1>4 DEF Authorized, Finish
  <2>2. CASE Put(c, NoStorageCall)
    BY <1>0, <2>1, <2>2, CallEnds DEF bucketVars, StorageTypeOK
  <2>3. CASE Put(c, Begin(call[c].op, call[c].retries))
    <3>1. call[c].op \in CallOps /\ call[c].retries \in 0 .. MaxRetries
      BY <1>0, <2>1 DEF StorageTypeOK, Calls
    <3>2. Begin(call[c].op, call[c].retries) \in Calls
          /\ Begin(call[c].op, call[c].retries).op = call[c].op
      BY <1>0, <3>1, BeginHasNothing DEF StorageTypeOK
    <3>3. /\ call' \in [Callers -> Calls \cup {NoStorageCall}]
          /\ call'[c] = Begin(call[c].op, call[c].retries)
          /\ \A d \in Callers : d # c => call'[d] = call[d]
      BY <1>0, <2>3, <3>2, PutOne DEF StorageTypeOK
    <3>4. StorageTypeOK'
      BY <1>0, <2>1, <3>3 DEF StorageTypeOK, bucketVars
    <3>5. UploadOnce'
      BY <1>0, <2>1, <3>2, <3>3, NoUploadStep DEF bucketVars
    <3>6. ListingSoFar' /\ ListingExact'
      BY <1>0, <2>1, <3>1, <3>3, CallBegins DEF StorageTypeOK, bucketVars
    <3>7. QED
      BY <3>4, <3>5, <3>6 DEF StorageInv
  <2>4. QED
    BY <2>1, <2>2, <2>3
<1>5. ASSUME NEW c \in Callers, AuthorizeFails(c)
      PROVE  StorageInv'
  <2>1. /\ Put(c, NoStorageCall) /\ UNCHANGED <<clientVars, bucketVars>>
    BY <1>5 DEF AuthorizeFails, Finish
  <2>2. QED
    BY <1>0, <2>1, CallEnds DEF clientVars, StorageTypeOK
<1>6. ASSUME NEW c \in Callers, CallFails(c)
      PROVE  StorageInv'
  <2>1. /\ Put(c, NoStorageCall) /\ UNCHANGED <<clientVars, bucketVars>>
    BY <1>6 DEF CallFails, Finish
  <2>2. QED
    BY <1>0, <2>1, CallEnds DEF clientVars, StorageTypeOK
<1>7. ASSUME NEW c \in Callers, CallSucceeds(c)
      PROVE  StorageInv'
  <2>1. /\ Put(c, NoStorageCall) /\ UNCHANGED <<clientVars, bucketVars>>
    BY <1>7 DEF CallSucceeds, Finish
  <2>2. QED
    BY <1>0, <2>1, CallEnds DEF clientVars, StorageTypeOK
<1>8. ASSUME NEW c \in Callers, UploadUrl(c)
      PROVE  StorageInv'
  <2>1. /\ call[c] # NoStorageCall
        /\ Put(c, NoStorageCall) \/ Put(c, [call[c] EXCEPT !.at = "post"])
        /\ UNCHANGED <<clientVars, bucketVars>>
    BY <1>8 DEF UploadUrl, GoOn, Finish, Stands
  <2>2. "post" \in CallSteps \ {"send", "done"}
    BY DEF CallSteps
  <2>3. QED
    BY <1>0, <2>1, <2>2, QuietCall
<1>9. ASSUME NEW c \in Callers, UploadStored(c)
      PROVE  StorageInv'
  <2> USE <1>0, MaxPartsAssumption, MaxRetriesAssumption, PageSizeAssumption, <1>9
      DEF StorageTypeOK, Calls, CallOps, CallSteps, NoStorageCall, Stands, Put, Finish, GoOn,
          Begin, clientVars, bucketVars, UploadStored
  <2>1. StorageTypeOK'
    OBVIOUS
  <2>2. UploadOnce'
    BY DEF UploadOnce, RetryStoresOnce
  <2>3. ListingSoFar'
    BY DEF ListingSoFar
  <2>4. ListingExact'
    BY DEF ListingExact
  <2>5. QED
    BY <2>1, <2>2, <2>3, <2>4 DEF StorageInv
<1>10. ASSUME NEW c \in Callers, UploadTokenRefused(c)
       PROVE  StorageInv'
  <2>1. /\ call[c] # NoStorageCall
        /\ Put(c, NoStorageCall) \/ Put(c, [call[c] EXCEPT !.at = "authorize"])
        /\ UNCHANGED <<clientVars, bucketVars>>
    BY <1>10 DEF UploadTokenRefused, GoOn, Finish, Stands
  <2>2. "authorize" \in CallSteps \ {"send", "done"}
    BY DEF CallSteps
  <2>3. QED
    BY <1>0, <2>1, <2>2, QuietCall
<1>11. ASSUME NEW c \in Callers, UploadRetries(c)
       PROVE  StorageInv'
  <2>1. /\ call[c] # NoStorageCall /\ call[c].op = "upload"
        /\ UNCHANGED <<clientVars, parts, rules, started>>
        /\ \/ UNCHANGED <<versions, doubled>>
           \/ versions' = versions + 1 /\ doubled' = TRUE
    BY <1>11 DEF UploadRetries, Stands
  <2>2. PICK r \in Calls \cup {NoStorageCall} :
               /\ Put(c, r)
               /\ r = NoStorageCall \/ (r.op = "upload" /\ r.at = "send")
    <3>1. CASE call[c].retries < MaxRetries
      <4>1. call[c].retries + 1 \in 0 .. MaxRetries /\ "upload" \in CallOps
        BY <1>0, <2>1, <3>1, MaxRetriesAssumption DEF StorageTypeOK, Calls, CallOps
      <4>2. QED
        BY <1>0, <1>11, <3>1, <4>1, BeginHasNothing DEF UploadRetries, StorageTypeOK
    <3>2. CASE ~(call[c].retries < MaxRetries)
      BY <1>11, <3>2 DEF UploadRetries, Finish
    <3>3. QED
      BY <3>1, <3>2
  <2>3. /\ call' \in [Callers -> Calls \cup {NoStorageCall}]
        /\ call'[c] = r
        /\ \A d \in Callers : d # c => call'[d] = call[d]
    BY <1>0, <2>2, PutOne DEF StorageTypeOK
  <2>4. StorageTypeOK'
    <3>1. versions' \in Nat /\ doubled' \in BOOLEAN
      <4>1. CASE UNCHANGED <<versions, doubled>>
        BY <1>0, <4>1 DEF StorageTypeOK
      <4>2. CASE versions' = versions + 1 /\ doubled' = TRUE
        BY <1>0, <4>2 DEF StorageTypeOK
      <4>3. QED
        BY <2>1, <4>1, <4>2
    <3>2. QED
      BY <1>0, <2>1, <2>3, <3>1 DEF StorageTypeOK, clientVars
  <2>5. UploadOnce'
    BY <1>0, <2>1, <2>3 DEF UploadOnce, RetryStoresOnce, StorageTypeOK
  <2>6. ListingSoFar' /\ ListingExact'
    BY <1>0, <2>1, <2>2, <2>3, NoListingStep DEF Stands
  <2>7. QED
    BY <2>4, <2>5, <2>6 DEF StorageInv
<1>12. ASSUME NEW c \in Callers, ListPage(c)
       PROVE  StorageInv'
  <2> DEFINE from == call[c].from
             page == Page(from)
             rest == {p \in parts : p >= from} \ page
             got == call[c].got
             all == got \o InOrder(page)
  <2>1. /\ Stands(c, "list", "send") /\ call[c] \in Calls
        /\ UNCHANGED <<clientVars, bucketVars>>
        /\ from \in 0 .. MaxParts /\ got \in Seq(1 .. MaxParts)
        /\ parts \subseteq 1 .. MaxParts
    BY <1>0, <1>12 DEF ListPage, Stands, StorageTypeOK, Calls
  <2>2. /\ \A i, j \in DOMAIN got : i < j => got[i] < got[j]
        /\ \A i \in DOMAIN got : got[i] < from /\ got[i] \in parts
        /\ call[c].saw \subseteq parts
        /\ \A p \in call[c].saw : p < from => \E i \in DOMAIN got : got[i] = p
    BY <1>0, <2>1 DEF ListingSoFar
  <2>3. /\ page \in SUBSET parts /\ \A p \in page : p >= from
        /\ rest # {} => \E p \in rest : \A q \in rest : p <= q
        /\ \A p \in page, q \in parts : from <= q /\ q < p => q \in page
    BY <2>1, PageSplits
  <2>4. /\ all \in Seq(1 .. MaxParts)
        /\ \A i, j \in DOMAIN all : i < j => all[i] < all[j]
        /\ \A i \in DOMAIN all : all[i] \in parts /\ (all[i] < from \/ all[i] \in page)
        /\ \A i \in DOMAIN got : \E j \in DOMAIN all : all[j] = got[i]
        /\ \A p \in page : \E j \in DOMAIN all : all[j] = p
    BY <2>1, <2>2, PageAppended
  <2>5. PICK next : next = CHOOSE p \in rest : \A q \in rest : p <= q
    OBVIOUS
  <2>6. \/ rest = {} /\ Put(c, [call[c] EXCEPT !.got = all, !.at = "done"])
        \/ rest # {} /\ Put(c, [call[c] EXCEPT !.got = all, !.from = next])
    BY <1>12, <2>5 DEF ListPage
  <2> HIDE DEF all, page
  <2>7. CASE rest = {} /\ Put(c, [call[c] EXCEPT !.got = all, !.at = "done"])
    <3> DEFINE r == [call[c] EXCEPT !.got = all, !.at = "done"]
    <3>1. r \in Calls /\ r.op = "list" /\ r.at = "done" /\ r.got = all /\ r.saw = call[c].saw
      BY <2>1, <2>4 DEF Calls, CallSteps, Stands
    <3> HIDE DEF r
    <3>2. /\ call' \in [Callers -> Calls \cup {NoStorageCall}]
          /\ call'[c] = r
          /\ \A d \in Callers : d # c => call'[d] = call[d]
      BY <1>0, <2>7, <3>1, PutOne DEF StorageTypeOK, r
    <3>3. StorageTypeOK'
      BY <1>0, <2>1, <3>2 DEF StorageTypeOK, clientVars, bucketVars
    <3>4. UploadOnce'
      BY <1>0, <2>1, <3>1, <3>2, NoUploadStep DEF bucketVars
    <3>5. ListingSoFar'
      BY <1>0, <2>1, <3>1, <3>2 DEF ListingSoFar, Stands, bucketVars
    <3>6. call[c].saw \subseteq {all[i] : i \in DOMAIN all}
      <4>1. SUFFICES ASSUME NEW p \in call[c].saw
                     PROVE  \E i \in DOMAIN all : all[i] = p
        OBVIOUS
      <4>2. p \in parts /\ p \in 1 .. MaxParts
        BY <2>1, <2>2, <4>1
      <4>3. p < from \/ p \in page
        BY <2>1, <2>7, <4>2, MaxPartsAssumption
      <4>4. QED
        BY <2>2, <2>4, <4>3
    <3>7. {all[i] : i \in DOMAIN all} \subseteq parts
      BY <2>4
    <3>8. ListingExact'
      <4>1. UNCHANGED parts
        BY <2>1 DEF bucketVars
      <4>2. ASSUME NEW d \in Callers, Stands(d, "list", "done")'
            PROVE  LET g == call'[d].got IN
                   /\ \A i, j \in DOMAIN g : i < j => g[i] < g[j]
                   /\ call'[d].saw \subseteq {g[i] : i \in DOMAIN g}
                   /\ {g[i] : i \in DOMAIN g} \subseteq parts
        <5>1. CASE d = c
          <6>1. call'[d].got = all /\ call'[d].saw = call[c].saw
            BY <3>1, <3>2, <5>1
          <6>2. QED
            BY <2>4, <3>6, <3>7, <6>1
        <5>2. CASE d # c
          BY <1>0, <3>2, <4>2, <5>2 DEF ListingExact, Stands
        <5>3. QED
          BY <5>1, <5>2
      <4>3. QED
        BY <4>1, <4>2 DEF ListingExact
    <3>9. QED
      BY <3>3, <3>4, <3>5, <3>8 DEF StorageInv
  <2>8. CASE rest # {} /\ Put(c, [call[c] EXCEPT !.got = all, !.from = next])
    <3> DEFINE r == [call[c] EXCEPT !.got = all, !.from = next]
    <3>1. next \in rest /\ \A q \in rest : next <= q
      BY <2>3, <2>5, <2>8
    <3>2. next \in 1 .. MaxParts /\ next \in parts /\ next >= from /\ next \notin page
      BY <2>1, <3>1
    <3>3. r \in Calls /\ r.op = "list" /\ r.at = "send" /\ r.got = all /\ r.saw = call[c].saw
          /\ r.from = next
      <4>1. next \in 0 .. MaxParts
        BY <3>2, MaxPartsAssumption
      <4>2. QED
        BY <2>1, <2>4, <4>1 DEF Calls, Stands
    <3> HIDE DEF r
    <3>4. /\ call' \in [Callers -> Calls \cup {NoStorageCall}]
          /\ call'[c] = r
          /\ \A d \in Callers : d # c => call'[d] = call[d]
      BY <1>0, <2>8, <3>3, PutOne DEF StorageTypeOK, r
    <3>5. StorageTypeOK'
      BY <1>0, <2>1, <3>4 DEF StorageTypeOK, clientVars, bucketVars
    <3>6. UploadOnce'
      BY <1>0, <2>1, <3>3, <3>4, NoUploadStep DEF bucketVars
    <3>7. \A p \in page : p < next
      <4>1. TAKE p \in page
      <4>2. p \in parts /\ p \in Nat /\ next \in Nat /\ p # next
        <5>1. p \in parts /\ p \in 1 .. MaxParts /\ p # next
          BY <2>1, <2>3, <3>2
        <5>2. QED
          BY <3>2, <5>1, MaxPartsAssumption
      <4>3. SUFFICES ASSUME next < p
                     PROVE  FALSE
        BY <4>2
      <4>4. next \in page
        BY <2>3, <3>2, <4>3
      <4>5. QED
        BY <3>2, <4>4
    <3>8. \A i \in DOMAIN all : all[i] < next /\ all[i] \in parts
      <4>1. TAKE i \in DOMAIN all
      <4>2. all[i] \in Nat /\ from \in Nat /\ next \in Nat
        BY <2>1, <2>4, <3>2, MaxPartsAssumption
      <4>3. QED
        BY <2>4, <3>2, <3>7, <4>2
    <3>9. \A p \in call[c].saw : p < next => \E i \in DOMAIN all : all[i] = p
      <4>1. TAKE p \in call[c].saw
      <4>2. p \in parts /\ p \in Nat /\ from \in Nat /\ next \in Nat
        <5>1. p \in parts /\ p \in 1 .. MaxParts
          BY <2>1, <2>2, <4>1
        <5>2. QED
          BY <2>1, <3>2, <5>1, MaxPartsAssumption
      <4>3. p < next => p < from \/ p \in page
        BY <3>1, <4>2
      <4>4. QED
        BY <2>2, <2>4, <4>3
    <3>10. ListingSoFar'
      BY <1>0, <2>1, <2>2, <2>4, <3>3, <3>4, <3>8, <3>9
         DEF ListingSoFar, Stands, bucketVars
    <3>11. ListingExact'
      BY <1>0, <2>1, <3>3, <3>4 DEF ListingExact, Stands, bucketVars
    <3>12. QED
      BY <3>5, <3>6, <3>10, <3>11 DEF StorageInv
  <2>9. QED
    BY <2>6, <2>7, <2>8
<1>13. ASSUME NEW c \in Callers, FindVersion(c)
       PROVE  StorageInv'
  <2>1. /\ call[c] # NoStorageCall
        /\ Put(c, NoStorageCall) \/ Put(c, [call[c] EXCEPT !.at = "delete"])
        /\ UNCHANGED <<clientVars, bucketVars>>
    BY <1>13 DEF FindVersion, GoOn, Finish, Stands
  <2>2. "delete" \in CallSteps \ {"send", "done"}
    BY DEF CallSteps
  <2>3. QED
    BY <1>0, <2>1, <2>2, QuietCall
<1>14. ASSUME NEW c \in Callers, DeleteVersion(c)
       PROVE  StorageInv'
  <2> USE <1>0, MaxPartsAssumption, MaxRetriesAssumption, PageSizeAssumption, <1>14
      DEF StorageTypeOK, Calls, CallOps, CallSteps, NoStorageCall, Stands, Put, Finish, GoOn,
          Begin, clientVars, bucketVars, DeleteVersion
  <2>1. StorageTypeOK'
    OBVIOUS
  <2>2. UploadOnce'
    BY DEF UploadOnce, RetryStoresOnce
  <2>3. ListingSoFar'
    BY DEF ListingSoFar
  <2>4. ListingExact'
    BY DEF ListingExact
  <2>5. QED
    BY <2>1, <2>2, <2>3, <2>4 DEF StorageInv
<1>15. ASSUME NEW c \in Callers, ReadRules(c)
       PROVE  StorageInv'
  <2>1. CASE Put(c, NoStorageCall) /\ configured' = TRUE
    BY <1>0, <1>15, <2>1, CallEnds DEF ReadRules, StorageTypeOK
  <2>2. CASE GoOn(c, "update") /\ UNCHANGED configured
    <3>1. call[c] # NoStorageCall /\ UNCHANGED <<clientVars, bucketVars>>
      BY <1>15, <2>2 DEF ReadRules, Stands, clientVars
    <3>2. "update" \in CallSteps \ {"send", "done"}
      BY DEF CallSteps
    <3>3. QED
      BY <1>0, <2>2, <3>1, <3>2, QuietCall DEF GoOn
  <2>3. QED
    BY <1>15, <2>1, <2>2 DEF ReadRules, Finish
<1>16. ASSUME NEW c \in Callers, UpdateRules(c)
       PROVE  StorageInv'
  <2> USE <1>0, MaxPartsAssumption, MaxRetriesAssumption, PageSizeAssumption, <1>16
      DEF StorageTypeOK, Calls, CallOps, CallSteps, NoStorageCall, Stands, Put, Finish, GoOn,
          Begin, clientVars, bucketVars, UpdateRules
  <2>1. StorageTypeOK'
    OBVIOUS
  <2>2. UploadOnce'
    BY DEF UploadOnce, RetryStoresOnce
  <2>3. ListingSoFar'
    BY DEF ListingSoFar
  <2>4. ListingExact'
    BY DEF ListingExact
  <2>5. QED
    BY <2>1, <2>2, <2>3, <2>4 DEF StorageInv
<1>17. CASE CredentialsExpire
  <2> USE <1>0, MaxPartsAssumption, MaxRetriesAssumption, PageSizeAssumption, <1>17
      DEF StorageTypeOK, Calls, CallOps, CallSteps, NoStorageCall, Stands, Put, Finish, GoOn,
          Begin, clientVars, bucketVars, CredentialsExpire
  <2>1. StorageTypeOK'
    OBVIOUS
  <2>2. UploadOnce'
    BY DEF UploadOnce, RetryStoresOnce
  <2>3. ListingSoFar'
    BY DEF ListingSoFar
  <2>4. ListingExact'
    BY DEF ListingExact
  <2>5. QED
    BY <2>1, <2>2, <2>3, <2>4 DEF StorageInv
<1>18. CASE Restart
  <2> USE <1>0, MaxPartsAssumption, MaxRetriesAssumption, PageSizeAssumption, <1>18
      DEF StorageTypeOK, Calls, CallOps, CallSteps, NoStorageCall, Stands, Put, Finish, GoOn,
          Begin, clientVars, bucketVars, Restart
  <2>1. StorageTypeOK'
    OBVIOUS
  <2>2. UploadOnce'
    BY DEF UploadOnce, RetryStoresOnce
  <2>3. ListingSoFar'
    BY DEF ListingSoFar
  <2>4. ListingExact'
    BY DEF ListingExact
  <2>5. QED
    BY <2>1, <2>2, <2>3, <2>4 DEF StorageInv
<1>19. CASE PartArrives
  <2> USE <1>0, MaxPartsAssumption, MaxRetriesAssumption, PageSizeAssumption, <1>19
      DEF StorageTypeOK, Calls, CallOps, CallSteps, NoStorageCall, Stands, Put, Finish, GoOn,
          Begin, clientVars, bucketVars, PartArrives
  <2>1. StorageTypeOK'
    OBVIOUS
  <2>2. UploadOnce'
    BY DEF UploadOnce, RetryStoresOnce
  <2>3. ListingSoFar'
    BY DEF ListingSoFar
  <2>4. ListingExact'
    BY DEF ListingExact
  <2>5. QED
    BY <2>1, <2>2, <2>3, <2>4 DEF StorageInv
<1>20. CASE UNCHANGED storageVars
  BY <1>0, <1>20 DEF storageVars, clientVars, bucketVars, StorageTypeOK, Stands, StorageInv, UploadOnce, RetryStoresOnce, ListingSoFar,
     ListingExact
<1>21. QED
  BY <1>1, <1>2, <1>3, <1>4, <1>5, <1>6, <1>7, <1>8, <1>9, <1>10, <1>11, <1>12,
     <1>13, <1>14, <1>15, <1>16, <1>17, <1>18, <1>19, <1>20
  DEF StorageNext, CallStep

\* The invariant of the storage client holds in every reachable state.
THEOREM StorageInvariant == StorageSpec => []StorageInv
<1>1. QED
  BY StorageInitInv, StorageStepInv, PTL DEF StorageSpec

\* An upload that is tried again, after a 401, a time-out or a network failure,
\* stores its object once unless an answer of B2 was lost.
THEOREM UploadsStoreOnce == StorageSpec => []RetryStoresOnce
<1>1. StorageInv => RetryStoresOnce
  BY DEF StorageInv, UploadOnce
<1>2. QED
  BY <1>1, StorageInvariant, PTL

\* A finished listing has every part that was stored when it began, in order and
\* once, for any page size and any number of parts that arrive between the pages.
THEOREM ListingsAreExact == StorageSpec => []ListingExact
<1>1. StorageInv => ListingExact
  BY DEF StorageInv
<1>2. QED
  BY <1>1, StorageInvariant, PTL

-----------------------------------------------------------------------------
(* The script: pages of names, duplicates and what is deleted.               *)

\* A name with a version has a newest one.
LEMMA NewestExists ==
  ASSUME bucket \subseteq Version, NEW n, \E v \in bucket : v.name = n
  PROVE  Newest(n) \in bucket /\ Newest(n).name = n
<1> DEFINE B == {v \in bucket : v.name = n}
           T == {v.time : v \in B}
<1>1. T \in SUBSET (1 .. MaxTime) /\ T # {}
  BY DEF Version
<1>2. T \in SUBSET Nat /\ IsFiniteSet(T)
  <2>1. IsFiniteSet(1 .. MaxTime)
    BY BoundsAssumption, FS_Interval
  <2>2. IsFiniteSet(T)
    BY <1>1, <2>1, FS_Subset
  <2>3. QED
    BY <1>1, <2>2, BoundsAssumption
<1>3. \E t \in T : \A u \in T : u <= t
  BY <1>1, <1>2, Extremes
<1>4. \E v \in bucket : v.name = n /\ \A w \in bucket : w.name = n => w.time <= v.time
  BY <1>3
<1>5. QED
  BY <1>4 DEF Newest

\* A page has the least names from startFileName on, in order and each once, and
\* no more than it may have.
LEMMA PageOfNames ==
  ASSUME bucket \subseteq Version, start \in Nat
  PROVE  /\ NextPage \in Seq(Version)
         /\ \A i \in DOMAIN NextPage : NextPage[i].name >= start
         /\ \A i, j \in DOMAIN NextPage : i < j => NextPage[i].name < NextPage[j].name
         /\ Len(NextPage) <= PageLength
<1> DEFINE V == Visible(start)
           N == NamesOnPage
           n == Cardinality(N)
<1>1. V \in SUBSET Names /\ N \in SUBSET V
  BY DEF Visible, NamesOnPage
<1>2. V \in SUBSET Nat /\ IsFiniteSet(V) /\ N \in SUBSET Nat /\ IsFiniteSet(N)
  <2>1. IsFiniteSet(1 .. MaxName)
    BY BoundsAssumption, FS_Interval
  <2>2. Names \in SUBSET Nat
    BY BoundsAssumption DEF Names
  <2>3. IsFiniteSet(V)
    BY <1>1, <2>1, FS_Subset DEF Names
  <2>4. IsFiniteSet(N)
    BY <1>1, <2>3, FS_Subset
  <2>5. QED
    BY <1>1, <2>2, <2>3, <2>4
<1>3. /\ n \in Nat /\ InOrder(N) \in Seq(N) /\ Len(InOrder(N)) = n
      /\ \A i \in 1 .. n : Rank(N, InOrder(N)[i]) = i - 1
      /\ \A i, j \in 1 .. n : i < j => InOrder(N)[i] < InOrder(N)[j]
  BY <1>2, InOrderLists
<1>4. \A i \in 1 .. n : InOrder(N)[i] \in N
  BY <1>3, ElementOfSeq
<1>5. \A i \in 1 .. n :
         InOrder(N)[i] = CHOOSE m \in N : Cardinality({q \in N : q < m}) = i - 1
  BY DEF InOrder
<1>6. /\ NextPage = [i \in 1 .. n |-> NextPage[i]]
      /\ \A i \in 1 .. n : NextPage[i] = Newest(InOrder(N)[i])
  <2>1. /\ NextPage = [i \in 1 .. n |-> NextPage[i]]
        /\ \A i \in 1 .. n :
             NextPage[i] = Newest(CHOOSE m \in N : Cardinality({q \in N : q < m}) = i - 1)
    BY DEF NextPage
  <2>2. QED
    BY <1>5, <2>1
<1>7. \A m \in N : m >= start /\ \E v \in bucket : v.name = m
  BY <1>1 DEF Visible
<1> HIDE DEF N, n
<1>8. \A i \in 1 .. n : NextPage[i] \in Version /\ NextPage[i].name = InOrder(N)[i]
  BY <1>4, <1>6, <1>7, NewestExists
<1>9. NextPage \in Seq(Version) /\ Len(NextPage) = n /\ DOMAIN NextPage = 1 .. n
  <2>1. NextPage \in [1 .. n -> Version]
    BY <1>6, <1>8
  <2>2. QED
    BY <1>3, <2>1, SeqDef, LenProperties
<1>10. \A i \in 1 .. n : NextPage[i].name >= start
  BY <1>4, <1>7, <1>8
<1>11. \A i, j \in 1 .. n : i < j => NextPage[i].name < NextPage[j].name
  BY <1>3, <1>8
<1>12. n <= PageLength
  <2>1. SUFFICES ASSUME ~(n <= PageLength)
                 PROVE  FALSE
    OBVIOUS
  <2>2. PICK k \in 1 .. n : k - 1 = PageLength
    <3>1. PageLength + 1 \in 1 .. n /\ PageLength + 1 - 1 = PageLength
      BY <1>3, <2>1, PageLengthAssumption
    <3>2. QED
      BY <1>3, <3>1, PageLengthAssumption
  <2>3. PICK p \in N : Rank(N, p) = PageLength
    <3>1. InOrder(N)[k] \in N /\ Rank(N, InOrder(N)[k]) = k - 1
      BY <1>3, <1>4
    <3>2. QED
      BY <2>2, <3>1
  <2>4. Cardinality({m \in V : m < p}) < PageLength
    BY DEF N, NamesOnPage
  <2>5. {m \in N : m < p} \in SUBSET {m \in V : m < p}
    BY <1>1 DEF N
  <2>6. IsFiniteSet({m \in V : m < p})
    BY <1>2, FS_Subset
  <2>7. Rank(N, p) <= Rank(V, p) /\ Rank(V, p) \in Nat
    BY <1>2, <2>5, <2>6, FS_Subset, FS_CardinalityType DEF Rank
  <2>8. QED
    BY <2>3, <2>4, <2>7, PageLengthAssumption DEF Rank
<1>13. QED
  BY <1>9, <1>10, <1>11, <1>12

\* Of the entries of a name one is kept: a newest, and of these the first.
LEMMA KeptExists ==
  ASSUME NEW all \in Seq(Version), NEW i \in DOMAIN all
  PROVE  LET k == Kept(all, all[i].name) IN
         /\ k \in DOMAIN all
         /\ all[k].name = all[i].name
         /\ \A j \in DOMAIN all : all[j].name = all[i].name =>
              all[j].time < all[k].time \/ (all[j].time = all[k].time /\ k <= j)
<1> DEFINE D == {j \in DOMAIN all : all[j].name = all[i].name}
           T == {all[j].time : j \in D}
<1>1. /\ Len(all) \in Nat /\ DOMAIN all = 1 .. Len(all)
      /\ \A j \in DOMAIN all : all[j] \in Version
  BY LenProperties, ElementOfSeq
<1>2. T \in SUBSET (1 .. MaxTime) /\ T # {}
  BY <1>1 DEF Version
<1>3. T \in SUBSET Nat /\ IsFiniteSet(T)
  <2>1. IsFiniteSet(1 .. MaxTime)
    BY BoundsAssumption, FS_Interval
  <2>2. IsFiniteSet(T)
    BY <1>2, <2>1, FS_Subset
  <2>3. QED
    BY <1>2, <2>2, BoundsAssumption
<1>4. PICK t \in T : \A u \in T : u <= t
  BY <1>2, <1>3, Extremes
<1> DEFINE K == {j \in D : all[j].time = t}
<1>5. K \in SUBSET (1 .. Len(all)) /\ K # {}
  BY <1>1, <1>4
<1>6. K \in SUBSET Nat /\ IsFiniteSet(K)
  <2>1. IsFiniteSet(1 .. Len(all))
    BY <1>1, FS_Interval
  <2>2. IsFiniteSet(K)
    BY <1>5, <2>1, FS_Subset
  <2>3. QED
    BY <1>1, <1>5, <2>2
<1>7. PICK k \in K : \A j \in K : k <= j
  BY <1>5, <1>6, Extremes
<1>8. \A j \in DOMAIN all : all[j].name = all[i].name =>
        all[j].time < all[k].time \/ (all[j].time = all[k].time /\ k <= j)
  <2>1. TAKE j \in DOMAIN all
  <2>2. SUFFICES ASSUME all[j].name = all[i].name
                 PROVE  all[j].time < t \/ (all[j].time = t /\ k <= j)
    BY <1>7
  <2>3. j \in D /\ all[j].time \in T
    BY <2>2
  <2>4. CASE all[j].time = t
    BY <1>7, <2>3, <2>4
  <2>5. CASE all[j].time # t
    <3>1. all[j].time <= t /\ all[j].time \in Nat /\ t \in Nat
      BY <1>3, <1>4, <2>3
    <3>2. QED
      BY <2>5, <3>1
  <2>6. QED
    BY <2>4, <2>5
<1>9. k \in DOMAIN all /\ all[k].name = all[i].name
  BY <1>7
<1>10. QED
  BY <1>8, <1>9 DEF Kept

\* A page is appended to what is listed.
LEMMA PageListed ==
  ASSUME bucket \subseteq Version, start \in Nat, listed \in Seq(Version), ListedInOrder,
         scan = "list"
  PROVE  LET all == listed \o NextPage IN
         /\ all \in Seq(Version) /\ Len(all) = Len(listed) + Len(NextPage)
         /\ \A i, j \in DOMAIN all : i < j => all[i].name <= all[j].name
         /\ \A i, j \in DOMAIN all : i + 1 < j => all[i].name < all[j].name
         /\ Len(NextPage) >= PageLength =>
              LET next == NextPage[PageLength].name IN
              /\ next \in Names
              /\ \A i \in DOMAIN all :
                   all[i].name <= next /\ (i < Len(all) => all[i].name < next)
<1> DEFINE L == listed
           P == NextPage
           m == Len(L)
           n == Len(P)
           all == L \o P
<1>1. /\ P \in Seq(Version) /\ n <= PageLength
      /\ \A i \in DOMAIN P : P[i].name >= start
      /\ \A i, j \in DOMAIN P : i < j => P[i].name < P[j].name
  BY PageOfNames
<1>2. /\ m \in Nat /\ DOMAIN L = 1 .. m /\ \A i \in 1 .. m : L[i] \in Version
      /\ \A i, j \in 1 .. m : i < j => L[i].name <= L[j].name
      /\ \A i, j \in 1 .. m : i + 1 < j => L[i].name < L[j].name
      /\ \A i \in 1 .. m : L[i].name <= start /\ (i < m => L[i].name < start)
  <2>1. m \in Nat /\ DOMAIN L = 1 .. m /\ \A i \in 1 .. m : L[i] \in Version
    BY LenProperties, ElementOfSeq
  <2>2. QED
    BY <2>1 DEF ListedInOrder
<1> HIDE DEF P
<1>3. n \in Nat /\ DOMAIN P = 1 .. n /\ \A i \in 1 .. n : P[i] \in Version
  BY <1>1, LenProperties, ElementOfSeq
<1>4. /\ all \in Seq(Version) /\ Len(all) = m + n /\ DOMAIN all = 1 .. m + n
      /\ \A i \in 1 .. m + n : all[i] = IF i <= m THEN L[i] ELSE P[i - m]
  BY <1>1, ConcatProperties, LenProperties
<1>5. \A v \in Version : v.name \in Nat /\ v.name \in Names
  BY BoundsAssumption DEF Version, Names
<1> HIDE DEF L, m, n, all
<1>6. \A i \in 1 .. m : all[i] = L[i] /\ L[i].name \in Nat /\ i \in 1 .. m + n
  BY <1>2, <1>3, <1>4, <1>5
<1>7. \A i \in 1 .. m + n : i \notin 1 .. m =>
         /\ i - m \in 1 .. n /\ all[i] = P[i - m] /\ P[i - m].name \in Nat
         /\ P[i - m].name >= start
  BY <1>1, <1>2, <1>3, <1>4, <1>5
<1>8. ASSUME NEW i \in 1 .. m + n, NEW j \in 1 .. m + n, i < j
      PROVE  /\ all[i].name <= all[j].name
             /\ i + 1 < j => all[i].name < all[j].name
  <2>1. CASE j \in 1 .. m
    <3>1. i \in 1 .. m
      BY <1>2, <1>3, <1>8, <2>1
    <3>2. QED
      BY <1>2, <1>6, <1>8, <2>1, <3>1
  <2>2. CASE i \in 1 .. m /\ j \notin 1 .. m
    <3>1. all[i].name \in Nat /\ all[i].name <= start /\ (i < m => all[i].name < start)
      BY <1>2, <1>6, <2>2
    <3>2. all[j].name \in Nat /\ all[j].name >= start /\ j - m \in 1 .. n
      BY <1>7, <2>2
    <3>3. ASSUME i + 1 < j
          PROVE  all[i].name < all[j].name
      <4>1. CASE i < m
        BY <3>1, <3>2, <4>1
      <4>2. CASE ~(i < m)
        <5>1. 1 \in 1 .. n /\ 1 < j - m
          BY <1>2, <1>3, <2>2, <3>2, <3>3, <4>2
        <5>2. P[1].name < P[j - m].name /\ P[1].name >= start /\ P[1].name \in Nat
          BY <1>1, <1>3, <1>5, <3>2, <5>1
        <5>3. all[j].name = P[j - m].name
          BY <1>7, <2>2
        <5>4. QED
          BY <3>1, <3>2, <5>2, <5>3
      <4>3. QED
        BY <4>1, <4>2
    <3>4. QED
      BY <3>1, <3>2, <3>3
  <2>3. CASE i \notin 1 .. m /\ j \notin 1 .. m
    <3>1. i - m \in 1 .. n /\ j - m \in 1 .. n /\ i - m < j - m
      BY <1>2, <1>7, <1>8, <2>3
    <3>2. P[i - m].name < P[j - m].name
      BY <1>1, <1>3, <3>1
    <3>3. all[i].name = P[i - m].name /\ all[j].name = P[j - m].name
          /\ P[i - m].name \in Nat /\ P[j - m].name \in Nat
      BY <1>7, <2>3
    <3>4. QED
      BY <3>2, <3>3
  <2>4. CASE i \notin 1 .. m /\ j \in 1 .. m
    BY <1>2, <1>3, <1>8, <2>4
  <2>5. QED
    BY <2>1, <2>2, <2>3, <2>4
<1>9. ASSUME n >= PageLength
      PROVE  /\ P[PageLength].name \in Names
             /\ \A i \in 1 .. m + n :
                  /\ all[i].name <= P[PageLength].name
                  /\ i < m + n => all[i].name < P[PageLength].name
  <2>1. n = PageLength /\ 1 \in 1 .. n /\ n \in 1 .. n /\ 1 < n
    BY <1>1, <1>3, <1>9, PageLengthAssumption
  <2>2. P[n] \in Version /\ P[1] \in Version
    BY <1>3, <2>1
  <2>3. P[n].name \in Names /\ P[n].name \in Nat /\ P[1].name \in Nat
    BY <1>5, <2>2
  <2>4. P[1].name < P[n].name /\ P[1].name >= start
    BY <1>1, <1>3, <2>1
  <2>5. ASSUME NEW i \in 1 .. m + n
        PROVE  /\ all[i].name <= P[n].name
               /\ i < m + n => all[i].name < P[n].name
    <3>1. CASE i \in 1 .. m
      <4>1. all[i].name \in Nat /\ all[i].name <= start
        BY <1>2, <1>6, <3>1
      <4>2. QED
        BY <2>3, <2>4, <4>1
    <3>2. CASE i \notin 1 .. m
      <4>1. i - m \in 1 .. n /\ all[i] = P[i - m]
        BY <1>7, <3>2
      <4>2. CASE i - m = n
        BY <1>2, <1>3, <2>3, <4>1, <4>2
      <4>3. CASE i - m < n
        BY <1>1, <1>3, <1>7, <2>1, <2>3, <3>2, <4>1, <4>3
      <4>4. QED
        BY <1>2, <1>3, <4>1, <4>2, <4>3
    <3>3. QED
      BY <3>1, <3>2
  <2>6. QED
    BY <2>1, <2>3, <2>5
<1>10. /\ all \in Seq(Version) /\ Len(all) = m + n
       /\ \A i, j \in DOMAIN all : i < j => all[i].name <= all[j].name
       /\ \A i, j \in DOMAIN all : i + 1 < j => all[i].name < all[j].name
  <2>1. \A i, j \in DOMAIN all : i < j => all[i].name <= all[j].name
    BY <1>4, <1>8
  <2>2. ASSUME NEW i \in DOMAIN all, NEW j \in DOMAIN all, i + 1 < j
        PROVE  all[i].name < all[j].name
    <3>1. i < j
      BY <1>2, <1>3, <1>4, <2>2
    <3>2. QED
      BY <1>4, <1>8, <2>2, <3>1
  <2>3. QED
    BY <1>4, <2>1, <2>2
<1>11. n >= PageLength =>
         LET next == P[PageLength].name IN
         /\ next \in Names
         /\ \A i \in DOMAIN all : all[i].name <= next /\ (i < Len(all) => all[i].name < next)
  BY <1>4, <1>9
<1>12. QED
  BY <1>10, <1>11 DEF all, L, P, m, n

\* A duplicate is older than the entry of its name that is kept, which is no
\* duplicate, or it is the same version, listed twice.
LEMMA DuplicatesOlder ==
  ASSUME NEW L \in Seq(Version),
         \A i, j \in DOMAIN L : i < j => L[i].name <= L[j].name,
         \A i, j \in DOMAIN L : i + 1 < j => L[i].name < L[j].name,
         NEW R \in SUBSET {L[i] : i \in Duplicates(L)}, NEW v \in R
  PROVE  \/ \E i \in DOMAIN L : L[i].name = v.name /\ L[i].time > v.time /\ L[i] \notin R
         \/ \E i, j \in DOMAIN L : i # j /\ L[i] = v /\ L[j] = v
<1>1. /\ Len(L) \in Nat /\ DOMAIN L = 1 .. Len(L)
      /\ \A i \in DOMAIN L : L[i] \in Version
  BY LenProperties, ElementOfSeq
<1>2. PICK i \in Duplicates(L) : v = L[i]
  OBVIOUS
<1>3. i \in DOMAIN L /\ i # Kept(L, L[i].name)
  BY DEF Duplicates
<1>4. PICK k \in DOMAIN L :
        /\ k = Kept(L, L[i].name) /\ k # i /\ L[k].name = L[i].name
        /\ L[i].time < L[k].time \/ L[i].time = L[k].time
  BY <1>3, KeptExists
<1>5. \A w \in Version : w.name \in Nat /\ w.time \in Nat /\ w = [name |-> w.name, time |-> w.time]
  BY BoundsAssumption DEF Version, Names
<1>6. CASE L[i].time = L[k].time
  BY <1>1, <1>2, <1>3, <1>4, <1>5, <1>6
<1>7. CASE L[i].time < L[k].time
  <2>1. ASSUME NEW j \in Duplicates(L), L[j] = L[k]
        PROVE  FALSE
    <3>1. j \in DOMAIN L /\ j # Kept(L, L[j].name)
      BY DEF Duplicates
    <3>2. j # k /\ j # i
      <4>1. j # k
        BY <1>4, <2>1, <3>1
      <4>2. j # i
        BY <1>1, <1>3, <1>5, <1>7, <2>1
      <4>3. QED
        BY <4>1, <4>2
    <3>3. L[i].name = L[k].name /\ L[j].name = L[k].name
      BY <1>4, <2>1
    <3>4. \E a, b \in {i, j, k} : a + 1 < b
      BY <1>1, <1>3, <1>4, <3>1, <3>2
    <3>5. PICK a \in DOMAIN L, b \in DOMAIN L :
            a + 1 < b /\ L[a].name = L[k].name /\ L[b].name = L[k].name
      BY <1>3, <1>4, <3>1, <3>3, <3>4
    <3>6. L[a].name < L[b].name
      BY <3>5
    <3>7. QED
      BY <1>1, <1>5, <3>5, <3>6
  <2>2. L[k] \notin R
    BY <2>1
  <2>3. L[k].time > v.time
    BY <1>1, <1>2, <1>3, <1>5, <1>7
  <2>4. QED
    BY <1>2, <1>4, <2>2, <2>3
<1>8. QED
  BY <1>4, <1>6, <1>7

\* At the start nothing is stored, and the script has not run.
LEMMA DedupeInitInv == DedupeInit => DedupeInv
<1> SUFFICES ASSUME DedupeInit
             PROVE  DedupeInv
    OBVIOUS
<1>1. DedupeTypeOK
  BY BoundsAssumption DEF DedupeInit, DedupeTypeOK
<1>2. ListedInOrder /\ OnlyDuplicates /\ NewestKept
  BY DEF DedupeInit, ListedInOrder, OnlyDuplicates, NewestKept
<1>3. QED
  BY <1>1, <1>2 DEF DedupeInv

\* The invariant but for its last part, which follows.
LEMMA KeptFollows ==
  ASSUME DedupeTypeOK', ListedInOrder', OnlyDuplicates'
  PROVE  DedupeInv'
<1>1. listed' \in Seq(Version) /\ removed' \in SUBSET {listed'[i] : i \in Duplicates(listed')}
  BY DEF DedupeTypeOK, OnlyDuplicates
<1>2. /\ \A i, j \in DOMAIN listed' : i < j => listed'[i].name <= listed'[j].name
      /\ \A i, j \in DOMAIN listed' : i + 1 < j => listed'[i].name < listed'[j].name
  BY DEF ListedInOrder
<1>3. NewestKept'
  BY <1>1, <1>2, DuplicatesOlder DEF NewestKept
<1>4. QED
  BY <1>3 DEF DedupeInv

\* A step that leaves the script alone, or only stops it, preserves what it knows.
LEMMA ScriptUndisturbed ==
  ASSUME DedupeTypeOK, ListedInOrder, OnlyDuplicates, DedupeTypeOK',
         UNCHANGED <<start, listed, removed>>,
         doomed' \subseteq doomed,
         scan' = "list" => scan \in {"idle", "list"},
         scan' = "idle" => scan = "idle"
  PROVE  DedupeInv'
<1>1. ListedInOrder'
  <2>1. CASE scan = "idle"
    BY <2>1 DEF ListedInOrder, OnlyDuplicates
  <2>2. CASE scan # "idle"
    BY <2>2 DEF ListedInOrder
  <2>3. QED
    BY <2>1, <2>2
<1>2. OnlyDuplicates'
  BY DEF OnlyDuplicates
<1>3. QED
  BY <1>1, <1>2, KeptFollows

\* Every step of the script and of the application preserves it.
LEMMA DedupeStepInv == DedupeInv /\ [DedupeNext]_dedupeVars => DedupeInv'
<1> SUFFICES ASSUME DedupeInv, [DedupeNext]_dedupeVars
             PROVE  DedupeInv'
    OBVIOUS
<1>0. DedupeTypeOK /\ ListedInOrder /\ OnlyDuplicates
  BY DEF DedupeInv
<1>1. ASSUME NEW n \in Names, PutVersion(n)
      PROVE  DedupeInv'
  <2>1. now + 1 \in 1 .. MaxTime
    BY <1>0, <1>1, BoundsAssumption DEF PutVersion, DedupeTypeOK
  <2>2. DedupeTypeOK'
    BY <1>0, <1>1, <2>1, BoundsAssumption DEF PutVersion, DedupeTypeOK, Version
  <2>3. QED
    BY <1>0, <1>1, <2>2, ScriptUndisturbed DEF PutVersion
<1>2. ASSUME NEW n \in Names, DropVersion(n)
      PROVE  DedupeInv'
  <2>1. DedupeTypeOK'
    BY <1>0, <1>2 DEF DropVersion, DedupeTypeOK
  <2>2. QED
    BY <1>0, <1>2, <2>1, ScriptUndisturbed DEF DropVersion
<1>3. CASE StartScript
  <2>1. DedupeTypeOK'
    BY <1>0, <1>3 DEF StartScript, DedupeTypeOK
  <2>2. QED
    BY <1>0, <1>3, <2>1, ScriptUndisturbed DEF StartScript
<1>4. CASE ListNames
  <2>1. /\ scan = "list" /\ bucket \subseteq Version /\ start \in Nat
        /\ listed \in Seq(Version) /\ removed = {} /\ doomed = {}
    BY <1>0, <1>4, BoundsAssumption DEF ListNames, DedupeTypeOK, OnlyDuplicates, Names
  <2>2. /\ listed' = listed \o NextPage
        /\ UNCHANGED <<bucket, now, execute, removed>>
    BY <1>4 DEF ListNames
  <2>3. /\ listed' \in Seq(Version)
        /\ \A i, j \in DOMAIN listed' : i < j => listed'[i].name <= listed'[j].name
        /\ \A i, j \in DOMAIN listed' : i + 1 < j => listed'[i].name < listed'[j].name
        /\ Len(NextPage) >= PageLength =>
             LET next == NextPage[PageLength].name IN
             /\ next \in Names
             /\ \A i \in DOMAIN listed' :
                  listed'[i].name <= next /\ (i < Len(listed') => listed'[i].name < next)
    BY <1>0, <2>1, <2>2, PageListed
  <2>4. Len(NextPage) \in Nat /\ Duplicates(listed') \subseteq DOMAIN listed'
    BY <2>1, PageOfNames, LenProperties DEF Duplicates
  <2>5. CASE Len(NextPage) < PageLength
    <3>1. /\ scan' \in {"delete", "ended"} /\ start' = start
          /\ doomed' \subseteq Duplicates(listed')
      BY <1>4, <2>5 DEF ListNames
    <3>2. DedupeTypeOK'
      BY <1>0, <2>2, <2>3, <2>4, <3>1 DEF DedupeTypeOK
    <3>3. ListedInOrder'
      BY <2>3, <3>1 DEF ListedInOrder
    <3>4. OnlyDuplicates'
      BY <2>1, <2>2, <3>1 DEF OnlyDuplicates
    <3>5. QED
      BY <3>2, <3>3, <3>4, KeptFollows
  <2>6. CASE ~(Len(NextPage) < PageLength)
    <3>1. /\ start' = NextPage[PageLength].name
          /\ UNCHANGED <<scan, doomed>>
      BY <1>4, <2>6 DEF ListNames
    <3>2. Len(NextPage) >= PageLength
      BY <2>4, <2>6, PageLengthAssumption
    <3>3. DedupeTypeOK'
      BY <1>0, <2>1, <2>2, <2>3, <3>1, <3>2 DEF DedupeTypeOK
    <3>4. ListedInOrder'
      BY <2>3, <3>1, <3>2 DEF ListedInOrder
    <3>5. OnlyDuplicates'
      BY <2>1, <2>2, <3>1 DEF OnlyDuplicates
    <3>6. QED
      BY <3>3, <3>4, <3>5, KeptFollows
  <2>7. QED
    BY <2>5, <2>6
<1>5. CASE DeleteNext
  <2>1. PICK i \in doomed :
          /\ doomed' = doomed \ {i}
          /\ \/ bucket' = bucket \ {listed[i]} /\ removed' = removed \cup {listed[i]}
             \/ UNCHANGED <<bucket, removed>>
    BY <1>5 DEF DeleteNext
  <2>2. /\ scan = "delete" /\ scan' \in {"delete", "ended"}
        /\ UNCHANGED <<now, start, listed, execute>>
    BY <1>5 DEF DeleteNext
  <2>3. i \in Duplicates(listed) /\ listed[i] \in Version
    BY <1>0, ElementOfSeq, LenProperties DEF OnlyDuplicates, DedupeTypeOK
  <2>4. DedupeTypeOK'
    BY <1>0, <2>1, <2>2, <2>3 DEF DedupeTypeOK
  <2>5. ListedInOrder'
    BY <1>0, <2>2 DEF ListedInOrder
  <2>6. OnlyDuplicates'
    BY <1>0, <2>1, <2>2, <2>3 DEF OnlyDuplicates
  <2>7. QED
    BY <2>4, <2>5, <2>6, KeptFollows
<1>6. CASE ScriptDies
  <2>1. DedupeTypeOK'
    BY <1>0, <1>6 DEF ScriptDies, DedupeTypeOK
  <2>2. QED
    BY <1>0, <1>6, <2>1, ScriptUndisturbed DEF ScriptDies
<1>7. CASE UNCHANGED dedupeVars
  <2>1. DedupeTypeOK'
    BY <1>0, <1>7 DEF dedupeVars, DedupeTypeOK
  <2>2. QED
    BY <1>0, <1>7, <2>1, ScriptUndisturbed DEF dedupeVars
<1>8. QED
  BY <1>1, <1>2, <1>3, <1>4, <1>5, <1>6, <1>7 DEF DedupeNext

\* The invariant of the script holds in every reachable state.
THEOREM DedupeInvariant == DedupeSpec => []DedupeInv
<1>1. QED
  BY DedupeInitInv, DedupeStepInv, PTL DEF DedupeSpec

\* The script leaves a newer version of whatever it deletes, for any bucket and
\* page length, with uploads and deletions between its pages; a version that was
\* listed twice is the exception.
THEOREM NewestStays == DedupeSpec => []NewestKept
<1>1. DedupeInv => NewestKept
  BY DEF DedupeInv
<1>2. QED
  BY <1>1, DedupeInvariant, PTL

=============================================================================
