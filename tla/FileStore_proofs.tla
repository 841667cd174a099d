---------------------------- MODULE FileStore_proofs ----------------------------
(***************************************************************************)
(* Theorems of FileStore for every set of users, files and requests, with   *)
(* every call, overlap and failure.  SharedInv is inductive; the properties  *)
(* of rows and objects are consequences of it.                              *)
(***************************************************************************)
EXTENDS FileStore, TLAPS

\* An empty store satisfies the invariant.
LEMMA InitShared == Init => SharedInv
<1> SUFFICES ASSUME Init PROVE SharedInv
    OBVIOUS
<1>1. TypeOK
  BY DEF Init, TypeOK
<1>2. KnownObjects /\ SavesKnownRow /\ OnlyCondemnedDeleted
  BY DEF Init, KnownObjects, SavesKnownRow, OnlyCondemnedDeleted, Deletions
<1>3. KeptUntilCondemned /\ CopiesHaveObject /\ DoomedUnneeded /\ ObjectsReachable
  BY DEF Init, KeptUntilCondemned, CopiesHaveObject, DoomedUnneeded, ObjectsReachable,
         Copies
<1>4. QED
  BY <1>1, <1>2, <1>3 DEF SharedInv

\* Every step of a handler, of a client and of the nightly job, and every failure,
\* preserves it.
LEMMA StepShared == SharedInv /\ [Next]_vars => SharedInv'
<1> SUFFICES ASSUME SharedInv, [Next]_vars
             PROVE  SharedInv'
    OBVIOUS
<1>a. /\ TypeOK /\ KnownObjects /\ SavesKnownRow /\ OnlyCondemnedDeleted
      /\ KeptUntilCondemned /\ CopiesHaveObject /\ DoomedUnneeded /\ ObjectsReachable
  BY DEF SharedInv
<1> USE <1>a, OwnerAssumption, NoFileAssumption
    DEF TypeOK, Awaits, Deletions, reqVars, b2Vars, histVars, Exists, RowsOf,
        ObjectsOf, Begin, Answer
<1>1. ASSUME NEW r \in Requests, NEW f \in Files, UploadObject(r, f)
      PROVE  SharedInv'
  <2> USE <1>1 DEF UploadObject, Fresh
  <2>1. TypeOK'
    BY DEF TypeOK
  <2>2. KnownObjects'
    BY DEF KnownObjects
  <2>3. SavesKnownRow'
    BY DEF SavesKnownRow
  <2>4. OnlyCondemnedDeleted'
    BY DEF OnlyCondemnedDeleted
  <2>5. KeptUntilCondemned'
    BY DEF KeptUntilCondemned
  <2>6. CopiesHaveObject'
    BY DEF CopiesHaveObject, Copies, Deletes
  <2>7. DoomedUnneeded'
    BY DEF DoomedUnneeded
  <2>8. ObjectsReachable'
    BY DEF ObjectsReachable, OnlyCondemnedDeleted, SavesKnownRow
  <2>9. QED
    BY <2>1, <2>2, <2>3, <2>4, <2>5, <2>6, <2>7, <2>8 DEF SharedInv
<1>2. ASSUME NEW r \in Requests, NEW f \in Files, UpdateRead(r, f)
      PROVE  SharedInv'
  <2> USE <1>2 DEF UpdateRead
  <2>1. TypeOK'
    BY DEF TypeOK
  <2>2. KnownObjects'
    BY DEF KnownObjects
  <2>3. SavesKnownRow'
    BY DEF SavesKnownRow
  <2>4. OnlyCondemnedDeleted'
    BY DEF OnlyCondemnedDeleted
  <2>5. KeptUntilCondemned'
    BY DEF KeptUntilCondemned
  <2>6. CopiesHaveObject'
    BY DEF CopiesHaveObject, Copies, Deletes
  <2>7. DoomedUnneeded'
    BY DEF DoomedUnneeded
  <2>8. ObjectsReachable'
    BY DEF ObjectsReachable, OnlyCondemnedDeleted, SavesKnownRow
  <2>9. QED
    BY <2>1, <2>2, <2>3, <2>4, <2>5, <2>6, <2>7, <2>8 DEF SharedInv
<1>3. ASSUME NEW r \in Requests, NEW u \in Users, NEW f \in Files, CopyRead(r, u, f)
      PROVE  SharedInv'
  <2> USE <1>3 DEF CopyRead
  <2>1. TypeOK'
    BY DEF TypeOK
  <2>2. KnownObjects'
    BY DEF KnownObjects
  <2>3. SavesKnownRow'
    BY DEF SavesKnownRow
  <2>4. OnlyCondemnedDeleted'
    BY DEF OnlyCondemnedDeleted, Deletes
  <2>5. KeptUntilCondemned'
    BY DEF KeptUntilCondemned
  <2>6. CopiesHaveObject'
    BY DEF CopiesHaveObject, Copies, Deletes, KnownObjects, KeptUntilCondemned, SavesKnownRow
  <2>7. DoomedUnneeded'
    BY DEF DoomedUnneeded
  <2>8. ObjectsReachable'
    BY DEF ObjectsReachable, OnlyCondemnedDeleted, SavesKnownRow
  <2>9. QED
    BY <2>1, <2>2, <2>3, <2>4, <2>5, <2>6, <2>7, <2>8 DEF SharedInv
<1>4. ASSUME NEW r \in Requests, NEW u \in Users, NEW S \in SUBSET Files,
             DeleteRead(r, u, S)
      PROVE  SharedInv'
  <2> USE <1>4 DEF DeleteRead, Condemn
  <2>1. TypeOK'
    BY DEF TypeOK
  <2>2. KnownObjects'
    BY DEF KnownObjects
  <2>3. SavesKnownRow'
    BY DEF SavesKnownRow
  <2>4. OnlyCondemnedDeleted'
    BY DEF OnlyCondemnedDeleted
  <2>5. KeptUntilCondemned'
    BY DEF KeptUntilCondemned
  <2>6. CopiesHaveObject'
    BY DEF CopiesHaveObject, Copies, Deletes
  <2>7. DoomedUnneeded'
    BY DEF DoomedUnneeded
  <2>8. ObjectsReachable'
    BY DEF ObjectsReachable, OnlyCondemnedDeleted, SavesKnownRow
  <2>9. QED
    BY <2>1, <2>2, <2>3, <2>4, <2>5, <2>6, <2>7, <2>8 DEF SharedInv
<1>5. ASSUME NEW r \in Requests, NEW u \in Users, NEW S \in SUBSET Files,
             FolderDeleteRead(r, u, S)
      PROVE  SharedInv'
  <2> USE <1>5 DEF FolderDeleteRead, Condemn
  <2>1. TypeOK'
    BY DEF TypeOK
  <2>2. KnownObjects'
    BY DEF KnownObjects
  <2>3. SavesKnownRow'
    BY DEF SavesKnownRow
  <2>4. OnlyCondemnedDeleted'
    BY DEF OnlyCondemnedDeleted
  <2>5. KeptUntilCondemned'
    BY DEF KeptUntilCondemned
  <2>6. CopiesHaveObject'
    BY DEF CopiesHaveObject, Copies, Deletes
  <2>7. DoomedUnneeded'
    BY DEF DoomedUnneeded
  <2>8. ObjectsReachable'
    BY DEF ObjectsReachable, OnlyCondemnedDeleted, SavesKnownRow
  <2>9. QED
    BY <2>1, <2>2, <2>3, <2>4, <2>5, <2>6, <2>7, <2>8 DEF SharedInv
<1>6. ASSUME NEW r \in Requests, NEW u \in Users,
             NEW await \in {"account.files", "account.user"}, AccountDeleteRead(r, u, await)
      PROVE  SharedInv'
  <2> USE <1>6 DEF AccountDeleteRead, Condemn
  <2>1. TypeOK'
    BY DEF TypeOK
  <2>2. KnownObjects'
    BY DEF KnownObjects
  <2>3. SavesKnownRow'
    BY DEF SavesKnownRow
  <2>4. OnlyCondemnedDeleted'
    BY DEF OnlyCondemnedDeleted
  <2>5. KeptUntilCondemned'
    BY DEF KeptUntilCondemned
  <2>6. CopiesHaveObject'
    BY DEF CopiesHaveObject, Copies, Deletes
  <2>7. DoomedUnneeded'
    BY DEF DoomedUnneeded
  <2>8. ObjectsReachable'
    BY DEF ObjectsReachable, OnlyCondemnedDeleted, SavesKnownRow
  <2>9. QED
    BY <2>1, <2>2, <2>3, <2>4, <2>5, <2>6, <2>7, <2>8 DEF SharedInv
<1>7. ASSUME NEW r \in Requests, UploadRow(r)
      PROVE  SharedInv'
  <2> USE <1>7 DEF UploadRow
  <2>a. PICK f \in batch[r] : SaveRow(f, source[r], by[r])
    OBVIOUS
  <2>b. /\ f \in Files /\ source[r] = f /\ row[f] = "none" /\ f \notin condemned
        /\ source[r] \in objects \cap thumbs
        /\ \A g \in Files : row[g] # "none" => path[g] # f
        /\ \A q \in Requests \ {r} : f \notin batch[q]
    BY DEF SavesKnownRow, OnlyCondemnedDeleted, KnownObjects
  <2>1. TypeOK'
    BY <2>a, <2>b DEF TypeOK, SaveRow
  <2>2. KnownObjects'
    BY <2>a, <2>b DEF KnownObjects, SaveRow
  <2>3. SavesKnownRow'
    BY <2>a, <2>b DEF SavesKnownRow, SaveRow
  <2>4. OnlyCondemnedDeleted'
    BY <2>a, <2>b DEF OnlyCondemnedDeleted, SaveRow
  <2>5. KeptUntilCondemned'
    BY <2>a, <2>b DEF KeptUntilCondemned, SaveRow
  <2>6. CopiesHaveObject'
    BY <2>a, <2>b DEF CopiesHaveObject, Copies, Deletes, SaveRow
  <2>7. DoomedUnneeded'
    BY <2>a, <2>b DEF DoomedUnneeded, SaveRow, OnlyCondemnedDeleted
  <2>8. ObjectsReachable'
    BY <2>a, <2>b DEF ObjectsReachable, SaveRow, OnlyCondemnedDeleted, SavesKnownRow
  <2>9. QED
    BY <2>1, <2>2, <2>3, <2>4, <2>5, <2>6, <2>7, <2>8 DEF SharedInv
<1>8. ASSUME NEW r \in Requests, CopySkip(r) \/ CopyCheck(r)
      PROVE  SharedInv'
  <2> USE <1>8 DEF CopySkip, CopyCheck
  <2>1. TypeOK'
    BY DEF TypeOK
  <2>2. KnownObjects'
    BY DEF KnownObjects
  <2>3. SavesKnownRow'
    BY DEF SavesKnownRow
  <2>4. OnlyCondemnedDeleted'
    BY DEF OnlyCondemnedDeleted
  <2>5. KeptUntilCondemned'
    BY DEF KeptUntilCondemned
  <2>6. CopiesHaveObject'
    BY DEF CopiesHaveObject, Copies, Deletes
  <2>7. DoomedUnneeded'
    BY DEF DoomedUnneeded
  <2>8. ObjectsReachable'
    BY DEF ObjectsReachable, OnlyCondemnedDeleted, SavesKnownRow
  <2>9. QED
    BY <2>1, <2>2, <2>3, <2>4, <2>5, <2>6, <2>7, <2>8 DEF SharedInv
<1>9. ASSUME NEW r \in Requests, CopyRow(r)
      PROVE  SharedInv'
  <2> USE <1>9 DEF CopyRow
  <2>a. PICK f \in Files : Fresh(f) /\ SaveRow(f, source[r], by[r])
    OBVIOUS
  <2>b. /\ f \in Files /\ source[r] \in Files /\ row[f] = "none" /\ f \notin condemned
        /\ row[source[r]] # "none" /\ source[r] # f
        /\ \A q \in Requests : f \notin batch[q]
    BY <2>a DEF Fresh, SavesKnownRow, OnlyCondemnedDeleted, KnownObjects
  <2>c. source[r] \notin crossed =>
          source[r] \in objects \cap thumbs /\ \A q \in Requests : ~Deletes(q, source[r])
    BY <2>b DEF CopiesHaveObject, Copies
  <2>1. TypeOK'
    BY <2>a, <2>b DEF TypeOK, SaveRow
  <2>2. KnownObjects'
    BY <2>a, <2>b DEF KnownObjects, SaveRow
  <2>3. SavesKnownRow'
    BY <2>a, <2>b DEF SavesKnownRow, SaveRow
  <2>4. OnlyCondemnedDeleted'
    BY <2>a, <2>b DEF OnlyCondemnedDeleted, SaveRow
  <2>5. KeptUntilCondemned'
    BY <2>a, <2>b, <2>c DEF KeptUntilCondemned, SaveRow
  <2>6. CopiesHaveObject'
    BY <2>a, <2>b, <2>c DEF CopiesHaveObject, Copies, Deletes, SaveRow
  <2>7. DoomedUnneeded'
    BY <2>a, <2>b, <2>c DEF DoomedUnneeded, SaveRow, Deletes, OnlyCondemnedDeleted
  <2>8. ObjectsReachable'
    BY <2>a, <2>b DEF ObjectsReachable, SaveRow, OnlyCondemnedDeleted, SavesKnownRow
  <2>9. QED
    BY <2>1, <2>2, <2>3, <2>4, <2>5, <2>6, <2>7, <2>8 DEF SharedInv
<1>10. ASSUME NEW r \in Requests, UpdateSave(r)
       PROVE  SharedInv'
  <2> USE <1>10 DEF UpdateSave
  <2>a. PICK f \in batch[r] : SaveRow(f, source[r], by[r]) /\ Revive({f})
    OBVIOUS
  <2>b. /\ f \in Files /\ source[r] \in Files /\ row[f] # "none"
        /\ path[f] = source[r] /\ row[source[r]] # "none"
    BY DEF SavesKnownRow, KnownObjects
  <2>c. path' = path /\ crossed \subseteq crossed'
    BY <2>a, <2>b DEF SaveRow, Revive
  <2>1. TypeOK'
    BY <2>a, <2>b, <2>c DEF TypeOK, SaveRow, Revive
  <2>2. KnownObjects'
    BY <2>a, <2>b, <2>c DEF KnownObjects, SaveRow, Revive
  <2>3. SavesKnownRow'
    BY <2>a, <2>b, <2>c DEF SavesKnownRow, SaveRow, Revive
  <2>4. OnlyCondemnedDeleted'
    BY <2>a, <2>b, <2>c DEF OnlyCondemnedDeleted, SaveRow, Revive
  <2>5. KeptUntilCondemned'
    BY <2>a, <2>b, <2>c DEF KeptUntilCondemned, SaveRow, Revive
  <2>6. CopiesHaveObject'
    BY <2>a, <2>b, <2>c DEF CopiesHaveObject, Copies, Deletes, SaveRow, Revive
  <2>7. DoomedUnneeded'
    BY <2>a, <2>b, <2>c DEF DoomedUnneeded, SaveRow, Revive, OnlyCondemnedDeleted
  <2>8. ObjectsReachable'
    BY <2>a, <2>b, <2>c DEF ObjectsReachable, SaveRow, Revive, OnlyCondemnedDeleted, SavesKnownRow
  <2>9. QED
    BY <2>1, <2>2, <2>3, <2>4, <2>5, <2>6, <2>7, <2>8 DEF SharedInv
<1>11. ASSUME NEW r \in Requests, NEW f \in Files, CountReferences(r, f)
       PROVE  SharedInv'
  <2> USE <1>11 DEF CountReferences, HasOtherActiveReferences
  <2>1. TypeOK'
    BY DEF TypeOK, SavesKnownRow, OnlyCondemnedDeleted, KnownObjects
  <2>2. KnownObjects'
    BY DEF KnownObjects
  <2>3. SavesKnownRow'
    BY DEF SavesKnownRow
  <2>4. OnlyCondemnedDeleted'
    BY DEF OnlyCondemnedDeleted
  <2>5. KeptUntilCondemned'
    BY DEF KeptUntilCondemned
  <2>6. CopiesHaveObject'
    BY DEF CopiesHaveObject, Copies, Deletes
  <2>7. DoomedUnneeded'
    BY DEF DoomedUnneeded, OnlyCondemnedDeleted
  <2>8. ObjectsReachable'
    BY DEF ObjectsReachable, OnlyCondemnedDeleted, SavesKnownRow, CountsDoomedRow
  <2>9. QED
    BY <2>1, <2>2, <2>3, <2>4, <2>5, <2>6, <2>7, <2>8 DEF SharedInv
<1>12. ASSUME NEW r \in Requests, NEW f \in Files, DeleteObject(r, f)
       PROVE  SharedInv'
  <2> USE <1>12 DEF DeleteObject
  <2>1. TypeOK'
    BY DEF TypeOK, OnlyCondemnedDeleted, KnownObjects
  <2>2. KnownObjects'
    BY DEF KnownObjects, OnlyCondemnedDeleted, KnownObjects
  <2>3. SavesKnownRow'
    BY DEF SavesKnownRow, OnlyCondemnedDeleted, KnownObjects
  <2>4. OnlyCondemnedDeleted'
    BY DEF OnlyCondemnedDeleted, OnlyCondemnedDeleted, KnownObjects
  <2>5. KeptUntilCondemned'
    BY DEF KeptUntilCondemned, OnlyCondemnedDeleted, KnownObjects, DoomedUnneeded
  <2>6. CopiesHaveObject'
    BY DEF CopiesHaveObject, Copies, Deletes, OnlyCondemnedDeleted, KnownObjects
  <2>7. DoomedUnneeded'
    BY DEF DoomedUnneeded, OnlyCondemnedDeleted, KnownObjects
  <2>8. ObjectsReachable'
    BY DEF ObjectsReachable, OnlyCondemnedDeleted, SavesKnownRow, OnlyCondemnedDeleted, KnownObjects
  <2>9. QED
    BY <2>1, <2>2, <2>3, <2>4, <2>5, <2>6, <2>7, <2>8 DEF SharedInv
<1>13. ASSUME NEW r \in Requests, DeleteRows(r)
       PROVE  SharedInv'
  <2> USE <1>13 DEF DeleteRows, Remove
  <2>1. TypeOK'
    BY DEF TypeOK
  <2>2. KnownObjects'
    BY DEF KnownObjects
  <2>3. SavesKnownRow'
    BY DEF SavesKnownRow
  <2>4. OnlyCondemnedDeleted'
    BY DEF OnlyCondemnedDeleted
  <2>5. KeptUntilCondemned'
    BY DEF KeptUntilCondemned
  <2>6. CopiesHaveObject'
    BY DEF CopiesHaveObject, Copies, Deletes
  <2>7. DoomedUnneeded'
    BY DEF DoomedUnneeded
  <2>8. ObjectsReachable'
    BY DEF ObjectsReachable, OnlyCondemnedDeleted, SavesKnownRow
  <2>9. QED
    BY <2>1, <2>2, <2>3, <2>4, <2>5, <2>6, <2>7, <2>8 DEF SharedInv
<1>14. ASSUME NEW r \in Requests, AccountDeleteFiles(r)
       PROVE  SharedInv'
  <2> USE <1>14 DEF AccountDeleteFiles, Remove
  <2>1. TypeOK'
    BY DEF TypeOK
  <2>2. KnownObjects'
    BY DEF KnownObjects
  <2>3. SavesKnownRow'
    BY DEF SavesKnownRow
  <2>4. OnlyCondemnedDeleted'
    BY DEF OnlyCondemnedDeleted
  <2>5. KeptUntilCondemned'
    BY DEF KeptUntilCondemned
  <2>6. CopiesHaveObject'
    BY DEF CopiesHaveObject, Copies, Deletes
  <2>7. DoomedUnneeded'
    BY DEF DoomedUnneeded
  <2>8. ObjectsReachable'
    BY DEF ObjectsReachable, OnlyCondemnedDeleted, SavesKnownRow
  <2>9. QED
    BY <2>1, <2>2, <2>3, <2>4, <2>5, <2>6, <2>7, <2>8 DEF SharedInv
<1>15. ASSUME NEW r \in Requests, AccountDeleteUser(r)
       PROVE  SharedInv'
  <2> USE <1>15 DEF AccountDeleteUser, Remove
  <2>1. TypeOK'
    BY DEF TypeOK
  <2>2. KnownObjects'
    BY DEF KnownObjects
  <2>3. SavesKnownRow'
    BY DEF SavesKnownRow
  <2>4. OnlyCondemnedDeleted'
    BY DEF OnlyCondemnedDeleted
  <2>5. KeptUntilCondemned'
    BY DEF KeptUntilCondemned
  <2>6. CopiesHaveObject'
    BY DEF CopiesHaveObject, Copies, Deletes
  <2>7. DoomedUnneeded'
    BY DEF DoomedUnneeded
  <2>8. ObjectsReachable'
    BY DEF ObjectsReachable, OnlyCondemnedDeleted, SavesKnownRow
  <2>9. QED
    BY <2>1, <2>2, <2>3, <2>4, <2>5, <2>6, <2>7, <2>8 DEF SharedInv
<1>16. ASSUME NEW r \in Requests, Abort(r)
       PROVE  SharedInv'
  <2> USE <1>16 DEF Abort
  <2>1. TypeOK'
    BY DEF TypeOK, SavesKnownRow, OnlyCondemnedDeleted, KnownObjects
  <2>2. KnownObjects'
    BY DEF KnownObjects
  <2>3. SavesKnownRow'
    BY DEF SavesKnownRow
  <2>4. OnlyCondemnedDeleted'
    BY DEF OnlyCondemnedDeleted
  <2>5. KeptUntilCondemned'
    BY DEF KeptUntilCondemned
  <2>6. CopiesHaveObject'
    BY DEF CopiesHaveObject, Copies, Deletes
  <2>7. DoomedUnneeded'
    BY DEF DoomedUnneeded
  <2>8. ObjectsReachable'
    BY DEF ObjectsReachable, OnlyCondemnedDeleted, SavesKnownRow
  <2>9. QED
    BY <2>1, <2>2, <2>3, <2>4, <2>5, <2>6, <2>7, <2>8 DEF SharedInv
<1>17. ASSUME NEW u \in Users, NEW S \in SUBSET Files, MoveToTrash(u, S)
       PROVE  SharedInv'
  <2> USE <1>17 DEF MoveToTrash, SoftDelete
  <2>1. TypeOK'
    BY DEF TypeOK
  <2>2. KnownObjects'
    BY DEF KnownObjects
  <2>3. SavesKnownRow'
    BY DEF SavesKnownRow
  <2>4. OnlyCondemnedDeleted'
    BY DEF OnlyCondemnedDeleted
  <2>5. KeptUntilCondemned'
    BY DEF KeptUntilCondemned
  <2>6. CopiesHaveObject'
    BY DEF CopiesHaveObject, Copies, Deletes
  <2>7. DoomedUnneeded'
    BY DEF DoomedUnneeded
  <2>8. ObjectsReachable'
    BY DEF ObjectsReachable, OnlyCondemnedDeleted, SavesKnownRow
  <2>9. QED
    BY <2>1, <2>2, <2>3, <2>4, <2>5, <2>6, <2>7, <2>8 DEF SharedInv
<1>18. ASSUME NEW u \in Users, NEW S \in SUBSET Files, RestoreFiles(u, S)
       PROVE  SharedInv'
  <2> USE <1>18 DEF RestoreFiles, Restore, Revive
  <2>1. TypeOK'
    BY DEF TypeOK
  <2>2. KnownObjects'
    BY DEF KnownObjects
  <2>3. SavesKnownRow'
    BY DEF SavesKnownRow
  <2>4. OnlyCondemnedDeleted'
    BY DEF OnlyCondemnedDeleted
  <2>5. KeptUntilCondemned'
    BY DEF KeptUntilCondemned
  <2>6. CopiesHaveObject'
    BY DEF CopiesHaveObject, Copies, Deletes
  <2>7. DoomedUnneeded'
    BY DEF DoomedUnneeded, OnlyCondemnedDeleted
  <2>8. ObjectsReachable'
    BY DEF ObjectsReachable, OnlyCondemnedDeleted, SavesKnownRow
  <2>9. QED
    BY <2>1, <2>2, <2>3, <2>4, <2>5, <2>6, <2>7, <2>8 DEF SharedInv
<1>19. ASSUME NEW f \in Files, RetentionPasses(f)
       PROVE  SharedInv'
  <2> USE <1>19 DEF RetentionPasses
  <2>1. TypeOK'
    BY DEF TypeOK
  <2>2. KnownObjects'
    BY DEF KnownObjects
  <2>3. SavesKnownRow'
    BY DEF SavesKnownRow
  <2>4. OnlyCondemnedDeleted'
    BY DEF OnlyCondemnedDeleted
  <2>5. KeptUntilCondemned'
    BY DEF KeptUntilCondemned
  <2>6. CopiesHaveObject'
    BY DEF CopiesHaveObject, Copies, Deletes
  <2>7. DoomedUnneeded'
    BY DEF DoomedUnneeded
  <2>8. ObjectsReachable'
    BY DEF ObjectsReachable, OnlyCondemnedDeleted, SavesKnownRow
  <2>9. QED
    BY <2>1, <2>2, <2>3, <2>4, <2>5, <2>6, <2>7, <2>8 DEF SharedInv
<1>20. ASSUME NightFalls
       PROVE  SharedInv'
  <2> USE <1>20 DEF NightFalls
  <2>1. TypeOK'
    BY DEF TypeOK
  <2>2. KnownObjects'
    BY DEF KnownObjects
  <2>3. SavesKnownRow'
    BY DEF SavesKnownRow
  <2>4. OnlyCondemnedDeleted'
    BY DEF OnlyCondemnedDeleted
  <2>5. KeptUntilCondemned'
    BY DEF KeptUntilCondemned
  <2>6. CopiesHaveObject'
    BY DEF CopiesHaveObject, Copies, Deletes
  <2>7. DoomedUnneeded'
    BY DEF DoomedUnneeded
  <2>8. ObjectsReachable'
    BY DEF ObjectsReachable, OnlyCondemnedDeleted, SavesKnownRow
  <2>9. QED
    BY <2>1, <2>2, <2>3, <2>4, <2>5, <2>6, <2>7, <2>8 DEF SharedInv
<1>21. ASSUME PurgeExpiredTrash
       PROVE  SharedInv'
  <2> USE <1>21 DEF PurgeExpiredTrash, ExpiredFiles, Remove
  <2>1. TypeOK'
    BY DEF TypeOK
  <2>2. KnownObjects'
    BY DEF KnownObjects
  <2>3. SavesKnownRow'
    BY DEF SavesKnownRow
  <2>4. OnlyCondemnedDeleted'
    BY DEF OnlyCondemnedDeleted
  <2>5. KeptUntilCondemned'
    BY DEF KeptUntilCondemned
  <2>6. CopiesHaveObject'
    BY DEF CopiesHaveObject, Copies, Deletes
  <2>7. DoomedUnneeded'
    BY DEF DoomedUnneeded
  <2>8. ObjectsReachable'
    BY DEF ObjectsReachable, OnlyCondemnedDeleted, SavesKnownRow
  <2>9. QED
    BY <2>1, <2>2, <2>3, <2>4, <2>5, <2>6, <2>7, <2>8 DEF SharedInv
<1>22. ASSUME UNCHANGED vars
       PROVE  SharedInv'
  BY <1>22 DEF vars, SharedInv, KnownObjects, SavesKnownRow, OnlyCondemnedDeleted,
               KeptUntilCondemned, CopiesHaveObject, DoomedUnneeded, ObjectsReachable,
               Copies, Deletes
<1>23. QED
  BY <1>1, <1>2, <1>3, <1>4, <1>5, <1>6, <1>7, <1>8, <1>9, <1>10, <1>11, <1>12,
     <1>13, <1>14, <1>15, <1>16, <1>17, <1>18, <1>19, <1>20, <1>21, <1>22
  DEF Next, NewRequest, HandlerStep, Waiting

\* The inductive invariant holds in every state the file store can reach.
THEOREM SharedInvariant == Spec => []SharedInv
BY InitShared, StepShared, PTL DEF Spec

\* Rows, objects and handlers always have their types.
THEOREM TypeCorrect == Spec => []TypeOK
<1>1. SharedInv => TypeOK
  BY DEF SharedInv
<1>2. QED
  BY <1>1, SharedInvariant, PTL

\* A file in a library, whose deletion nobody asked for, has its object, also when it
\* is shared and other users delete their rows of it, unless the object's deletion
\* crossed a copy, a returning row, or a row it did not count.
THEOREM SharedFilesKept == Spec => []UncrossedRowHasObject
<1>1. SharedInv => UncrossedRowHasObject
  BY DEF SharedInv, KeptUntilCondemned, UncrossedRowHasObject
<1>2. QED
  BY <1>1, SharedInvariant, PTL

\* An object that no failure, no two deletions counting each other's rows and no
\* account deletion left behind has a row once nothing runs.
THEOREM NothingLeaks == Spec => []NoLeakedObject
<1>1. SharedInv => NoLeakedObject
  BY DEF SharedInv, ObjectsReachable, NoLeakedObject
<1>2. QED
  BY <1>1, SharedInvariant, PTL

\* A file keeps its object until the permanent deletion of some row of that object is
\* asked for, whatever overlaps and fails.
THEOREM UntouchedFilesKept == Spec => []UntouchedRowHasObject
<1>1. SharedInv => UntouchedRowHasObject
  <2> SUFFICES ASSUME SharedInv, NEW f \in Files, row[f] = "active",
                      path[f] \notin ObjectsOf(condemned)
               PROVE  path[f] \in objects \cap thumbs
    BY DEF UntouchedRowHasObject
  <2>1. f \notin condemned /\ path[f] \notin crossed
    BY DEF SharedInv, OnlyCondemnedDeleted, ObjectsOf
  <2>2. QED
    BY <2>1 DEF SharedInv, KeptUntilCondemned
<1>2. QED
  BY <1>1, SharedInvariant, PTL

=============================================================================
