------------------------- MODULE UploadSessions_proofs -------------------------
(***************************************************************************)
(* Theorems of UploadSessions for every set of sessions, parts and          *)
(* requests.  UploadInv and RecordingInv are inductive; each theorem is one  *)
(* conjunct of them.                                                        *)
(***************************************************************************)
EXTENDS UploadSessions, TLAPS

\* Nothing exists at the start, so the invariant holds.
LEMMA InitInv == Init => UploadInv
BY NoSessionAssumption
   DEF Init, UploadInv, TypeOK, StartedOnce, LargeFileFirst, JoinedOnce,
       OneFilePerUpload, FileHasObject, CompletedHasFile, Statuses, LargeFiles,
       Awaits

\* Every step of a handler, of the client and of the clean-up job preserves it.
LEMMA StepInv == UploadInv /\ [Next]_vars => UploadInv'
<1> SUFFICES ASSUME UploadInv, [Next]_vars
             PROVE  UploadInv'
    OBVIOUS
<1> USE NoSessionAssumption
    DEF UploadInv, TypeOK, StartedOnce, LargeFileFirst, JoinedOnce,
        OneFilePerUpload, FileHasObject, CompletedHasFile, Statuses, LargeFiles,
        Awaits, rowVars, b2Vars, reqVars, cronVars, SaveRow, Begin, Continue,
        Answer, IsActive, CancelLargeFile, Settle
<1>1. ASSUME NEW r \in Requests, NEW s \in Sessions, StartUpload(r, s)
      PROVE  UploadInv'
  BY <1>1 DEF StartUpload
<1>2. ASSUME NEW r \in Requests, NEW s \in Sessions, NEW p \in Parts,
             RecordDuplicate(r, s, p) \/ RecordRead(r, s, p)
      PROVE  UploadInv'
  <2>1. CASE RecordDuplicate(r, s, p)
    BY <2>1 DEF RecordDuplicate
  <2>2. CASE RecordRead(r, s, p)
    BY <2>2 DEF RecordRead
  <2>3. QED
    BY <1>2, <2>1, <2>2
<1>3. ASSUME NEW r \in Requests, NEW s \in Sessions,
             CompleteRead(r, s) \/ CancelRead(r, s) \/ StatusRead(r, s)
      PROVE  UploadInv'
  <2>1. CASE CompleteRead(r, s)
    BY <2>1 DEF CompleteRead
  <2>2. CASE CancelRead(r, s)
    BY <2>2 DEF CancelRead
  <2>3. CASE StatusRead(r, s)
    BY <2>3 DEF StatusRead
  <2>4. QED
    BY <1>3, <2>1, <2>2, <2>3
<1>4. ASSUME NEW r \in Requests, StartLargeFile(r)
      PROVE  UploadInv'
  BY <1>4 DEF StartLargeFile
<1>5. ASSUME NEW r \in Requests, StartSaveSession(r)
      PROVE  UploadInv'
  BY <1>5 DEF StartSaveSession
<1>6. ASSUME NEW r \in Requests, RecordWrite(r)
      PROVE  UploadInv'
  BY <1>6 DEF RecordWrite
<1>7. ASSUME NEW r \in Requests, CompleteFinish(r)
      PROVE  UploadInv'
  BY <1>7 DEF CompleteFinish
<1>8. ASSUME NEW r \in Requests, CompleteRefused(r) \/ StatusListFailed(r) \/ Abort(r)
      PROVE  UploadInv'
  <2>1. CASE CompleteRefused(r)
    BY <2>1 DEF CompleteRefused
  <2>2. CASE StatusListFailed(r)
    BY <2>2 DEF StatusListFailed
  <2>3. CASE Abort(r)
    BY <2>3 DEF Abort
  <2>4. QED
    BY <1>8, <2>1, <2>2, <2>3
<1>9. ASSUME NEW r \in Requests, CompleteSaveFile(r)
      PROVE  UploadInv'
  BY <1>9 DEF CompleteSaveFile
<1>10. ASSUME NEW r \in Requests, CompleteSaveSession(r)
       PROVE  UploadInv'
  BY <1>10 DEF CompleteSaveSession
<1>11. ASSUME NEW r \in Requests, CancelAtB2(r)
       PROVE  UploadInv'
  BY <1>11 DEF CancelAtB2
<1>12. ASSUME NEW r \in Requests, CancelSaveSession(r) \/ StatusSave(r)
       PROVE  UploadInv'
  <2>1. CASE CancelSaveSession(r)
    BY <2>1 DEF CancelSaveSession
  <2>2. CASE StatusSave(r)
    BY <2>2 DEF StatusSave
  <2>3. QED
    BY <1>12, <2>1, <2>2
<1>13. ASSUME NEW r \in Requests, StatusListed(r)
       PROVE  UploadInv'
  BY <1>13 DEF StatusListed
<1>14. ASSUME NEW s \in Sessions, NEW p \in Parts, ClientUploadsPart(s, p)
       PROVE  UploadInv'
  BY <1>14 DEF ClientUploadsPart
<1>15. ASSUME NEW s \in Sessions, GrowOld(s)
       PROVE  UploadInv'
  BY <1>15 DEF GrowOld
<1>16. ASSUME CleanupRead \/ CleanupAbort
       PROVE  UploadInv'
  BY <1>16 DEF CleanupRead, CleanupAbort
<1>17. ASSUME NEW s \in Sessions, CleanupCancel(s)
       PROVE  UploadInv'
  BY <1>17 DEF CleanupCancel
<1>18. ASSUME NEW s \in Sessions, CleanupSave(s)
       PROVE  UploadInv'
  BY <1>18 DEF CleanupSave
<1>19. ASSUME UNCHANGED vars
       PROVE  UploadInv'
  BY <1>19 DEF vars
<1>20. QED
  BY <1>1, <1>2, <1>3, <1>4, <1>5, <1>6, <1>7, <1>8, <1>9, <1>10, <1>11, <1>12,
     <1>13, <1>14, <1>15, <1>16, <1>17, <1>18, <1>19
  DEF Next, NewRequest, HandlerStep, Cleanup, Waiting

\* The inductive invariant holds in every state the upload code can reach.
THEOREM UploadInvariant == Spec => []UploadInv
BY InitInv, StepInv, PTL DEF Spec

\* The rows, large files and handlers always have their types.
THEOREM TypeCorrect == Spec => []TypeOK
<1>1. UploadInv => TypeOK
  BY DEF UploadInv
<1>2. QED
  BY <1>1, UploadInvariant, PTL

\* However many completions, cancellations, polls and clean-up runs interleave
\* and fail, completeUpload makes at most one File row of an upload.
THEOREM AtMostOneFile == Spec => []OneFilePerUpload
<1>1. UploadInv => OneFilePerUpload
  BY DEF UploadInv
<1>2. QED
  BY <1>1, UploadInvariant, PTL

\* A File row made by completeUpload always refers to an upload that B2 joined.
THEOREM FileRowHasObject == Spec => []FileHasObject
<1>1. UploadInv => FileHasObject
  BY DEF UploadInv
<1>2. QED
  BY <1>1, UploadInvariant, PTL

\* A session that says "completed" has exactly one File row.
THEOREM CompletedMeansFile == Spec => []CompletedHasFile
<1>1. UploadInv => CompletedHasFile
  BY DEF UploadInv
<1>2. QED
  BY <1>1, UploadInvariant, PTL

-----------------------------------------------------------------------------
(* The part lists: reports, polls and what they leave in the row.             *)

\* Nothing is recorded at the start.
LEMMA InitRecording == Init => RecordingInv
<1>1. Init => UploadInv
  BY InitInv
<1>2. Init => NewUntilInserted /\ SettledIsUploaded /\ SavesKeepSettled /\ SettledPartsStay
  BY DEF Init, NewUntilInserted, SettledIsUploaded, SavesKeepSettled, SettledPartsStay
<1>3. QED
  BY <1>1, <1>2 DEF RecordingInv

\* Every step of a handler, of the clean-up job and of the client's transfers to
\* B2, and every failure, preserves it.
LEMMA StepRecording == RecordingInv /\ [Next]_vars => RecordingInv'
<1> SUFFICES ASSUME RecordingInv, [Next]_vars
             PROVE  RecordingInv'
    OBVIOUS
<1>0. UploadInv'
  BY StepInv DEF RecordingInv
<1> USE NoSessionAssumption
    DEF RecordingInv, UploadInv, TypeOK, LargeFileFirst, Statuses, LargeFiles,
        Awaits, rowVars, b2Vars, reqVars, cronVars, SaveRow, Begin, Continue,
        Answer, IsActive, CancelLargeFile, Settle, NoOtherList
<1>1. ASSUME NEW r \in Requests, NEW s \in Sessions, StartUpload(r, s)
      PROVE  RecordingInv'
  <2> USE <1>1 DEF StartUpload
  <2>1. NewUntilInserted'
    BY DEF NewUntilInserted
  <2>2. SettledIsUploaded'
    BY DEF SettledIsUploaded
  <2>3. SavesKeepSettled'
    BY DEF SavesKeepSettled
  <2>4. SettledPartsStay'
    BY DEF SettledPartsStay
  <2>5. QED
    BY <2>1, <2>2, <2>3, <2>4, <1>0
<1>2. ASSUME NEW r \in Requests, NEW s \in Sessions, NEW p \in Parts, RecordDuplicate(r, s, p)
      PROVE  RecordingInv'
  <2> USE <1>2 DEF RecordDuplicate
  <2>1. NewUntilInserted'
    BY DEF NewUntilInserted
  <2>2. SettledIsUploaded'
    BY DEF SettledIsUploaded
  <2>3. SavesKeepSettled'
    BY DEF SavesKeepSettled
  <2>4. SettledPartsStay'
    BY DEF SettledPartsStay
  <2>5. QED
    BY <2>1, <2>2, <2>3, <2>4, <1>0
<1>3. ASSUME NEW r \in Requests, NEW s \in Sessions, NEW p \in Parts, RecordRead(r, s, p)
      PROVE  RecordingInv'
  <2> USE <1>3 DEF RecordRead
  <2>1. NewUntilInserted'
    BY DEF NewUntilInserted
  <2>2. SettledIsUploaded'
    BY DEF SettledIsUploaded
  <2>3. SavesKeepSettled'
    BY DEF SavesKeepSettled, SettledPartsStay
  <2>4. SettledPartsStay'
    BY DEF SettledPartsStay
  <2>5. QED
    BY <2>1, <2>2, <2>3, <2>4, <1>0
<1>4. ASSUME NEW r \in Requests, NEW s \in Sessions, CompleteRead(r, s)
      PROVE  RecordingInv'
  <2> USE <1>4 DEF CompleteRead
  <2>1. NewUntilInserted'
    BY DEF NewUntilInserted
  <2>2. SettledIsUploaded'
    BY DEF SettledIsUploaded
  <2>3. SavesKeepSettled'
    BY DEF SavesKeepSettled
  <2>4. SettledPartsStay'
    BY DEF SettledPartsStay
  <2>5. QED
    BY <2>1, <2>2, <2>3, <2>4, <1>0
<1>5. ASSUME NEW r \in Requests, NEW s \in Sessions, CancelRead(r, s)
      PROVE  RecordingInv'
  <2> USE <1>5 DEF CancelRead
  <2>1. NewUntilInserted'
    BY DEF NewUntilInserted
  <2>2. SettledIsUploaded'
    BY DEF SettledIsUploaded
  <2>3. SavesKeepSettled'
    BY DEF SavesKeepSettled
  <2>4. SettledPartsStay'
    BY DEF SettledPartsStay
  <2>5. QED
    BY <2>1, <2>2, <2>3, <2>4, <1>0
<1>6. ASSUME NEW r \in Requests, NEW s \in Sessions, StatusRead(r, s)
      PROVE  RecordingInv'
  <2> USE <1>6 DEF StatusRead
  <2>1. NewUntilInserted'
    BY DEF NewUntilInserted
  <2>2. SettledIsUploaded'
    BY DEF SettledIsUploaded
  <2>3. SavesKeepSettled'
    BY DEF SavesKeepSettled
  <2>4. SettledPartsStay'
    BY DEF SettledPartsStay
  <2>5. QED
    BY <2>1, <2>2, <2>3, <2>4, <1>0
<1>7. ASSUME NEW r \in Requests, StartLargeFile(r)
      PROVE  RecordingInv'
  <2> USE <1>7 DEF StartLargeFile
  <2>1. NewUntilInserted'
    BY DEF NewUntilInserted
  <2>2. SettledIsUploaded'
    BY DEF SettledIsUploaded
  <2>3. SavesKeepSettled'
    BY DEF SavesKeepSettled
  <2>4. SettledPartsStay'
    BY DEF SettledPartsStay
  <2>5. QED
    BY <2>1, <2>2, <2>3, <2>4, <1>0
<1>8. ASSUME NEW r \in Requests, StartSaveSession(r)
      PROVE  RecordingInv'
  <2> USE <1>8 DEF StartSaveSession
  <2>1. NewUntilInserted'
    BY DEF NewUntilInserted
  <2>2. SettledIsUploaded'
    BY DEF SettledIsUploaded
  <2>3. SavesKeepSettled'
    BY DEF SavesKeepSettled
  <2>4. SettledPartsStay'
    BY DEF SettledPartsStay, NewUntilInserted
  <2>5. QED
    BY <2>1, <2>2, <2>3, <2>4, <1>0
<1>9. ASSUME NEW r \in Requests, RecordWrite(r)
      PROVE  RecordingInv'
  <2> USE <1>9 DEF RecordWrite
  <2>1. NewUntilInserted'
    BY DEF NewUntilInserted
  <2>2. SettledIsUploaded'
    BY DEF SettledIsUploaded
  <2>3. SavesKeepSettled'
    BY DEF SavesKeepSettled
  <2>4. SettledPartsStay'
    BY DEF SettledPartsStay, SavesKeepSettled, SettledIsUploaded
  <2>5. QED
    BY <2>1, <2>2, <2>3, <2>4, <1>0
<1>10. ASSUME NEW r \in Requests, CompleteFinish(r)
       PROVE  RecordingInv'
  <2> USE <1>10 DEF CompleteFinish
  <2>1. NewUntilInserted'
    BY DEF NewUntilInserted
  <2>2. SettledIsUploaded'
    BY DEF SettledIsUploaded
  <2>3. SavesKeepSettled'
    BY DEF SavesKeepSettled
  <2>4. SettledPartsStay'
    BY DEF SettledPartsStay
  <2>5. QED
    BY <2>1, <2>2, <2>3, <2>4, <1>0
<1>11. ASSUME NEW r \in Requests, CompleteRefused(r)
       PROVE  RecordingInv'
  <2> USE <1>11 DEF CompleteRefused
  <2>1. NewUntilInserted'
    BY DEF NewUntilInserted
  <2>2. SettledIsUploaded'
    BY DEF SettledIsUploaded
  <2>3. SavesKeepSettled'
    BY DEF SavesKeepSettled
  <2>4. SettledPartsStay'
    BY DEF SettledPartsStay
  <2>5. QED
    BY <2>1, <2>2, <2>3, <2>4, <1>0
<1>12. ASSUME NEW r \in Requests, StatusListFailed(r)
       PROVE  RecordingInv'
  <2> USE <1>12 DEF StatusListFailed
  <2>1. NewUntilInserted'
    BY DEF NewUntilInserted
  <2>2. SettledIsUploaded'
    BY DEF SettledIsUploaded
  <2>3. SavesKeepSettled'
    BY DEF SavesKeepSettled
  <2>4. SettledPartsStay'
    BY DEF SettledPartsStay
  <2>5. QED
    BY <2>1, <2>2, <2>3, <2>4, <1>0
<1>13. ASSUME NEW r \in Requests, Abort(r)
       PROVE  RecordingInv'
  <2> USE <1>13 DEF Abort
  <2>1. NewUntilInserted'
    BY DEF NewUntilInserted
  <2>2. SettledIsUploaded'
    BY DEF SettledIsUploaded
  <2>3. SavesKeepSettled'
    BY DEF SavesKeepSettled
  <2>4. SettledPartsStay'
    BY DEF SettledPartsStay
  <2>5. QED
    BY <2>1, <2>2, <2>3, <2>4, <1>0
<1>14. ASSUME NEW r \in Requests, CompleteSaveFile(r)
       PROVE  RecordingInv'
  <2> USE <1>14 DEF CompleteSaveFile
  <2>1. NewUntilInserted'
    BY DEF NewUntilInserted
  <2>2. SettledIsUploaded'
    BY DEF SettledIsUploaded
  <2>3. SavesKeepSettled'
    BY DEF SavesKeepSettled
  <2>4. SettledPartsStay'
    BY DEF SettledPartsStay
  <2>5. QED
    BY <2>1, <2>2, <2>3, <2>4, <1>0
<1>15. ASSUME NEW r \in Requests, CompleteSaveSession(r)
       PROVE  RecordingInv'
  <2> USE <1>15 DEF CompleteSaveSession
  <2>1. NewUntilInserted'
    BY DEF NewUntilInserted
  <2>2. SettledIsUploaded'
    BY DEF SettledIsUploaded
  <2>3. SavesKeepSettled'
    BY DEF SavesKeepSettled
  <2>4. SettledPartsStay'
    BY DEF SettledPartsStay
  <2>5. QED
    BY <2>1, <2>2, <2>3, <2>4, <1>0
<1>16. ASSUME NEW r \in Requests, CancelAtB2(r)
       PROVE  RecordingInv'
  <2> USE <1>16 DEF CancelAtB2
  <2>1. NewUntilInserted'
    BY DEF NewUntilInserted
  <2>2. SettledIsUploaded'
    BY DEF SettledIsUploaded
  <2>3. SavesKeepSettled'
    BY DEF SavesKeepSettled
  <2>4. SettledPartsStay'
    BY DEF SettledPartsStay
  <2>5. QED
    BY <2>1, <2>2, <2>3, <2>4, <1>0
<1>17. ASSUME NEW r \in Requests, CancelSaveSession(r)
       PROVE  RecordingInv'
  <2> USE <1>17 DEF CancelSaveSession
  <2>1. NewUntilInserted'
    BY DEF NewUntilInserted
  <2>2. SettledIsUploaded'
    BY DEF SettledIsUploaded
  <2>3. SavesKeepSettled'
    BY DEF SavesKeepSettled
  <2>4. SettledPartsStay'
    BY DEF SettledPartsStay
  <2>5. QED
    BY <2>1, <2>2, <2>3, <2>4, <1>0
<1>18. ASSUME NEW r \in Requests, StatusSave(r)
       PROVE  RecordingInv'
  <2> USE <1>18 DEF StatusSave
  <2>1. NewUntilInserted'
    BY DEF NewUntilInserted
  <2>2. SettledIsUploaded'
    BY DEF SettledIsUploaded
  <2>3. SavesKeepSettled'
    BY DEF SavesKeepSettled
  <2>4. SettledPartsStay'
    BY DEF SettledPartsStay, SavesKeepSettled
  <2>5. QED
    BY <2>1, <2>2, <2>3, <2>4, <1>0
<1>19. ASSUME NEW r \in Requests, StatusListed(r)
       PROVE  RecordingInv'
  <2> USE <1>19 DEF StatusListed
  <2>1. NewUntilInserted'
    BY DEF NewUntilInserted
  <2>2. SettledIsUploaded'
    BY DEF SettledIsUploaded
  <2>3. SavesKeepSettled'
    BY DEF SavesKeepSettled, SettledIsUploaded
  <2>4. SettledPartsStay'
    BY DEF SettledPartsStay
  <2>5. QED
    BY <2>1, <2>2, <2>3, <2>4, <1>0
<1>20. ASSUME NEW s \in Sessions, NEW p \in Parts, ClientUploadsPart(s, p)
       PROVE  RecordingInv'
  <2> USE <1>20 DEF ClientUploadsPart
  <2>1. NewUntilInserted'
    BY DEF NewUntilInserted
  <2>2. SettledIsUploaded'
    BY DEF SettledIsUploaded
  <2>3. SavesKeepSettled'
    BY DEF SavesKeepSettled
  <2>4. SettledPartsStay'
    BY DEF SettledPartsStay
  <2>5. QED
    BY <2>1, <2>2, <2>3, <2>4, <1>0
<1>21. ASSUME NEW s \in Sessions, GrowOld(s)
       PROVE  RecordingInv'
  <2> USE <1>21 DEF GrowOld
  <2>1. NewUntilInserted'
    BY DEF NewUntilInserted
  <2>2. SettledIsUploaded'
    BY DEF SettledIsUploaded
  <2>3. SavesKeepSettled'
    BY DEF SavesKeepSettled
  <2>4. SettledPartsStay'
    BY DEF SettledPartsStay
  <2>5. QED
    BY <2>1, <2>2, <2>3, <2>4, <1>0
<1>22. ASSUME CleanupRead
       PROVE  RecordingInv'
  <2> USE <1>22 DEF CleanupRead
  <2>1. NewUntilInserted'
    BY DEF NewUntilInserted
  <2>2. SettledIsUploaded'
    BY DEF SettledIsUploaded
  <2>3. SavesKeepSettled'
    BY DEF SavesKeepSettled
  <2>4. SettledPartsStay'
    BY DEF SettledPartsStay
  <2>5. QED
    BY <2>1, <2>2, <2>3, <2>4, <1>0
<1>23. ASSUME CleanupAbort
       PROVE  RecordingInv'
  <2> USE <1>23 DEF CleanupAbort
  <2>1. NewUntilInserted'
    BY DEF NewUntilInserted
  <2>2. SettledIsUploaded'
    BY DEF SettledIsUploaded
  <2>3. SavesKeepSettled'
    BY DEF SavesKeepSettled
  <2>4. SettledPartsStay'
    BY DEF SettledPartsStay
  <2>5. QED
    BY <2>1, <2>2, <2>3, <2>4, <1>0
<1>24. ASSUME NEW s \in Sessions, CleanupCancel(s)
       PROVE  RecordingInv'
  <2> USE <1>24 DEF CleanupCancel
  <2>1. NewUntilInserted'
    BY DEF NewUntilInserted
  <2>2. SettledIsUploaded'
    BY DEF SettledIsUploaded
  <2>3. SavesKeepSettled'
    BY DEF SavesKeepSettled
  <2>4. SettledPartsStay'
    BY DEF SettledPartsStay
  <2>5. QED
    BY <2>1, <2>2, <2>3, <2>4, <1>0
<1>25. ASSUME NEW s \in Sessions, CleanupSave(s)
       PROVE  RecordingInv'
  <2> USE <1>25 DEF CleanupSave
  <2>1. NewUntilInserted'
    BY DEF NewUntilInserted
  <2>2. SettledIsUploaded'
    BY DEF SettledIsUploaded
  <2>3. SavesKeepSettled'
    BY DEF SavesKeepSettled
  <2>4. SettledPartsStay'
    BY DEF SettledPartsStay
  <2>5. QED
    BY <2>1, <2>2, <2>3, <2>4, <1>0
<1>26. ASSUME UNCHANGED vars
       PROVE  RecordingInv'
  BY <1>26, <1>0 DEF vars, NewUntilInserted, SettledIsUploaded, SavesKeepSettled, SettledPartsStay
<1> HIDE DEF RecordingInv
<1>27. QED
  BY <1>1, <1>2, <1>3, <1>4, <1>5, <1>6, <1>7, <1>8, <1>9, <1>10, <1>11, <1>12,
     <1>13, <1>14, <1>15, <1>16, <1>17, <1>18, <1>19, <1>20, <1>21, <1>22,
     <1>23, <1>24, <1>25, <1>26
  DEF Next, NewRequest, HandlerStep, Cleanup, Waiting

\* The recording invariant holds in every reachable state, however many reports,
\* polls and completions overlap.
THEOREM RecordingInvariant == Spec => []RecordingInv
<1>1. RecordingInv /\ [Next]_vars => RecordingInv'
  BY StepRecording
<1>2. QED
  BY <1>1, InitRecording, PTL DEF Spec

\* A part whose report overlapped no other list being saved, and that B2 holds, stays
\* in the row as long as the upload is active: no later report or poll, however they
\* overlap, nor the clean-up job, nor a handler that fails removes it.
THEOREM RecordedPartsStay == Spec => []SettledPartsStay
<1>1. RecordingInv => SettledPartsStay
  BY DEF RecordingInv
<1>2. QED
  BY <1>1, RecordingInvariant, PTL

=============================================================================
