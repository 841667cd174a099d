---------------------------- MODULE UploadSessions ----------------------------
(***************************************************************************)
(* Chunked uploads of one user (uploads.service.ts, upload-cleanup).        *)
(*                                                                         *)
(* A session row in Postgres accompanies a "large file" at Backblaze B2.    *)
(* Every handler awaits the database and B2 several times, and other        *)
(* handlers and the clean-up job run between two awaits, so a handler is    *)
(* one action per await.  What it read from the row (the loaded entity) is  *)
(* kept in loaded[r], because repository.save(session) later writes that    *)
(* stale copy back.                                                         *)
(***************************************************************************)
EXTENDS Naturals, FiniteSets, Functions

CONSTANTS
  Sessions,     \* upload ids that may ever be handed out
  Parts,        \* part numbers of an upload (1 .. totalParts)
  Requests,     \* handlers that may be in flight at the same time
  Size,         \* Size[s]: totalBytes of session s
  Limit,        \* storageLimitGb of the user, in the unit of Size
  Failures,     \* TRUE: awaited calls may fail and the server may restart
  NoSession     \* a value that is no upload id

ASSUME SizeAssumption == Size \in [Sessions -> Nat]
ASSUME NoSessionAssumption == NoSession \notin Sessions
ASSUME FailuresAssumption == Failures \in BOOLEAN

VARIABLES
  status,    \* status[s]: column status of the session row, "none" without a row
  parts,     \* parts[s]: column completed_parts (the part numbers in it)
  old,       \* old[s]: updated_at is further back than the 24 h maximum age
  large,     \* large[s]: the large file at B2
  uploaded,  \* uploaded[s]: parts B2 holds for it
  files,     \* files[s]: number of File rows made from session s
  pc,        \* pc[r]: the await at which request r stands
  on,        \* on[r]: the session request r works on
  loaded,    \* loaded[r]: completedParts as request r will write them
  adding,    \* adding[r]: the part recordPart adds (a singleton)
  settled,   \* settled[s]: parts whose report ended while no other list of s
             \* was waiting to be saved (history)
  todo,      \* sessions the clean-up job has read and not yet expired
  stale,     \* stale[s]: completedParts as the clean-up job read them
  expiring   \* session whose row the clean-up job saves next, or NoSession

rowVars  == <<status, parts, old>>
b2Vars   == <<large, uploaded>>
reqVars  == <<pc, on, loaded, adding>>
cronVars == <<todo, stale, expiring>>
vars     == <<rowVars, b2Vars, files, reqVars, settled, cronVars>>

Statuses   == {"none", "active", "completed", "cancelled", "expired"}
LargeFiles == {"none", "unfinished", "finished", "cancelled"}
Awaits     == {"start.b2", "start.save", "record.write",
               "complete.finish", "complete.file", "complete.row",
               "cancel.b2", "cancel.row", "status.list", "status.save"}

TypeOK ==
  /\ status \in [Sessions -> Statuses]
  /\ parts \in [Sessions -> SUBSET Parts]
  /\ old \in [Sessions -> BOOLEAN]
  /\ large \in [Sessions -> LargeFiles]
  /\ uploaded \in [Sessions -> SUBSET Parts]
  /\ files \in [Sessions -> Nat]
  /\ pc \in [Requests -> Awaits \cup {"idle"}]
  /\ on \in [Requests -> Sessions \cup {NoSession}]
  /\ \A r \in Requests : on[r] = NoSession <=> pc[r] = "idle"
  /\ loaded \in [Requests -> SUBSET Parts]
  /\ adding \in [Requests -> SUBSET Parts]
  /\ settled \in [Sessions -> SUBSET Parts]
  /\ todo \subseteq Sessions
  /\ stale \in [Sessions -> SUBSET Parts]
  /\ expiring \in todo \cup {NoSession}

Init ==
  /\ status = [s \in Sessions |-> "none"]
  /\ parts = [s \in Sessions |-> {}]
  /\ old = [s \in Sessions |-> FALSE]
  /\ large = [s \in Sessions |-> "none"]
  /\ uploaded = [s \in Sessions |-> {}]
  /\ files = [s \in Sessions |-> 0]
  /\ pc = [r \in Requests |-> "idle"]
  /\ on = [r \in Requests |-> NoSession]
  /\ loaded = [r \in Requests |-> {}]
  /\ adding = [r \in Requests |-> {}]
  /\ settled = [s \in Sessions |-> {}]
  /\ todo = {}
  /\ stale = [s \in Sessions |-> {}]
  /\ expiring = NoSession

-----------------------------------------------------------------------------
(* Helpers *)

\* Bytes of the user's File rows; bytes of sessions under way are not counted.
UsedBytes == FoldFunction(LAMBDA a, b : a + b, 0,
                          [s \in Sessions |-> files[s] * Size[s]])

\* repository.save of a session entity: every column takes the entity's value,
\* the row is inserted when it is missing, and updated_at moves when a column
\* really changed.
SaveRow(s, st, ps) ==
  /\ status' = [status EXCEPT ![s] = st]
  /\ parts' = [parts EXCEPT ![s] = ps]
  /\ old' = [old EXCEPT ![s] = @ /\ st = status[s] /\ ps = parts[s]]

\* Request r enters a handler on s and waits at the given await.
Begin(r, await, s, ps, new) ==
  /\ pc[r] = "idle"
  /\ pc' = [pc EXCEPT ![r] = await]
  /\ on' = [on EXCEPT ![r] = s]
  /\ loaded' = [loaded EXCEPT ![r] = ps]
  /\ adding' = [adding EXCEPT ![r] = new]

Continue(r, here, await) ==
  /\ pc[r] = here
  /\ pc' = [pc EXCEPT ![r] = await]
  /\ UNCHANGED <<on, loaded, adding>>

\* Request r answers.
Answer(r) ==
  /\ pc' = [pc EXCEPT ![r] = "idle"]
  /\ on' = [on EXCEPT ![r] = NoSession]
  /\ loaded' = [loaded EXCEPT ![r] = {}]
  /\ adding' = [adding EXCEPT ![r] = {}]

\* getActiveSession: the row exists and is active.
IsActive(s) == status[s] = "active"

\* Request r is the only one that holds a part list of session s it may still save.
NoOtherList(r, s) ==
  \A q \in Requests \ {r} :
    ~(on[q] = s /\ pc[q] \in {"record.write", "status.save"})

\* The report of ps ends with "recorded".  What B2 holds of ps is settled, unless
\* another list of the session is still on its way to the row.
Settle(r, s, ps) ==
  settled' = [settled EXCEPT ![s] =
                IF NoOtherList(r, s) THEN @ \cup (ps \cap uploaded[s]) ELSE @]

\* b2.cancelLargeFile: an unfinished upload is dropped; one that is already
\* finished or cancelled answers 400 or 404, which counts as success; any other
\* failure is swallowed by every caller.
CancelLargeFile(s) ==
  \/ /\ large' = [large EXCEPT ![s] = IF @ = "unfinished" THEN "cancelled" ELSE @]
     /\ UNCHANGED uploaded
  \/ Failures /\ UNCHANGED b2Vars

-----------------------------------------------------------------------------
(* Faulty variants of the operations below.  They are no part of Next: each is a  *)
(* mistake this code could have made, and the properties are tested against it.  *)

\* A part list that replaces the recorded parts instead of adding to them.
RecordReadAlone(r, s, p) ==
  /\ IsActive(s)
  /\ p \notin parts[s]
  /\ Begin(r, "record.write", s, {p}, {p})
  /\ UNCHANGED <<rowVars, b2Vars, files, settled, cronVars>>

\* "Already finished" answered by B2 is taken for success.
CompleteFinishAgain(r) ==
  /\ Continue(r, "complete.finish", "complete.file")
  /\ large[on[r]] \in {"unfinished", "finished"}
  /\ uploaded[on[r]] = Parts
  /\ large' = [large EXCEPT ![on[r]] = "finished"]
  /\ UNCHANGED <<rowVars, uploaded, files, settled, cronVars>>

\* B2's refusal is logged and swallowed, as in cancelUpload.
CompleteFinishSwallowed(r) ==
  /\ Continue(r, "complete.finish", "complete.file")
  /\ large' = [large EXCEPT ![on[r]] =
                  IF @ = "unfinished" /\ uploaded[on[r]] = Parts
                  THEN "finished" ELSE @]
  /\ UNCHANGED <<rowVars, uploaded, files, settled, cronVars>>

\* A poll that finds the upload finished at B2 completes the row by itself.
StatusListGuesses(r) ==
  /\ pc[r] = "status.list"
  /\ large[on[r]] # "unfinished"
  /\ status' = [status EXCEPT ![on[r]] =
                   IF large[on[r]] = "finished" THEN "completed" ELSE @]
  /\ Answer(r)
  /\ UNCHANGED <<parts, old, b2Vars, files, settled, cronVars>>

\* The clean-up job skips a session that B2 refuses to cancel.
CleanupCancelOrSkip(s) ==
  /\ expiring = NoSession
  /\ s \in todo
  /\ \/ CancelLargeFile(s) /\ expiring' = s /\ UNCHANGED <<todo, stale>>
     \/ /\ Failures
        /\ todo' = todo \ {s}
        /\ stale' = [stale EXCEPT ![s] = {}]
        /\ UNCHANGED <<b2Vars, expiring>>
  /\ UNCHANGED <<rowVars, files, reqVars, settled>>

-----------------------------------------------------------------------------
(* startUpload *)

\* The quota is checked against the File rows before anything is created.
StartUpload(r, s) ==
  /\ large[s] = "none"
  /\ \A q \in Requests : on[q] # s          \* a new id
  /\ UsedBytes + Size[s] <= Limit
  /\ Begin(r, "start.b2", s, {}, {})
  /\ UNCHANGED <<rowVars, b2Vars, files, settled, cronVars>>

StartLargeFile(r) ==
  /\ Continue(r, "start.b2", "start.save")
  /\ large' = [large EXCEPT ![on[r]] = "unfinished"]
  /\ UNCHANGED <<rowVars, uploaded, files, settled, cronVars>>

StartSaveSession(r) ==
  /\ pc[r] = "start.save"
  /\ SaveRow(on[r], "active", {})
  /\ Answer(r)
  /\ UNCHANGED <<b2Vars, files, settled, cronVars>>

(* The client uploads a part straight to B2 with a URL from getPartUrls. *)
ClientUploadsPart(s, p) ==
  /\ status[s] # "none"
  /\ large[s] = "unfinished"
  /\ uploaded' = [uploaded EXCEPT ![s] = @ \cup {p}]
  /\ UNCHANGED <<rowVars, large, files, reqVars, settled, cronVars>>

-----------------------------------------------------------------------------
(* recordPart: the client reports a part; B2 is not asked whether it has it. *)

RecordDuplicate(r, s, p) ==
  /\ pc[r] = "idle"
  /\ IsActive(s)
  /\ p \in parts[s]
  /\ Settle(r, s, {p})
  /\ UNCHANGED <<rowVars, b2Vars, files, reqVars, cronVars>>

RecordRead(r, s, p) ==
  /\ IsActive(s)
  /\ p \notin parts[s]
  /\ Begin(r, "record.write", s, parts[s] \cup {p}, {p})
  /\ UNCHANGED <<rowVars, b2Vars, files, settled, cronVars>>

\* UPDATE ... SET completed_parts WHERE id: whatever the status is by now.
RecordWrite(r) ==
  /\ pc[r] = "record.write"
  /\ parts' = [parts EXCEPT ![on[r]] = loaded[r]]
  /\ old' = [old EXCEPT ![on[r]] = FALSE]
  /\ Settle(r, on[r], adding[r])
  /\ Answer(r)
  /\ UNCHANGED <<status, b2Vars, files, cronVars>>

-----------------------------------------------------------------------------
(* completeUpload *)

CompleteRead(r, s) ==
  /\ IsActive(s)
  /\ Begin(r, "complete.finish", s, parts[s], {})
  /\ UNCHANGED <<rowVars, b2Vars, files, settled, cronVars>>

\* B2 joins the parts; it does so once, and only when it has all of them.
CompleteFinish(r) ==
  /\ Continue(r, "complete.finish", "complete.file")
  /\ large[on[r]] = "unfinished"
  /\ uploaded[on[r]] = Parts
  /\ large' = [large EXCEPT ![on[r]] = "finished"]
  /\ UNCHANGED <<rowVars, uploaded, files, settled, cronVars>>

CompleteRefused(r) ==
  /\ pc[r] = "complete.finish"
  /\ large[on[r]] # "unfinished" \/ uploaded[on[r]] # Parts
  /\ Answer(r)
  /\ UNCHANGED <<rowVars, b2Vars, files, settled, cronVars>>

\* The thumbnails are stored and the File row inserted.
CompleteSaveFile(r) ==
  /\ Continue(r, "complete.file", "complete.row")
  /\ files' = [files EXCEPT ![on[r]] = @ + 1]
  /\ UNCHANGED <<rowVars, b2Vars, settled, cronVars>>

CompleteSaveSession(r) ==
  /\ pc[r] = "complete.row"
  /\ SaveRow(on[r], "completed", loaded[r])
  /\ Answer(r)
  /\ UNCHANGED <<b2Vars, files, settled, cronVars>>

-----------------------------------------------------------------------------
(* cancelUpload: a session that is no longer active is left alone *)

CancelRead(r, s) ==
  /\ IsActive(s)
  /\ Begin(r, "cancel.b2", s, parts[s], {})
  /\ UNCHANGED <<rowVars, b2Vars, files, settled, cronVars>>

CancelAtB2(r) ==
  /\ Continue(r, "cancel.b2", "cancel.row")
  /\ CancelLargeFile(on[r])
  /\ UNCHANGED <<rowVars, files, settled, cronVars>>

CancelSaveSession(r) ==
  /\ pc[r] = "cancel.row"
  /\ SaveRow(on[r], "cancelled", loaded[r])
  /\ Answer(r)
  /\ UNCHANGED <<b2Vars, files, settled, cronVars>>

-----------------------------------------------------------------------------
(* getSessionStatus: completed_parts is replaced by what B2 lists *)

StatusRead(r, s) ==
  /\ IsActive(s)
  /\ Begin(r, "status.list", s, parts[s], {})
  /\ UNCHANGED <<rowVars, b2Vars, files, settled, cronVars>>

StatusListed(r) ==
  /\ pc[r] = "status.list"
  /\ large[on[r]] = "unfinished"
  /\ pc' = [pc EXCEPT ![r] = "status.save"]
  /\ loaded' = [loaded EXCEPT ![r] = uploaded[on[r]]]
  /\ UNCHANGED <<on, adding, rowVars, b2Vars, files, settled, cronVars>>

\* B2 no longer knows the upload.  listParts rethrows every failure as "Failed
\* to list file parts", so the handler's test for "404" or "not found" is
\* never true and the row stays as it is.
StatusListFailed(r) ==
  /\ pc[r] = "status.list"
  /\ large[on[r]] # "unfinished"
  /\ Answer(r)
  /\ UNCHANGED <<rowVars, b2Vars, files, settled, cronVars>>

StatusSave(r) ==
  /\ pc[r] = "status.save"
  /\ SaveRow(on[r], "active", loaded[r])
  /\ Answer(r)
  /\ UNCHANGED <<b2Vars, files, settled, cronVars>>

-----------------------------------------------------------------------------
(* expireStaleSessions, run by the clean-up job every six hours *)

\* Twenty-four hours pass without a write to the row.
GrowOld(s) ==
  /\ IsActive(s) /\ ~old[s]
  /\ old' = [old EXCEPT ![s] = TRUE]
  /\ UNCHANGED <<status, parts, b2Vars, files, reqVars, settled, cronVars>>

CleanupRead ==
  /\ todo = {}
  /\ todo' = {s \in Sessions : IsActive(s) /\ old[s]}
  /\ todo' # {}
  /\ stale' = [s \in Sessions |-> IF s \in todo' THEN parts[s] ELSE {}]
  /\ UNCHANGED <<expiring, rowVars, b2Vars, files, reqVars, settled>>

CleanupCancel(s) ==
  /\ expiring = NoSession
  /\ s \in todo
  /\ CancelLargeFile(s)
  /\ expiring' = s
  /\ UNCHANGED <<todo, stale, rowVars, files, reqVars, settled>>

CleanupSave(s) ==
  /\ expiring = s
  /\ SaveRow(s, "expired", stale[s])
  /\ todo' = todo \ {s}
  /\ stale' = [stale EXCEPT ![s] = {}]
  /\ expiring' = NoSession
  /\ UNCHANGED <<b2Vars, files, reqVars, settled>>

-----------------------------------------------------------------------------
(* An awaited call rejects, or the server restarts, and the handler ends. *)

Abort(r) ==
  /\ Failures
  /\ pc[r] # "idle"
  /\ Answer(r)
  /\ UNCHANGED <<rowVars, b2Vars, files, settled, cronVars>>

CleanupAbort ==
  /\ Failures
  /\ todo # {}
  /\ todo' = {}
  /\ stale' = [s \in Sessions |-> {}]
  /\ expiring' = NoSession
  /\ UNCHANGED <<rowVars, b2Vars, files, reqVars, settled>>

-----------------------------------------------------------------------------
NewRequest(r) ==
  \E s \in Sessions :
    \/ StartUpload(r, s)
    \/ \E p \in Parts : RecordDuplicate(r, s, p)
    \/ \E p \in Parts : RecordRead(r, s, p)
    \/ CompleteRead(r, s)
    \/ CancelRead(r, s)
    \/ StatusRead(r, s)

\* The steps that follow in a handler once it has begun.
HandlerStep(r) ==
  \/ StartLargeFile(r)
  \/ StartSaveSession(r)
  \/ RecordWrite(r)
  \/ CompleteFinish(r)
  \/ CompleteRefused(r)
  \/ CompleteSaveFile(r)
  \/ CompleteSaveSession(r)
  \/ CancelAtB2(r)
  \/ CancelSaveSession(r)
  \/ StatusListed(r)
  \/ StatusListFailed(r)
  \/ StatusSave(r)

Cleanup == CleanupRead \/ \E s \in Sessions : CleanupCancel(s) \/ CleanupSave(s)

\* Nothing is in flight and the finite supply of upload ids may be used up: the
\* server waits.  (A handler that could not go on would still be a deadlock.)
Waiting ==
  /\ \A r \in Requests : pc[r] = "idle"
  /\ todo = {}
  /\ UNCHANGED vars

Next ==
  \/ \E r \in Requests : NewRequest(r) \/ HandlerStep(r) \/ Abort(r)
  \/ \E s \in Sessions, p \in Parts : ClientUploadsPart(s, p)
  \/ \E s \in Sessions : GrowOld(s)
  \/ Cleanup
  \/ CleanupAbort
  \/ Waiting

Spec == Init /\ [][Next]_vars

\* A handler that began goes on (the event loop runs every settled await), time
\* passes, and the clean-up job runs again and again: every six hours it reads
\* afresh, so a call of it that fails now and then succeeds some time.
Fairness ==
  /\ \A r \in Requests : WF_vars(HandlerStep(r))
  /\ \A s \in Sessions : WF_vars(GrowOld(s))
  /\ WF_vars(CleanupRead)
  /\ \A s \in Sessions : SF_vars(CleanupCancel(s)) /\ SF_vars(CleanupSave(s))

FairSpec == Spec /\ Fairness

-----------------------------------------------------------------------------
(* Properties *)

\* However completions, cancellations, polls, failures and the clean-up job
\* interleave, and however often the client retries, an upload yields at most
\* one File row (completeUpload).
OneFilePerUpload == \A s \in Sessions : files[s] <= 1

\* A File row is only made for an upload B2 has joined: no cancellation or
\* expiry that slips between the reads of completeUpload leaves a File row whose
\* object is not there.
FileHasObject == \A s \in Sessions : files[s] > 0 => large[s] = "finished"

\* A session shown as completed has its File row, whatever stale copy was
\* saved over it in between.
CompletedHasFile == \A s \in Sessions : status[s] = "completed" => files[s] = 1

\* What holds between any two steps and makes the above true: an id is started
\* by one request before anything else exists for it, ...
StartedOnce ==
  \A r \in Requests : pc[r] = "start.b2" =>
    /\ large[on[r]] = "none"
    /\ \A q \in Requests \ {r} : on[q] # on[r]

\* ... nobody works on an id before its large file exists, ...
LargeFileFirst ==
  /\ \A s \in Sessions : (status[s] # "none" \/ s \in todo) => large[s] # "none"
  /\ \A r \in Requests : pc[r] \notin {"idle", "start.b2"} => large[on[r]] # "none"

\* ... and the request whose finishLargeFile succeeded is the only one on its
\* way to insert the File row.
JoinedOnce ==
  /\ \A r \in Requests : pc[r] \in {"complete.file", "complete.row"} =>
       /\ large[on[r]] = "finished"
       /\ files[on[r]] = IF pc[r] = "complete.row" THEN 1 ELSE 0
  /\ \A r, q \in Requests :
       (/\ r # q
        /\ pc[r] \in {"complete.file", "complete.row"}
        /\ pc[q] \in {"complete.file", "complete.row"}) => on[r] # on[q]

\* The inductive invariant behind the upload theorems (UploadSessions_proofs).
UploadInv ==
  /\ TypeOK
  /\ StartedOnce
  /\ LargeFileFirst
  /\ JoinedOnce
  /\ OneFilePerUpload
  /\ FileHasObject
  /\ CompletedHasFile

\* A session nobody works on any more is finally taken off the active list by
\* the clean-up job, also when B2 refuses to cancel it each time.
AbandonedSessionsExpire ==
  \A s \in Sessions :
    (<>[](\A r \in Requests : on[r] # s)) => <>[](status[s] # "active")

\* A reported part that B2 holds stays in the row while the upload is active, if
\* no other report or poll held a list of its own when the report ended: no later
\* report, poll, completion, cancellation, expiry or failure, in any overlap,
\* drops it (recordPart, getSessionStatus).
SettledPartsStay ==
  \A s \in Sessions : status[s] = "active" => settled[s] \subseteq parts[s]

\* Parallel reports overwrite each other's lists; a client that goes on polling
\* gets every part B2 holds back into the row of an active upload, and no report,
\* however stale its list, takes one out again for good (getSessionStatus).
PollsHeal ==
  \A s \in Sessions :
    ([]<><<\E r \in Requests : on[r] = s /\ StatusSave(r)>>_vars)
      => <>[](status[s] = "active" => uploaded[s] \subseteq parts[s])

\* Why SettledPartsStay is true: until its row is inserted, an id is known to
\* the request that starts it only, and no part was reported for it; ...
NewUntilInserted ==
  /\ \A s \in Sessions : status[s] = "none" => settled[s] = {} /\ s \notin todo
  /\ \A r \in Requests : pc[r] \in {"start.b2", "start.save"} =>
       /\ status[on[r]] = "none"
       /\ \A q \in Requests \ {r} : on[q] # on[r]
  /\ \A r \in Requests : pc[r] = "record.write" => status[on[r]] # "none"

\* ... B2 holds every settled part, so a poll that lists them finds it; ...
SettledIsUploaded ==
  /\ \A s \in Sessions : settled[s] \subseteq uploaded[s]
  /\ \A r \in Requests : pc[r] = "record.write" => adding[r] \subseteq loaded[r]

\* ... and what any request is about to save for an active row contains the parts
\* settled so far.
SavesKeepSettled ==
  \A r \in Requests : pc[r] \in {"record.write", "status.save"} =>
    settled[on[r]] \subseteq loaded[r]

\* The inductive invariant behind SettledPartsStay (UploadSessions_proofs).
RecordingInv ==
  /\ UploadInv
  /\ NewUntilInserted
  /\ SettledIsUploaded
  /\ SavesKeepSettled
  /\ SettledPartsStay

=============================================================================
