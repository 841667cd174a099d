------------------------------- MODULE FileStore -------------------------------
(***************************************************************************)
(* File rows in Postgres and the objects at B2 they point to                *)
(* (files.service.ts, shares.service.ts saveToAccount, folders.service.ts   *)
(* and users.service.ts deletion, trash-cleanup.service.ts).                *)
(*                                                                         *)
(* saveToAccount makes a second row for another user that points to the     *)
(* same object, so a deletion has to know whether another row still needs   *)
(* the object.  Rows are read, counted, deleted at B2 and removed in        *)
(* separate awaits; other requests run in between.                          *)
(*                                                                         *)
(* An object stands for a file's content and its small and medium           *)
(* thumbnails, which the code always stores, shares and deletes together;   *)
(* the large thumbnail has a set of its own.  Both are named by the row they *)
(* were first uploaded for (generateFilePath never repeats a path).         *)
(***************************************************************************)
EXTENDS Naturals, FiniteSets

CONSTANTS
  Users,
  Files,       \* row ids that may be handed out
  Owner,       \* Owner[f]: the user row f is made for
  Requests,    \* handlers that may be in flight at the same time
  Calls,       \* the API calls clients make in this instance
  Failures,    \* TRUE: awaited calls may fail and the server may restart
  NoFile, NoUser

AllCalls == {"upload", "save", "update", "trash", "restore", "delete",
             "folder", "account", "purge"}

ASSUME OwnerAssumption == Owner \in [Files -> Users]
ASSUME CallsAssumption == Calls \subseteq AllCalls /\ Failures \in BOOLEAN
ASSUME NoFileAssumption == NoFile \notin Files /\ NoUser \notin Users

VARIABLES
  row,        \* row[f]: "none" before the row is inserted, "active", "trashed"
              \*         (deleted_at set) or "gone" once it has been deleted
  path,       \* path[f]: column b2_file_path
  objects,    \* the objects stored at B2
  thumbs,     \* those whose large thumbnail is stored there
  present,    \* the users whose row exists
  late,       \* trashed rows whose retention period has passed
  nightly,    \* TRUE: the 3 AM job is due
  condemned,  \* rows a permanent deletion was asked for (history)
  crossed,    \* objects whose deletion crossed a copy of them, the return of a
              \* row of theirs, or another active row without a count (history)
  mislaid,    \* objects a failure, or two deletions counting each other's rows,
              \* may have left behind (history)
  pc,         \* pc[r]: the await at which request r stands
  by,         \* by[r]: the user request r acts for
  batch,      \* batch[r]: the rows request r has read
  source,     \* source[r]: path that request r writes into its row
  unchecked,  \* unchecked[r]: rows whose other references are not counted yet
  doomed      \* doomed[r]: rows whose object request r deletes next

reqVars == <<pc, by, batch, source, unchecked, doomed>>
b2Vars == <<objects, thumbs>>
histVars == <<condemned, crossed, mislaid>>
vars == <<row, path, b2Vars, present, late, nightly, histVars, reqVars>>

Awaits == {"upload.row", "copy.check", "copy.row", "update.save", "delete",
           "account.files", "account.user"}
Deletions == {"delete", "account.files", "account.user"}

TypeOK ==
  /\ row \in [Files -> {"none", "active", "trashed", "gone"}]
  /\ path \in [Files -> Files \cup {NoFile}]
  /\ \A f \in Files : row[f] # "none" => path[f] # NoFile
  /\ objects \subseteq Files /\ thumbs \subseteq Files
  /\ present \subseteq Users
  /\ late \subseteq {f \in Files : row[f] = "trashed"}
  /\ nightly \in BOOLEAN
  /\ condemned \subseteq Files /\ crossed \subseteq Files /\ mislaid \subseteq Files
  /\ pc \in [Requests -> Awaits \cup {"idle"}]
  /\ by \in [Requests -> Users \cup {NoUser}]
  /\ batch \in [Requests -> SUBSET Files]
  /\ source \in [Requests -> Files \cup {NoFile}]
  /\ unchecked \in [Requests -> SUBSET Files]
  /\ doomed \in [Requests -> SUBSET Files]

Init ==
  /\ row = [f \in Files |-> "none"]
  /\ path = [f \in Files |-> NoFile]
  /\ objects = {} /\ thumbs = {}
  /\ present = Users
  /\ late = {}
  /\ nightly = FALSE
  /\ condemned = {} /\ crossed = {} /\ mislaid = {}
  /\ pc = [r \in Requests |-> "idle"]
  /\ by = [r \in Requests |-> NoUser]
  /\ batch = [r \in Requests |-> {}]
  /\ source = [r \in Requests |-> NoFile]
  /\ unchecked = [r \in Requests |-> {}]
  /\ doomed = [r \in Requests |-> {}]

-----------------------------------------------------------------------------
(* Helpers *)

Exists(f) == row[f] \in {"active", "trashed"}

\* The rows of a user, the trashed ones included (withDeleted).
RowsOf(u) == {f \in Files : Owner[f] = u /\ Exists(f)}

\* A row id nobody has used yet.
Fresh(f) == row[f] = "none" /\ \A r \in Requests : f \notin batch[r]

\* hasOtherActiveReferences: trashed rows do not count.
HasOtherActiveReferences(f) ==
  \E g \in Files \ {f} : row[g] = "active" /\ path[g] = path[f]

\* The objects that the rows in S point to.
ObjectsOf(S) == {path[f] : f \in S}

\* Requests on their way to delete the object p with one of its rows, and copies of
\* p on their way to their row.
Deletes(r, p) == pc[r] \in Deletions /\ \E f \in batch[r] : path[f] = p
Copies(r, p) == pc[r] \in {"copy.check", "copy.row"} /\ source[r] = p

\* A permanent deletion of the rows in S begins; uncounted are the rows in S that
\* are deleted without a count of other references.
Condemn(S, uncounted) ==
  /\ condemned' = condemned \cup S
  /\ crossed' = crossed
       \cup {p \in ObjectsOf(S) : \E r \in Requests : Copies(r, p)}
       \cup {path[f] : f \in {g \in uncounted :
              \E h \in Files \ S : row[h] = "active" /\ path[h] = path[g]}}
  /\ UNCHANGED mislaid

\* The rows in S become active; for those that were not, a deletion may have been
\* asked for the same object, and it did not count them.
Revive(S) ==
  crossed' = crossed \cup {p \in ObjectsOf({f \in S : row[f] # "active"}) :
                            p \in ObjectsOf(condemned)}

\* Rows whose deleted_at is set to now, and back to null.
SoftDelete(S) ==
  /\ row' = [f \in Files |-> IF f \in S /\ Exists(f) THEN "trashed" ELSE row[f]]
  /\ late' = late \ S
Restore(S) ==
  /\ row' = [f \in Files |-> IF f \in S /\ Exists(f) THEN "active" ELSE row[f]]
  /\ late' = late \ S
\* DELETE of the rows in S; one that is not there any more is no error.
Remove(S) ==
  /\ row' = [f \in Files |-> IF f \in S /\ Exists(f) THEN "gone" ELSE row[f]]
  /\ late' = late \ S
\* repository.save of an entity of user u: inserts the row, or writes every
\* column back (deleted_at included); without the user row the insert fails.
SaveRow(f, p, u) ==
  IF u \in present
  THEN /\ row' = [row EXCEPT ![f] = "active"]
       /\ path' = [path EXCEPT ![f] = p]
       /\ late' = late \ {f}
  ELSE UNCHANGED <<row, path, late>>

Begin(r, call, await, u, S, p) ==
  /\ call \in Calls
  /\ u \in present
  /\ pc[r] = "idle"
  /\ pc' = [pc EXCEPT ![r] = await]
  /\ by' = [by EXCEPT ![r] = u]
  /\ batch' = [batch EXCEPT ![r] = S]
  /\ source' = [source EXCEPT ![r] = p]

Answer(r) ==
  /\ pc' = [pc EXCEPT ![r] = "idle"]
  /\ by' = [by EXCEPT ![r] = NoUser]
  /\ batch' = [batch EXCEPT ![r] = {}]
  /\ source' = [source EXCEPT ![r] = NoFile]
  /\ unchecked' = [unchecked EXCEPT ![r] = {}]
  /\ doomed' = [doomed EXCEPT ![r] = {}]

-----------------------------------------------------------------------------
(* Faulty variants of the operations below.  They are no part of Next: each is a  *)
(* mistake this code could have made, and the properties are tested against it.  *)

\* The upload to B2 is not awaited, and its failure not noticed.
UploadObjectUnawaited(r, f) ==
  /\ Fresh(f)
  /\ Begin(r, "upload", "upload.row", Owner[f], {f}, f)
  /\ objects' = objects \cup {f} \/ (Failures /\ UNCHANGED objects)
  /\ thumbs' = thumbs \cup {f}
  /\ UNCHANGED <<row, path, present, late, nightly, histVars, unchecked, doomed>>

\* The object is deleted without a look at the other rows.
CountReferencesNever(r, f) ==
  /\ f \in unchecked[r]
  /\ unchecked' = [unchecked EXCEPT ![r] = @ \ {f}]
  /\ doomed' = [doomed EXCEPT ![r] = @ \cup {f}]
  /\ UNCHANGED <<row, path, b2Vars, present, late, nightly, histVars,
                 pc, by, batch, source>>

\* The row to be deleted counts as another reference.
CountReferencesItself(r, f) ==
  /\ f \in unchecked[r]
  /\ unchecked' = [unchecked EXCEPT ![r] = @ \ {f}]
  /\ doomed' = [doomed EXCEPT ![r] =
                  IF \E g \in Files : row[g] = "active" /\ path[g] = path[f]
                  THEN @ ELSE @ \cup {f}]
  /\ UNCHANGED <<row, path, b2Vars, present, late, nightly, histVars,
                 pc, by, batch, source>>

\* The query for the rows of a deleted account lacks its user.
AccountDeleteReadAll(r, u, await) ==
  /\ Begin(r, "account", await, u, RowsOf(u), NoFile)
  /\ doomed' = [doomed EXCEPT ![r] = {f \in Files : Exists(f)}]
  /\ Condemn(RowsOf(u), RowsOf(u))
  /\ UNCHANGED <<row, path, b2Vars, present, late, nightly, unchecked>>

-----------------------------------------------------------------------------
(* uploadFileWithThumbnails: the objects first, then the row *)

UploadObject(r, f) ==
  /\ Fresh(f)
  /\ Begin(r, "upload", "upload.row", Owner[f], {f}, f)
  /\ objects' = objects \cup {f}
  /\ thumbs' = thumbs \cup {f}
  /\ UNCHANGED <<row, path, present, late, nightly, histVars, unchecked, doomed>>

UploadRow(r) ==
  /\ pc[r] = "upload.row"
  /\ \E f \in batch[r] : SaveRow(f, source[r], by[r])
  /\ mislaid' = mislaid \cup (IF by[r] \in present THEN {} ELSE {source[r]})
  /\ Answer(r)
  /\ UNCHANGED <<b2Vars, present, nightly, condemned, crossed>>

-----------------------------------------------------------------------------
(* saveToAccount: a row for user u, pointing to the object of row f.  The share *)
(* may be the user's own.                                                       *)

\* Files bounds the rows: there is a new id left, or the user has a copy.
CopyRead(r, u, f) ==
  /\ row[f] = "active"
  /\ \E g \in Files : Owner[g] = u /\ (Fresh(g) \/ (row[g] = "active" /\ path[g] = path[f]))
  /\ Begin(r, "save", "copy.check", u, {}, path[f])
  /\ crossed' = IF f \in condemned \/ \E q \in Requests : Deletes(q, path[f])
                THEN crossed \cup {path[f]} ELSE crossed
  /\ UNCHANGED <<row, path, b2Vars, present, late, nightly, condemned, mislaid,
                 unchecked, doomed>>

AlreadySaved(r) ==
  \E h \in Files : Owner[h] = by[r] /\ row[h] = "active" /\ path[h] = source[r]

CopySkip(r) ==
  /\ pc[r] = "copy.check"
  /\ AlreadySaved(r)
  /\ Answer(r)
  /\ UNCHANGED <<row, path, b2Vars, present, late, nightly, histVars>>

CopyCheck(r) ==
  /\ pc[r] = "copy.check"
  /\ ~AlreadySaved(r)
  /\ pc' = [pc EXCEPT ![r] = "copy.row"]
  /\ UNCHANGED <<row, path, b2Vars, present, late, nightly, histVars,
                 by, batch, source, unchecked, doomed>>

\* The row gets a new id.
CopyRow(r) ==
  /\ pc[r] = "copy.row"
  /\ \E g \in Files : Owner[g] = by[r] /\ Fresh(g) /\ SaveRow(g, source[r], by[r])
  /\ Answer(r)
  /\ UNCHANGED <<b2Vars, present, nightly, histVars>>

-----------------------------------------------------------------------------
(* updateFile: favourite, name or folder, saved with the whole entity *)

UpdateRead(r, f) ==
  /\ row[f] = "active"
  /\ Begin(r, "update", "update.save", Owner[f], {f}, path[f])
  /\ UNCHANGED <<row, path, b2Vars, present, late, nightly, histVars,
                 unchecked, doomed>>

UpdateSave(r) ==
  /\ pc[r] = "update.save"
  /\ \E f \in batch[r] : SaveRow(f, source[r], by[r]) /\ Revive({f})
  /\ Answer(r)
  /\ UNCHANGED <<b2Vars, present, nightly, condemned, mislaid>>

-----------------------------------------------------------------------------
(* moveToTrash, moveToTrashBulk, deleteFolder's files; restoreFilesBulk,     *)
(* restoreFolder's files: one UPDATE each                                    *)

MoveToTrash(u, S) ==
  /\ "trash" \in Calls
  /\ S # {} /\ S \subseteq {f \in RowsOf(u) : row[f] = "active"}
  /\ SoftDelete(S)
  /\ UNCHANGED <<path, b2Vars, present, nightly, histVars, reqVars>>

RestoreFiles(u, S) ==
  /\ "restore" \in Calls
  /\ S # {} /\ S \subseteq {f \in RowsOf(u) : row[f] = "trashed"}
  /\ Restore(S)
  /\ Revive(S)
  /\ UNCHANGED <<path, b2Vars, present, nightly, condemned, mislaid, reqVars>>

-----------------------------------------------------------------------------
(* Permanent deletion: single, bulk, and emptying the trash *)

DeleteRead(r, u, S) ==
  /\ S # {} /\ S \subseteq RowsOf(u)
  /\ Begin(r, "delete", "delete", u, S, NoFile)
  /\ unchecked' = [unchecked EXCEPT ![r] = S]
  /\ Condemn(S, {})
  /\ UNCHANGED <<row, path, b2Vars, present, late, nightly, doomed>>

\* A row the count of f takes for a reference is being deleted itself.
CountsDoomedRow(f) ==
  \E g \in Files \ {f}, q \in Requests :
    row[g] = "active" /\ path[g] = path[f] /\ pc[q] \in Deletions /\ g \in batch[q]

\* The count decides whether the object is deleted; when it fails, the object
\* stays.  The files of a batch are counted and deleted side by side.
CountReferences(r, f) ==
  /\ f \in unchecked[r]
  /\ unchecked' = [unchecked EXCEPT ![r] = @ \ {f}]
  /\ \/ /\ doomed' = [doomed EXCEPT ![r] =
                        IF HasOtherActiveReferences(f) THEN @ ELSE @ \cup {f}]
        /\ mislaid' = IF CountsDoomedRow(f) THEN mislaid \cup {path[f]} ELSE mislaid
     \/ /\ Failures
        /\ UNCHANGED doomed
        /\ mislaid' = mislaid \cup {path[f]}
  /\ UNCHANGED <<row, path, b2Vars, present, late, nightly, condemned, crossed,
                 pc, by, batch, source>>

\* b2.deleteFiles logs a failure and goes on.  The user's own account deletion
\* (account.files) leaves the large thumbnails out of its list of paths.
DeleteObject(r, f) ==
  /\ f \in doomed[r]
  /\ doomed' = [doomed EXCEPT ![r] = @ \ {f}]
  /\ \/ objects' = objects \ {path[f]}
     \/ Failures /\ UNCHANGED objects
  /\ \/ pc[r] # "account.files" /\ thumbs' = thumbs \ {path[f]}
     \/ (Failures \/ pc[r] = "account.files") /\ UNCHANGED thumbs
  /\ mislaid' = mislaid \cup ({path[f]} \cap (objects' \cup thumbs'))
  /\ UNCHANGED <<row, path, present, late, nightly, condemned, crossed,
                 pc, by, batch, source, unchecked>>

DeleteRows(r) ==
  /\ pc[r] = "delete"
  /\ unchecked[r] = {} /\ doomed[r] = {}
  /\ Remove(batch[r])
  /\ Answer(r)
  /\ UNCHANGED <<path, b2Vars, present, nightly, histVars>>

-----------------------------------------------------------------------------
(* Deletion without a count: a folder's subtree holding the rows S, and a    *)
(* whole account (by its user, or by an administrator)                       *)

FolderDeleteRead(r, u, S) ==
  /\ S # {} /\ S \subseteq RowsOf(u)
  /\ Begin(r, "folder", "delete", u, S, NoFile)
  /\ doomed' = [doomed EXCEPT ![r] = S]
  /\ Condemn(S, S)
  /\ UNCHANGED <<row, path, b2Vars, present, late, nightly, unchecked>>

AccountDeleteRead(r, u, await) ==
  /\ Begin(r, "account", await, u, RowsOf(u), NoFile)
  /\ doomed' = [doomed EXCEPT ![r] = RowsOf(u)]
  /\ Condemn(RowsOf(u), RowsOf(u))
  /\ UNCHANGED <<row, path, b2Vars, present, late, nightly, unchecked>>

\* users.service deletes the File rows before the user, ...
AccountDeleteFiles(r) ==
  /\ pc[r] = "account.files"
  /\ doomed[r] = {}
  /\ Remove(RowsOf(by[r]))
  /\ mislaid' = mislaid \cup ObjectsOf(RowsOf(by[r]) \ batch[r])
  /\ pc' = [pc EXCEPT ![r] = "account.user"]
  /\ UNCHANGED <<path, b2Vars, present, nightly, condemned, crossed, by, batch,
                 source, unchecked, doomed>>

\* ... admin.service only the user; ON DELETE CASCADE takes the rows that are left.
AccountDeleteUser(r) ==
  /\ pc[r] = "account.user"
  /\ doomed[r] = {}
  /\ present' = present \ {by[r]}
  /\ Remove(RowsOf(by[r]))
  /\ mislaid' = mislaid \cup ObjectsOf(RowsOf(by[r]) \ batch[r])
  /\ Answer(r)
  /\ UNCHANGED <<path, b2Vars, nightly, condemned, crossed>>

-----------------------------------------------------------------------------
(* The trash retention job *)

RetentionPasses(f) ==
  /\ "purge" \in Calls
  /\ row[f] = "trashed" /\ f \notin late
  /\ late' = late \cup {f}
  /\ UNCHANGED <<row, path, b2Vars, present, nightly, histVars, reqVars>>

NightFalls ==
  /\ "purge" \in Calls
  /\ ~nightly
  /\ nightly' = TRUE
  /\ UNCHANGED <<row, path, b2Vars, present, late, histVars, reqVars>>

\* find() without withDeleted only sees rows whose deleted_at is null, and of
\* those the query wants the ones whose deleted_at is before the cut-off.
ExpiredFiles == {f \in late : row[f] = "active"}

\* The query returns no row in any reachable state, so that the code below it never
\* runs: its counts, deletions (of objects no other active row needs) and removals
\* are one step here, without their failures.
PurgeExpiredTrash ==
  /\ nightly
  /\ nightly' = FALSE
  /\ Remove(ExpiredFiles)
  /\ LET unneeded == ObjectsOf({f \in ExpiredFiles : ~HasOtherActiveReferences(f)})
     IN  objects' = objects \ unneeded /\ thumbs' = thumbs \ unneeded
  /\ UNCHANGED <<path, present, histVars, reqVars>>

-----------------------------------------------------------------------------
\* An awaited call rejects, or the server restarts, and the handler ends.
Abort(r) ==
  /\ Failures
  /\ pc[r] # "idle"
  /\ mislaid' = mislaid \cup (IF pc[r] = "upload.row" THEN {source[r]} ELSE {})
  /\ Answer(r)
  /\ UNCHANGED <<row, path, b2Vars, present, late, nightly, condemned, crossed>>

HandlerStep(r) ==
  \/ UploadRow(r)
  \/ CopySkip(r)
  \/ CopyCheck(r)
  \/ CopyRow(r)
  \/ UpdateSave(r)
  \/ \E f \in Files : CountReferences(r, f) \/ DeleteObject(r, f)
  \/ DeleteRows(r)
  \/ AccountDeleteFiles(r)
  \/ AccountDeleteUser(r)

NewRequest(r) ==
  \/ \E f \in Files : UploadObject(r, f) \/ UpdateRead(r, f)
  \/ \E u \in Users, f \in Files : CopyRead(r, u, f)
  \/ \E u \in Users, S \in SUBSET Files :
       DeleteRead(r, u, S) \/ FolderDeleteRead(r, u, S)
  \/ \E u \in Users, await \in {"account.files", "account.user"} :
       AccountDeleteRead(r, u, await)

\* All ids are used up, or nobody calls: the server waits.
Waiting == (\A r \in Requests : pc[r] = "idle") /\ UNCHANGED vars

Next ==
  \/ \E r \in Requests : NewRequest(r) \/ HandlerStep(r) \/ Abort(r)
  \/ \E u \in Users, S \in SUBSET Files : MoveToTrash(u, S) \/ RestoreFiles(u, S)
  \/ \E f \in Files : RetentionPasses(f)
  \/ NightFalls
  \/ PurgeExpiredTrash
  \/ Waiting

Spec == Init /\ [][Next]_vars

\* Handlers go on, and the nightly job is run every night.
FairSpec ==
  /\ Spec
  /\ \A r \in Requests : WF_vars(HandlerStep(r))
  /\ \A f \in Files : WF_vars(RetentionPasses(f))
  /\ WF_vars(NightFalls)
  /\ WF_vars(PurgeExpiredTrash)

-----------------------------------------------------------------------------
(* Properties *)

\* "Used before hard-deleting B2 objects to protect shared copies": a file in
\* somebody's library, whose permanent deletion nobody asked for, has its object,
\* whatever other users do with their rows of the same object.
ActiveRowHasObject ==
  \A f \in Files :
    row[f] = "active" /\ f \notin condemned => path[f] \in objects \cap thumbs

\* The same under any overlap, failure and call, for every object whose deletion
\* did not cross a copy, a returning row, or an active row it does not count
\* (deleteFilesPermanentlyBulk, emptyTrashBatch, saveToAccount, updateFile).
UncrossedRowHasObject ==
  \A f \in Files :
    row[f] = "active" /\ f \notin condemned /\ path[f] \notin crossed
      => path[f] \in objects \cap thumbs

\* A file has its object as long as nobody asked for the permanent deletion of any
\* row of the object, whatever is uploaded, copied, trashed, restored and updated.
UntouchedRowHasObject ==
  \A f \in Files :
    row[f] = "active" /\ path[f] \notin ObjectsOf(condemned)
      => path[f] \in objects \cap thumbs

\* "Permanently delete a file from B2 storage and database": once no request is
\* running, every object at B2 is reachable from some row, unless it was mislaid
\* by a failure, by two deletions that counted each other's rows, or by the
\* deletion of an account.
NoLeakedObject ==
  (\A r \in Requests : pc[r] = "idle")
    => \A p \in (objects \cup thumbs) \ mislaid :
         \E f \in Files : Exists(f) /\ path[f] = p

\* Why they are true: a row points to an object that some upload has inserted a row
\* for, and so does a handler that is about to save a row; ...
KnownObjects ==
  /\ \A f \in Files : row[f] # "none" => path[f] \in Files /\ row[path[f]] # "none"
  /\ \A r \in Requests : pc[r] \in {"copy.check", "copy.row", "update.save"} =>
       source[r] \in Files /\ row[source[r]] # "none"

\* ... a handler that saves a row saves a new one with its object in place, or the
\* one it read with the object it had; ...
SavesKnownRow ==
  /\ \A r \in Requests :
       /\ pc[r] = "upload.row" =>
            batch[r] = {source[r]} /\ source[r] \in objects \cap thumbs
       /\ pc[r] = "upload.row" => \A f \in batch[r] : row[f] = "none"
       /\ pc[r] = "update.save" =>
            \A f \in batch[r] : row[f] # "none" /\ path[f] = source[r]
  /\ \A r, q \in Requests :
       r # q /\ pc[r] = "upload.row" => batch[r] \cap batch[q] = {}

\* ... only condemned rows are worked on by deletions, and no object is crossed
\* before one of its rows is condemned; ...
OnlyCondemnedDeleted ==
  /\ \A f \in condemned : row[f] # "none"
  /\ crossed \subseteq ObjectsOf(condemned)
  /\ \A r \in Requests :
       /\ unchecked[r] \cup doomed[r] \subseteq batch[r]
       /\ pc[r] \in Deletions => batch[r] \subseteq condemned
       /\ pc[r] # "delete" => unchecked[r] = {}
       /\ pc[r] \notin Deletions => doomed[r] = {}

\* ... the object of a row not condemned is there whatever becomes of the row, save
\* that a trashed row loses it to the deletion of another row; ...
KeptUntilCondemned ==
  \A f \in Files :
    row[f] # "none" /\ f \notin condemned /\ path[f] \notin crossed =>
      \/ path[f] \in objects \cap thumbs
      \/ row[f] # "active" /\ path[f] \in ObjectsOf(condemned)

\* ... nobody deletes an object that is being copied, ...
CopiesHaveObject ==
  \A r \in Requests, p \in Files :
    Copies(r, p) /\ p \notin crossed =>
      p \in objects \cap thumbs /\ \A q \in Requests : ~Deletes(q, p)

\* ... a deletion only dooms an object that no other active row needs, ...
DoomedUnneeded ==
  \A r \in Requests : \A f \in doomed[r], g \in Files :
    path[f] \notin crossed /\ row[g] = "active" /\ path[g] = path[f] => g \in condemned

\* ... and each object that was not mislaid belongs to an upload under way or to a
\* row whose deletion, if it is under way, has yet to look at it or to delete it.
ObjectsReachable ==
  \A p \in (objects \cup thumbs) \ mislaid :
    \/ \E r \in Requests : pc[r] = "upload.row" /\ source[r] = p
    \/ \E f \in Files :
         /\ Exists(f) /\ path[f] = p
         /\ \A r \in Requests : pc[r] \in Deletions /\ f \in batch[r] =>
              f \in unchecked[r] \cup doomed[r]

\* The inductive invariant of the file store (FileStore_proofs).
SharedInv ==
  /\ TypeOK
  /\ KnownObjects
  /\ SavesKnownRow
  /\ OnlyCondemnedDeleted
  /\ KeptUntilCondemned
  /\ CopiesHaveObject
  /\ DoomedUnneeded
  /\ ObjectsReachable

\* "Cannot be undone": a permanently deleted row does not come back.
PermanentlyGone == [][\A f \in Files : row[f] = "gone" => row'[f] = "gone"]_vars

\* "Run daily at 3:00 AM to purge expired trashed files": a file whose retention
\* has passed leaves the trash.
ExpiredTrashPurged == \A f \in Files : f \in late ~> f \notin late

=============================================================================
