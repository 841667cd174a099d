------------------------------ MODULE FolderTree ------------------------------
(***************************************************************************)
(* The folder tree of one user (folders.service.ts).                        *)
(*                                                                         *)
(* A move walks up from its target, one query per level, to make sure that  *)
(* it does not put a folder below itself; trashing, restoring and           *)
(* permanently deleting walk down, one query per folder, to collect the     *)
(* subtree.  All of them act on what they have read while other requests    *)
(* change the tree.  (What becomes of the files is in FileStore.)           *)
(***************************************************************************)
EXTENDS Naturals, FiniteSets

CONSTANTS
  Folders,    \* folder ids that may be handed out
  Root,       \* parent_folder_id is null
  MaxDepth,   \* levels the upward walk looks at (50 in the code)
  Requests,   \* handlers that may be in flight at the same time
  Failures    \* TRUE: awaited calls may fail and the server may restart

ASSUME RootAssumption == Root \notin Folders
ASSUME DepthAssumption == MaxDepth \in Nat \ {0} /\ Failures \in BOOLEAN

VARIABLES
  state,     \* state[f]: "none", "active", "trashed" (deleted_at set), "gone"
  parent,    \* parent[f]: column parent_folder_id
  pc,        \* pc[r]: the await at which request r stands
  on,        \* on[r]: the folder request r works on (Root: none)
  into,      \* into[r]: parent_folder_id in the entity request r has loaded
  loaded,    \* loaded[r]: whether that entity was active or trashed
  cur,       \* cur[r]: where the upward walk of request r is
  depth,     \* depth[r]: how many levels it has looked at
  queue,     \* queue[r]: folders whose children request r still has to query
  level      \* level[r][f]: depth at which request r found f, 0 if it did not

reqVars == <<pc, on, into, loaded, cur, depth, queue, level>>
vars == <<state, parent, reqVars>>

Awaits == {"create.save", "move.target", "move.walk", "save",
           "trash.collect", "restore.collect", "restore.parent",
           "restore.root", "restore.rows", "purge.collect", "purge.rows"}
Unfound == [f \in Folders |-> 0]

TypeOK ==
  /\ state \in [Folders -> {"none", "active", "trashed", "gone"}]
  /\ parent \in [Folders -> Folders \cup {Root}]
  /\ pc \in [Requests -> Awaits \cup {"idle"}]
  /\ on \in [Requests -> Folders \cup {Root}]
  /\ into \in [Requests -> Folders \cup {Root}]
  /\ loaded \in [Requests -> {"none", "active", "trashed"}]
  /\ cur \in [Requests -> Folders \cup {Root}]
  /\ depth \in [Requests -> 0 .. MaxDepth]
  /\ queue \in [Requests -> SUBSET Folders]
  /\ level \in [Requests -> [Folders -> Nat]]

Init ==
  /\ state = [f \in Folders |-> "none"]
  /\ parent = [f \in Folders |-> Root]
  /\ pc = [r \in Requests |-> "idle"]
  /\ on = [r \in Requests |-> Root]
  /\ into = [r \in Requests |-> Root]
  /\ loaded = [r \in Requests |-> "none"]
  /\ cur = [r \in Requests |-> Root]
  /\ depth = [r \in Requests |-> 0]
  /\ queue = [r \in Requests |-> {}]
  /\ level = [r \in Requests |-> Unfound]

-----------------------------------------------------------------------------
(* Helpers *)

Exists(f) == state[f] \in {"active", "trashed"}

\* Request r enters a handler on f and has read the entity of f.
Begin(r, await, f, p, st) ==
  /\ pc[r] = "idle"
  /\ pc' = [pc EXCEPT ![r] = await]
  /\ on' = [on EXCEPT ![r] = f]
  /\ into' = [into EXCEPT ![r] = p]
  /\ loaded' = [loaded EXCEPT ![r] = st]

Answer(r) ==
  /\ pc' = [pc EXCEPT ![r] = "idle"]
  /\ on' = [on EXCEPT ![r] = Root]
  /\ into' = [into EXCEPT ![r] = Root]
  /\ loaded' = [loaded EXCEPT ![r] = "none"]
  /\ cur' = [cur EXCEPT ![r] = Root]
  /\ depth' = [depth EXCEPT ![r] = 0]
  /\ queue' = [queue EXCEPT ![r] = {}]
  /\ level' = [level EXCEPT ![r] = Unfound]

\* repository.save of a folder entity: both columns are written back as loaded,
\* a missing row is inserted; a parent that no longer exists fails the statement.
SaveFolder(f, p, st) ==
  IF p = Root \/ Exists(p)
  THEN /\ state' = [state EXCEPT ![f] = st]
       /\ parent' = [parent EXCEPT ![f] = p]
  ELSE UNCHANGED <<state, parent>>

-----------------------------------------------------------------------------
(* Faulty variants of the operations below.  They are no part of Next: each is a  *)
(* mistake this code could have made, and the properties are tested against it.  *)

\* The target of a move is looked up, its ancestors are not.
MoveTargetUnwalked(r) ==
  /\ pc[r] = "move.target"
  /\ state[into[r]] = "active"
  /\ pc' = [pc EXCEPT ![r] = "save"]
  /\ UNCHANGED <<state, parent, on, into, loaded, cur, depth, queue, level>>

\* A visited folder stays in the queue.
CollectAgain(r, c) ==
  /\ pc[r] \in {"trash.collect", "restore.collect", "purge.collect"}
  /\ c \in queue[r]
  /\ queue' = [queue EXCEPT ![r] =
                 @ \cup {f \in Folders : parent[f] = c /\ Exists(f)}]
  /\ UNCHANGED <<state, parent, pc, on, into, loaded, cur, depth, level>>

\* The walk down looks no further than the subfolders.
CollectSubfolders(r, c) ==
  /\ pc[r] \in {"trash.collect", "restore.collect", "purge.collect"}
  /\ c \in queue[r]
  /\ queue' = [queue EXCEPT ![r] = @ \ {c}]
  /\ level' = [level EXCEPT ![r] =
                 [f \in Folders |-> IF parent[f] = c /\ Exists(f) THEN 1 ELSE @[f]]]
  /\ UNCHANGED <<state, parent, pc, on, into, loaded, cur, depth>>

\* A restored folder stays below its parent, wherever that is.
RestoreParentUnchecked(r) ==
  /\ pc[r] = "restore.collect" /\ queue[r] = {}
  /\ pc' = [pc EXCEPT ![r] = "restore.rows"]
  /\ UNCHANGED <<state, parent, on, into, loaded, cur, depth, queue, level>>

-----------------------------------------------------------------------------
(* createFolder *)

CreateRead(r, f, p) ==
  /\ state[f] = "none"
  /\ \A q \in Requests : on[q] # f          \* a new id
  /\ p # Root => state[p] = "active"
  /\ Begin(r, "create.save", f, p, "active")
  /\ UNCHANGED <<state, parent, cur, depth, queue, level>>

CreateSave(r) ==
  /\ pc[r] = "create.save"
  /\ SaveFolder(on[r], into[r], "active")
  /\ Answer(r)

-----------------------------------------------------------------------------
(* updateFolder and moveFolderToFolder *)

RenameRead(r, f) ==
  /\ state[f] = "active"
  /\ Begin(r, "save", f, parent[f], "active")
  /\ UNCHANGED <<state, parent, cur, depth, queue, level>>

\* Moving a folder into itself is refused at once; the root needs no checks.
MoveRead(r, f, t) ==
  /\ state[f] = "active"
  /\ t # f
  /\ Begin(r, IF t = Root THEN "save" ELSE "move.target", f, t, "active")
  /\ UNCHANGED <<state, parent, cur, depth, queue, level>>

MoveTarget(r) ==
  /\ pc[r] = "move.target"
  /\ state[into[r]] = "active"
  /\ pc' = [pc EXCEPT ![r] = "move.walk"]
  /\ cur' = [cur EXCEPT ![r] = into[r]]
  /\ UNCHANGED <<state, parent, on, into, loaded, depth, queue, level>>

MoveNoTarget(r) ==
  /\ pc[r] = "move.target"
  /\ state[into[r]] # "active"
  /\ Answer(r)
  /\ UNCHANGED <<state, parent>>

\* isFolderDescendant looks at one folder after the other ...
WalkEnded(r) == cur[r] = Root \/ depth[r] >= MaxDepth

MoveRefused(r) ==
  /\ pc[r] = "move.walk"
  /\ ~WalkEnded(r)
  /\ cur[r] = on[r]
  /\ Answer(r)
  /\ UNCHANGED <<state, parent>>

\* ... and stops where the query, which does not see trashed rows, finds none.
MoveWalk(r) ==
  /\ pc[r] = "move.walk"
  /\ ~WalkEnded(r)
  /\ cur[r] # on[r]
  /\ cur' = [cur EXCEPT ![r] = IF state[@] = "active" THEN parent[@] ELSE Root]
  /\ depth' = [depth EXCEPT ![r] = @ + 1]
  /\ UNCHANGED <<state, parent, pc, on, into, loaded, queue, level>>

Save(r) ==
  /\ pc[r] = "save" \/ (pc[r] = "move.walk" /\ WalkEnded(r))
  /\ SaveFolder(on[r], into[r], loaded[r])
  /\ Answer(r)

-----------------------------------------------------------------------------
(* collectDescendantFolderIds: the children of one queued folder *)

Children(r, c) ==
  {f \in Folders : parent[f] = c /\ IF pc[r] = "trash.collect"
                                    THEN state[f] = "active" ELSE Exists(f)}

\* The queue is first in, first out: the folders nearest to on[r] come first.
Collect(r, c) ==
  /\ pc[r] \in {"trash.collect", "restore.collect", "purge.collect"}
  /\ c \in queue[r]
  /\ \A d \in queue[r] : level[r][c] <= level[r][d]
  /\ queue' = [queue EXCEPT ![r] = (@ \ {c}) \cup Children(r, c)]
  /\ level' = [level EXCEPT ![r] =
                 [f \in Folders |-> IF f \in Children(r, c) THEN level[r][c] + 1
                                    ELSE level[r][f]]]
  /\ UNCHANGED <<state, parent, pc, on, into, loaded, cur, depth>>

Collected(r, await) == pc[r] = await /\ queue[r] = {}

\* The folder itself and the descendants found.
Subtree(r) == {on[r]} \cup {f \in Folders : level[r][f] > 0}

BeginCollect(r, await, f) ==
  /\ Begin(r, await, f, parent[f], state[f])
  /\ queue' = [queue EXCEPT ![r] = {f}]
  /\ UNCHANGED <<state, parent, cur, depth, level>>

-----------------------------------------------------------------------------
(* deleteFolder *)

TrashRead(r, f) ==
  /\ state[f] = "active"
  /\ BeginCollect(r, "trash.collect", f)

\* One UPDATE of the folders; the one of the files in them, which follows, is
\* MoveToTrash of FileStore.
TrashRows(r) ==
  /\ Collected(r, "trash.collect")
  /\ state' = [f \in Folders |-> IF f \in Subtree(r) /\ Exists(f)
                                 THEN "trashed" ELSE state[f]]
  /\ Answer(r)
  /\ UNCHANGED parent

-----------------------------------------------------------------------------
(* restoreFolder *)

RestoreRead(r, f) ==
  /\ Exists(f)
  /\ BeginCollect(r, "restore.collect", f)

\* A parent that is not active any more sends the folder to the root.
RestoreParent(r) ==
  /\ Collected(r, "restore.collect")
  /\ pc' = [pc EXCEPT ![r] =
              IF into[r] # Root /\ state[into[r]] # "active"
              THEN "restore.root" ELSE "restore.rows"]
  /\ UNCHANGED <<state, parent, on, into, loaded, cur, depth, queue, level>>

RestoreToRoot(r) ==
  /\ pc[r] = "restore.root"
  /\ SaveFolder(on[r], Root, loaded[r])
  /\ pc' = [pc EXCEPT ![r] = "restore.rows"]
  /\ UNCHANGED <<on, into, loaded, cur, depth, queue, level>>

\* One UPDATE of the folders; the one of the files is RestoreFiles of FileStore.
RestoreRows(r) ==
  /\ pc[r] = "restore.rows"
  /\ state' = [f \in Folders |-> IF f \in Subtree(r) /\ Exists(f)
                                 THEN "active" ELSE state[f]]
  /\ Answer(r)
  /\ UNCHANGED parent

-----------------------------------------------------------------------------
(* deleteFolderPermanently *)

PurgeRead(r, f) ==
  /\ Exists(f)
  /\ BeginCollect(r, "purge.collect", f)

\* The list [descendants..., folder] is worked off from its end: the folder
\* itself, then the descendants, the deepest first.  ON DELETE SET NULL puts
\* what is still below a deleted folder at the root.
DeleteFolderRow(r, f) ==
  /\ state' = [state EXCEPT ![f] = IF Exists(f) THEN "gone" ELSE @]
  /\ parent' = [g \in Folders |-> IF parent[g] = f THEN Root ELSE parent[g]]

PurgeFolder(r) ==
  /\ Collected(r, "purge.collect")
  /\ DeleteFolderRow(r, on[r])
  /\ pc' = [pc EXCEPT ![r] = "purge.rows"]
  /\ UNCHANGED <<on, into, loaded, cur, depth, queue, level>>

PurgeDescendant(r, f) ==
  /\ pc[r] = "purge.rows"
  /\ level[r][f] > 0
  /\ \A g \in Folders : level[r][g] <= level[r][f]
  /\ DeleteFolderRow(r, f)
  /\ level' = [level EXCEPT ![r][f] = 0]
  /\ UNCHANGED <<pc, on, into, loaded, cur, depth, queue>>

PurgeDone(r) ==
  /\ pc[r] = "purge.rows"
  /\ level[r] = Unfound
  /\ Answer(r)
  /\ UNCHANGED <<state, parent>>

-----------------------------------------------------------------------------
\* An awaited call rejects, or the server restarts, and the handler ends.
Abort(r) ==
  /\ Failures
  /\ pc[r] # "idle"
  /\ Answer(r)
  /\ UNCHANGED <<state, parent>>

NewRequest(r) ==
  \E f \in Folders :
    \/ \E p \in Folders \cup {Root} : CreateRead(r, f, p) \/ MoveRead(r, f, p)
    \/ RenameRead(r, f)
    \/ TrashRead(r, f)
    \/ RestoreRead(r, f)
    \/ PurgeRead(r, f)

HandlerStep(r) ==
  \/ CreateSave(r)
  \/ MoveTarget(r)
  \/ MoveNoTarget(r)
  \/ MoveRefused(r)
  \/ MoveWalk(r)
  \/ Save(r)
  \/ \E f \in Folders : Collect(r, f) \/ PurgeDescendant(r, f)
  \/ TrashRows(r)
  \/ RestoreParent(r)
  \/ RestoreToRoot(r)
  \/ RestoreRows(r)
  \/ PurgeFolder(r)
  \/ PurgeDone(r)

\* All ids are used up, or nobody calls: the server waits.
Waiting == (\A r \in Requests : pc[r] = "idle") /\ UNCHANGED vars

Next ==
  \/ \E r \in Requests : NewRequest(r) \/ HandlerStep(r) \/ Abort(r)
  \/ Waiting

Spec == Init /\ [][Next]_vars

\* A handler that began goes on.
FairSpec == Spec /\ \A r \in Requests : WF_vars(HandlerStep(r))

-----------------------------------------------------------------------------
(* Properties *)

\* "Prevent circular references": in every set of folders some folder has its
\* parent outside the set, so every chain of parents ends at the root.
Acyclic ==
  \A S \in SUBSET Folders :
    S # {} => \E f \in S : parent[f] \notin S

\* A folder in the library can be reached: its parent is in the library too.
ActiveUnderActive ==
  \A f \in Folders : state[f] = "active" =>
    parent[f] = Root \/ state[parent[f]] = "active"

\* Every handler ends; the walks up and down the tree do not run for ever.
HandlersEnd == \A r \in Requests : pc[r] # "idle" ~> pc[r] = "idle"

-----------------------------------------------------------------------------
(* What the proofs rest on when one request runs at a time.                  *)

OneRequest == \A q, r \in Requests : q = r

\* Nothing is below a row that is not there (the foreign key sees to it).
ParentsExist == \A f \in Folders : parent[f] # Root => Exists(parent[f])

Climbing == {"move.target", "move.walk"}
Collecting == {"trash.collect", "restore.collect", "restore.root", "restore.rows",
               "purge.collect"}

\* The entity a request holds is as the database has it, and a folder is
\* restored to a place in the library.
EntityAsRead ==
  \A r \in Requests :
    /\ pc[r] = "create.save" =>
         /\ state[on[r]] = "none"
         /\ into[r] = Root \/ state[into[r]] = "active"
    /\ pc[r] \in {"create.save", "save"} \cup Climbing =>
         on[r] \in Folders /\ loaded[r] = "active"
    /\ pc[r] \in {"save"} \cup Climbing \cup Collecting =>
         on[r] \in Folders /\ Exists(on[r]) /\ state[on[r]] = loaded[r]
    /\ pc[r] \in Climbing => into[r] \in Folders \ {on[r]}
    /\ pc[r] = "move.walk" => state[into[r]] = "active"
    /\ pc[r] = "save" => into[r] \in {Root, parent[on[r]]}
    /\ pc[r] \in Collecting \ {"restore.rows"} => into[r] = parent[on[r]]
    /\ pc[r] = "restore.root" => into[r] # Root /\ state[into[r]] # "active"
    /\ pc[r] = "restore.rows" =>
         parent[on[r]] = Root \/ state[parent[on[r]]] = "active"

\* Every walk starts afresh.
WalksBeginEmpty ==
  \A r \in Requests :
    /\ pc[r] # "move.walk" => depth[r] = 0
    /\ pc[r] \notin Collecting \cup {"purge.rows"} => level[r] = Unfound

\* The walk down leaves no active folder behind when it trashes, and takes none
\* from elsewhere when it restores.
SubtreeClosed ==
  \A r \in Requests :
    /\ pc[r] \in {"trash.collect", "restore.collect"} => queue[r] \subseteq Subtree(r)
    /\ pc[r] = "trash.collect" =>
         \A f \in Folders : state[f] = "active" /\ parent[f] \in Subtree(r) \ queue[r]
                              => level[r][f] > 0
    /\ pc[r] \in {"restore.collect", "restore.root", "restore.rows"} =>
         \A f \in Folders \ {on[r]} : level[r][f] > 0
                              => Exists(f) /\ parent[f] \in Subtree(r)

SerialInv ==
  TypeOK /\ ParentsExist /\ EntityAsRead /\ WalksBeginEmpty /\ SubtreeClosed /\ ActiveUnderActive

\* V is what the walk up has looked at: as many folders as it has counted, each
\* with its parent in V or where the walk is now, and no two with the same.
Walked(r, V) ==
  /\ IsFiniteSet(V) /\ Cardinality(V) = depth[r]
  /\ on[r] \notin V /\ cur[r] \notin V
  /\ into[r] \in V \cup {cur[r]}
  /\ \A f \in V : parent[f] \in V \cup {cur[r]}
  /\ \A f, g \in V : parent[f] = parent[g] => f = g

\* The walk up meets no trashed folder, at which it would stop too early.
WalkComplete ==
  \A r \in Requests : pc[r] = "move.walk" =>
    /\ cur[r] = Root \/ state[cur[r]] = "active"
    /\ \E V \in SUBSET Folders : Walked(r, V)

\* The walk down collects what is below its folder, all of it and once: each folder
\* found is in one that was visited, and only subfolders of queued ones are missing.
Sees(r, f) == IF pc[r] = "trash.collect" THEN state[f] = "active" ELSE Exists(f)
SubtreeExact ==
  \A r \in Requests :
    /\ pc[r] \in Collecting =>
         /\ Sees(r, on[r]) /\ level[r][on[r]] = 0
         /\ queue[r] \subseteq Subtree(r)
         /\ \A f \in Folders : level[r][f] > 0 => Sees(r, f) /\ parent[f] \in Subtree(r)
         /\ \A f \in Folders :
              Sees(r, f) /\ parent[f] \in Subtree(r) \ queue[r] => level[r][f] > 0
    /\ pc[r] \in {"restore.root", "restore.rows"} => queue[r] = {}
    /\ pc[r] = "purge.rows" => \A f \in Folders : level[r][f] > 0 => Exists(f)

TreeInv == SerialInv /\ WalkComplete /\ SubtreeExact /\ Acyclic

\* A chain of folders, each the parent of the next.
Chain(V) ==
  /\ IsFiniteSet(V)
  /\ \E top \in V : \A f \in V \ {top} : parent[f] \in V
  /\ \A f, g \in V : parent[f] = parent[g] => f = g

\* No chain is longer than the walk up, which then always reaches the root.
NoDeeperThanWalk ==
  \A V \in SUBSET Folders : Chain(V) => Cardinality(V) <= MaxDepth

-----------------------------------------------------------------------------
(* One request at a time does to the tree what FolderLibrary promises.       *)

\* What a permanent deletion has collected and not deleted yet.
Doomed ==
  {f \in Folders : \E r \in Requests : pc[r] = "purge.rows" /\ level[r][f] > 0}

Promised == INSTANCE FolderLibrary WITH doomed <- Doomed

\* Moving, trashing, restoring and deleting a folder act on all that is below it and
\* on nothing else, however many queries and statements the handlers take for it.
KeepsLibrary == Promised!Spec

=============================================================================
