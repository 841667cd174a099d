----------------------------- MODULE FolderLibrary -----------------------------
(***************************************************************************)
(* What the operations on folders promise, with no word about the walks up   *)
(* and down the tree and the statements they are made of (folders.service:  *)
(* createFolder, moveFolderToFolder, deleteFolder, restoreFolder,           *)
(* deleteFolderPermanently).  Each acts on a folder with everything below   *)
(* it, on all of it and on nothing else.                                    *)
(***************************************************************************)
CONSTANTS
  Folders,  \* folder ids
  Root      \* the top of the library

VARIABLES
  state,    \* state[f]: "none", "active", "trashed", "gone"
  parent,   \* parent[f]: the folder f is in, or Root
  doomed    \* what a permanent deletion has still to delete

vars == <<state, parent, doomed>>

Init ==
  /\ state = [f \in Folders |-> "none"]
  /\ parent = [f \in Folders |-> Root]
  /\ doomed = {}

Exists(f) == state[f] \in {"active", "trashed"}

\* The folder f and what is below it among the folders of E: what every set with f
\* in it contains that contains the subfolders of its members.
Closed(S, E) == \A g \in E : parent[g] \in S => g \in S
Below(f, E) ==
  {g \in E : \A S \in SUBSET Folders : f \in S /\ Closed(S, E) => g \in S}

InLibrary(p) == p = Root \/ (p \in Folders /\ state[p] = "active")
Present == {f \in Folders : Exists(f)}
Listed == {f \in Folders : state[f] = "active"}

Create(f, p) ==
  /\ doomed = {}
  /\ state[f] = "none" /\ InLibrary(p)
  /\ state' = [state EXCEPT ![f] = "active"]
  /\ parent' = [parent EXCEPT ![f] = p]
  /\ UNCHANGED doomed

\* A folder takes what is below it along, and so cannot go there.
Move(f, p) ==
  /\ doomed = {}
  /\ state[f] = "active" /\ InLibrary(p) /\ p \notin Below(f, Present)
  /\ parent' = [parent EXCEPT ![f] = p]
  /\ UNCHANGED <<state, doomed>>

Trash(f) ==
  /\ doomed = {}
  /\ state[f] = "active"
  /\ state' = [g \in Folders |-> IF g \in Below(f, Listed) THEN "trashed" ELSE state[g]]
  /\ UNCHANGED <<parent, doomed>>

\* A folder whose parent is in the trash leaves it for the root, ...
Lift(f) ==
  /\ doomed = {}
  /\ state[f] = "trashed" /\ ~InLibrary(parent[f])
  /\ parent' = [parent EXCEPT ![f] = Root]
  /\ UNCHANGED <<state, doomed>>

\* ... and a restored one is in the library.
Restore(f) ==
  /\ doomed = {}
  /\ Exists(f) /\ InLibrary(parent[f])
  /\ state' = [g \in Folders |-> IF g \in Below(f, Present) THEN "active" ELSE state[g]]
  /\ UNCHANGED <<parent, doomed>>

\* A folder that goes leaves its subfolders at the root, until they go too.
Goes(f) ==
  /\ state' = [state EXCEPT ![f] = "gone"]
  /\ parent' = [g \in Folders |-> IF parent[g] = f THEN Root ELSE parent[g]]

Purge(f) ==
  /\ doomed = {}
  /\ Exists(f)
  /\ Goes(f)
  /\ doomed' = Below(f, Present) \ {f}

PurgeOn(f) ==
  /\ f \in doomed
  /\ Goes(f)
  /\ doomed' = doomed \ {f}

\* A failure spares what has not gone yet.
BreakOff ==
  /\ doomed # {}
  /\ doomed' = {}
  /\ UNCHANGED <<state, parent>>

Next ==
  \/ \E f \in Folders :
       \/ \E p \in Folders \cup {Root} : Create(f, p) \/ Move(f, p)
       \/ Trash(f) \/ Lift(f) \/ Restore(f) \/ Purge(f) \/ PurgeOn(f)
  \/ BreakOff

Spec == Init /\ [][Next]_vars

=============================================================================
