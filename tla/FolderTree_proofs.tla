----------------------------- MODULE FolderTree_proofs -----------------------------
(***************************************************************************)
(* Theorems of FolderTree for every set of folders.  Types hold however      *)
(* requests overlap; the shape of the tree is proved for one request at a   *)
(* time, with failures in the middle of it.  SerialInv is inductive by      *)
(* itself; WalkComplete, SubtreeExact and Acyclic rest on it and on each     *)
(* other, and the refinement of FolderLibrary on all of them.               *)
(***************************************************************************)
EXTENDS FolderTree, FiniteSetTheorems, TLAPS

\* Types hold at the start.
LEMMA InitTypes == Init => TypeOK
BY DepthAssumption DEF Init, TypeOK, Awaits, Unfound

\* Saving an entity, stale or not, writes values of the right types.
LEMMA SaveTypes ==
  ASSUME TypeOK, NEW f \in Folders \cup {Root}, NEW p \in Folders \cup {Root},
         NEW st \in {"none", "active", "trashed"}, SaveFolder(f, p, st)
  PROVE  /\ state' \in [Folders -> {"none", "active", "trashed", "gone"}]
         /\ parent' \in [Folders -> Folders \cup {Root}]
<1>1. CASE UNCHANGED <<state, parent>>
  BY <1>1 DEF TypeOK
<1>2. CASE /\ state' = [state EXCEPT ![f] = st]
           /\ parent' = [parent EXCEPT ![f] = p]
  BY <1>2 DEF TypeOK
<1>3. QED
  BY <1>1, <1>2 DEF SaveFolder

\* Every step preserves types, whatever other requests did before.
LEMMA StepTypes == TypeOK /\ [Next]_vars => TypeOK'
<1> SUFFICES ASSUME TypeOK, [Next]_vars
             PROVE  TypeOK'
    OBVIOUS
<1> USE RootAssumption, DepthAssumption
    DEF TypeOK, Awaits, Unfound, Exists, Begin, Answer, SaveFolder, BeginCollect,
        Children, DeleteFolderRow, WalkEnded, Collected
<1>1. ASSUME NEW r \in Requests, NEW f \in Folders, NEW p \in Folders \cup {Root}, CreateRead(r, f, p)
      PROVE  TypeOK'
  BY <1>1 DEF CreateRead
<1>2. ASSUME NEW r \in Requests, NEW f \in Folders, RenameRead(r, f)
      PROVE  TypeOK'
  BY <1>2 DEF RenameRead
<1>3. ASSUME NEW r \in Requests, NEW f \in Folders, NEW t \in Folders \cup {Root}, MoveRead(r, f, t)
      PROVE  TypeOK'
  BY <1>3 DEF MoveRead
<1>4. ASSUME NEW r \in Requests, NEW f \in Folders, TrashRead(r, f)
      PROVE  TypeOK'
  BY <1>4 DEF TrashRead
<1>5. ASSUME NEW r \in Requests, NEW f \in Folders, RestoreRead(r, f)
      PROVE  TypeOK'
  BY <1>5 DEF RestoreRead
<1>6. ASSUME NEW r \in Requests, NEW f \in Folders, PurgeRead(r, f)
      PROVE  TypeOK'
  BY <1>6 DEF PurgeRead
<1>7. ASSUME NEW r \in Requests, CreateSave(r)
      PROVE  TypeOK'
  <2>1. SaveFolder(on[r], into[r], "active")
    BY <1>7 DEF CreateSave
  <2>2. /\ state' \in [Folders -> {"none", "active", "trashed", "gone"}]
        /\ parent' \in [Folders -> Folders \cup {Root}]
    <3>1. /\ on[r] \in Folders \cup {Root} /\ into[r] \in Folders \cup {Root}
          /\ loaded[r] \in {"none", "active", "trashed"}
      OBVIOUS
    <3> HIDE DEF SaveFolder, TypeOK
    <3>2. QED
      BY <2>1, <3>1, SaveTypes
  <2>3. QED
    BY <1>7, <2>2 DEF CreateSave
<1>8. ASSUME NEW r \in Requests, MoveTarget(r)
      PROVE  TypeOK'
  BY <1>8 DEF MoveTarget
<1>9. ASSUME NEW r \in Requests, MoveNoTarget(r)
      PROVE  TypeOK'
  BY <1>9 DEF MoveNoTarget
<1>10. ASSUME NEW r \in Requests, MoveRefused(r)
       PROVE  TypeOK'
  BY <1>10 DEF MoveRefused
<1>11. ASSUME NEW r \in Requests, MoveWalk(r)
       PROVE  TypeOK'
  BY <1>11 DEF MoveWalk
<1>12. ASSUME NEW r \in Requests, Save(r)
       PROVE  TypeOK'
  <2>1. SaveFolder(on[r], into[r], loaded[r])
    BY <1>12 DEF Save
  <2>2. /\ state' \in [Folders -> {"none", "active", "trashed", "gone"}]
        /\ parent' \in [Folders -> Folders \cup {Root}]
    <3>1. /\ on[r] \in Folders \cup {Root} /\ into[r] \in Folders \cup {Root}
          /\ loaded[r] \in {"none", "active", "trashed"}
      OBVIOUS
    <3> HIDE DEF SaveFolder, TypeOK
    <3>2. QED
      BY <2>1, <3>1, SaveTypes
  <2>3. QED
    BY <1>12, <2>2 DEF Save
<1>13. ASSUME NEW r \in Requests, NEW c \in Folders, Collect(r, c)
       PROVE  TypeOK'
  BY <1>13 DEF Collect
<1>14. ASSUME NEW r \in Requests, TrashRows(r)
       PROVE  TypeOK'
  BY <1>14 DEF TrashRows
<1>15. ASSUME NEW r \in Requests, RestoreParent(r)
       PROVE  TypeOK'
  BY <1>15 DEF RestoreParent
<1>16. ASSUME NEW r \in Requests, RestoreToRoot(r)
       PROVE  TypeOK'
  <2>1. SaveFolder(on[r], Root, loaded[r])
    BY <1>16 DEF RestoreToRoot
  <2>2. /\ state' \in [Folders -> {"none", "active", "trashed", "gone"}]
        /\ parent' \in [Folders -> Folders \cup {Root}]
    <3>1. /\ on[r] \in Folders \cup {Root} /\ into[r] \in Folders \cup {Root}
          /\ loaded[r] \in {"none", "active", "trashed"}
      OBVIOUS
    <3> HIDE DEF SaveFolder, TypeOK
    <3>2. QED
      BY <2>1, <3>1, SaveTypes
  <2>3. QED
    BY <1>16, <2>2 DEF RestoreToRoot
<1>17. ASSUME NEW r \in Requests, RestoreRows(r)
       PROVE  TypeOK'
  BY <1>17 DEF RestoreRows
<1>18. ASSUME NEW r \in Requests, PurgeFolder(r)
       PROVE  TypeOK'
  BY <1>18 DEF PurgeFolder
<1>19. ASSUME NEW r \in Requests, NEW f \in Folders, PurgeDescendant(r, f)
       PROVE  TypeOK'
  BY <1>19 DEF PurgeDescendant
<1>20. ASSUME NEW r \in Requests, PurgeDone(r)
       PROVE  TypeOK'
  BY <1>20 DEF PurgeDone
<1>21. ASSUME NEW r \in Requests, Abort(r)
       PROVE  TypeOK'
  BY <1>21 DEF Abort
<1>22. ASSUME UNCHANGED vars
       PROVE  TypeOK'
  BY <1>22 DEF vars, reqVars, TypeOK
<1>23. QED
  BY <1>1, <1>2, <1>3, <1>4, <1>5, <1>6, <1>7, <1>8, <1>9, <1>10, <1>11, <1>12,
     <1>13, <1>14, <1>15, <1>16, <1>17, <1>18, <1>19, <1>20, <1>21, <1>22
  DEF Next, NewRequest, HandlerStep, Waiting

\* However requests overlap, every column has a value of its type.
THEOREM TypeCorrect == Spec => []TypeOK
<1>1. QED
  BY InitTypes, StepTypes, PTL DEF Spec

-----------------------------------------------------------------------------

\* An empty library.
LEMMA InitSerial == Init => SerialInv
<1>1. Init => ParentsExist /\ EntityAsRead /\ WalksBeginEmpty /\ SubtreeClosed
                /\ ActiveUnderActive
  BY DEF Init, ParentsExist, EntityAsRead, WalksBeginEmpty, SubtreeClosed,
         ActiveUnderActive, Climbing, Collecting, Unfound
<1>2. QED
  BY <1>1, InitTypes DEF SerialInv

\* With one request at a time, every step and every failure preserves it.
LEMMA StepSerial == ASSUME OneRequest PROVE SerialInv /\ [Next]_vars => SerialInv'
<1> SUFFICES ASSUME SerialInv, [Next]_vars
             PROVE  SerialInv'
    OBVIOUS
<1>0. TypeOK'
  BY StepTypes DEF SerialInv
<1> USE RootAssumption, DepthAssumption
    DEF SerialInv, OneRequest, TypeOK, Unfound, Exists, Begin, Answer, SaveFolder,
        BeginCollect, DeleteFolderRow, Collected, Climbing, Collecting
<1>1. ASSUME NEW r \in Requests, NEW f \in Folders, NEW p \in Folders \cup {Root}, CreateRead(r, f, p)
      PROVE  SerialInv'
  <2> USE <1>1 DEF CreateRead
  <2>1. ParentsExist'
    BY DEF ParentsExist, EntityAsRead
  <2>2. EntityAsRead'
    BY DEF EntityAsRead
  <2>3. WalksBeginEmpty'
    BY DEF WalksBeginEmpty
  <2>4. SubtreeClosed'
    BY DEF SubtreeClosed, Subtree, WalksBeginEmpty
  <2>5. ActiveUnderActive'
    BY DEF ActiveUnderActive, EntityAsRead
  <2>6. QED
    BY <2>1, <2>2, <2>3, <2>4, <2>5, <1>0 DEF SerialInv
<1>2. ASSUME NEW r \in Requests, NEW f \in Folders, RenameRead(r, f)
      PROVE  SerialInv'
  <2> USE <1>2 DEF RenameRead
  <2>1. ParentsExist'
    BY DEF ParentsExist, EntityAsRead
  <2>2. EntityAsRead'
    BY DEF EntityAsRead
  <2>3. WalksBeginEmpty'
    BY DEF WalksBeginEmpty
  <2>4. SubtreeClosed'
    BY DEF SubtreeClosed, Subtree, WalksBeginEmpty
  <2>5. ActiveUnderActive'
    BY DEF ActiveUnderActive, EntityAsRead
  <2>6. QED
    BY <2>1, <2>2, <2>3, <2>4, <2>5, <1>0 DEF SerialInv
<1>3. ASSUME NEW r \in Requests, NEW f \in Folders, NEW t \in Folders \cup {Root}, MoveRead(r, f, t)
      PROVE  SerialInv'
  <2> USE <1>3 DEF MoveRead
  <2>1. ParentsExist'
    BY DEF ParentsExist, EntityAsRead
  <2>2. EntityAsRead'
    BY DEF EntityAsRead
  <2>3. WalksBeginEmpty'
    BY DEF WalksBeginEmpty
  <2>4. SubtreeClosed'
    BY DEF SubtreeClosed, Subtree, WalksBeginEmpty
  <2>5. ActiveUnderActive'
    BY DEF ActiveUnderActive, EntityAsRead
  <2>6. QED
    BY <2>1, <2>2, <2>3, <2>4, <2>5, <1>0 DEF SerialInv
<1>4. ASSUME NEW r \in Requests, NEW f \in Folders, TrashRead(r, f)
      PROVE  SerialInv'
  <2> USE <1>4 DEF TrashRead
  <2>1. ParentsExist'
    BY DEF ParentsExist, EntityAsRead
  <2>2. EntityAsRead'
    BY DEF EntityAsRead
  <2>3. WalksBeginEmpty'
    BY DEF WalksBeginEmpty
  <2>4. SubtreeClosed'
    BY DEF SubtreeClosed, Subtree, WalksBeginEmpty
  <2>5. ActiveUnderActive'
    BY DEF ActiveUnderActive, EntityAsRead
  <2>6. QED
    BY <2>1, <2>2, <2>3, <2>4, <2>5, <1>0 DEF SerialInv
<1>5. ASSUME NEW r \in Requests, NEW f \in Folders, RestoreRead(r, f)
      PROVE  SerialInv'
  <2> USE <1>5 DEF RestoreRead
  <2>1. ParentsExist'
    BY DEF ParentsExist, EntityAsRead
  <2>2. EntityAsRead'
    BY DEF EntityAsRead
  <2>3. WalksBeginEmpty'
    BY DEF WalksBeginEmpty
  <2>4. SubtreeClosed'
    BY DEF SubtreeClosed, Subtree, WalksBeginEmpty
  <2>5. ActiveUnderActive'
    BY DEF ActiveUnderActive, EntityAsRead
  <2>6. QED
    BY <2>1, <2>2, <2>3, <2>4, <2>5, <1>0 DEF SerialInv
<1>6. ASSUME NEW r \in Requests, NEW f \in Folders, PurgeRead(r, f)
      PROVE  SerialInv'
  <2> USE <1>6 DEF PurgeRead
  <2>1. ParentsExist'
    BY DEF ParentsExist, EntityAsRead
  <2>2. EntityAsRead'
    BY DEF EntityAsRead
  <2>3. WalksBeginEmpty'
    BY DEF WalksBeginEmpty
  <2>4. SubtreeClosed'
    BY DEF SubtreeClosed, Subtree, WalksBeginEmpty
  <2>5. ActiveUnderActive'
    BY DEF ActiveUnderActive, EntityAsRead
  <2>6. QED
    BY <2>1, <2>2, <2>3, <2>4, <2>5, <1>0 DEF SerialInv
<1>7. ASSUME NEW r \in Requests, CreateSave(r)
      PROVE  SerialInv'
  <2> USE <1>7 DEF CreateSave
  <2>1. ParentsExist'
    BY DEF ParentsExist, EntityAsRead
  <2>2. EntityAsRead'
    BY DEF EntityAsRead
  <2>3. WalksBeginEmpty'
    BY DEF WalksBeginEmpty
  <2>4. SubtreeClosed'
    BY DEF SubtreeClosed, Subtree, WalksBeginEmpty
  <2>5. ActiveUnderActive'
    <3>1. CASE UNCHANGED <<state, parent>>
      BY <3>1 DEF ActiveUnderActive
    <3>2. CASE /\ state' = [state EXCEPT ![on[r]] = "active"]
               /\ parent' = [parent EXCEPT ![on[r]] = into[r]]
      <4>1. on[r] \in Folders /\ (into[r] = Root \/ state[into[r]] = "active")
            /\ into[r] \in Folders \cup {Root}
        BY DEF EntityAsRead
      <4>2. \A f \in Folders : state[f] = "active" => state'[f] = "active"
        BY <3>2
      <4>3. ASSUME NEW f \in Folders, state'[f] = "active"
            PROVE  parent'[f] = Root \/ state'[parent'[f]] = "active"
        <5>1. CASE f = on[r]
          BY <3>2, <4>1, <4>2, <5>1
        <5>2. CASE f # on[r]
          BY <3>2, <4>2, <4>3, <5>2 DEF ActiveUnderActive
        <5>3. QED
          BY <5>1, <5>2
      <4>4. QED
        BY <4>3 DEF ActiveUnderActive
    <3>3. QED
      BY <3>1, <3>2
  <2>6. QED
    BY <2>1, <2>2, <2>3, <2>4, <2>5, <1>0 DEF SerialInv
<1>8. ASSUME NEW r \in Requests, MoveTarget(r)
      PROVE  SerialInv'
  <2> USE <1>8 DEF MoveTarget
  <2>1. ParentsExist'
    BY DEF ParentsExist, EntityAsRead
  <2>2. EntityAsRead'
    BY DEF EntityAsRead
  <2>3. WalksBeginEmpty'
    BY DEF WalksBeginEmpty
  <2>4. SubtreeClosed'
    BY DEF SubtreeClosed, Subtree, WalksBeginEmpty
  <2>5. ActiveUnderActive'
    BY DEF ActiveUnderActive, EntityAsRead
  <2>6. QED
    BY <2>1, <2>2, <2>3, <2>4, <2>5, <1>0 DEF SerialInv
<1>9. ASSUME NEW r \in Requests, MoveNoTarget(r)
      PROVE  SerialInv'
  <2> USE <1>9 DEF MoveNoTarget
  <2>1. ParentsExist'
    BY DEF ParentsExist, EntityAsRead
  <2>2. EntityAsRead'
    BY DEF EntityAsRead
  <2>3. WalksBeginEmpty'
    BY DEF WalksBeginEmpty
  <2>4. SubtreeClosed'
    BY DEF SubtreeClosed, Subtree, WalksBeginEmpty
  <2>5. ActiveUnderActive'
    BY DEF ActiveUnderActive, EntityAsRead
  <2>6. QED
    BY <2>1, <2>2, <2>3, <2>4, <2>5, <1>0 DEF SerialInv
<1>10. ASSUME NEW r \in Requests, MoveRefused(r)
       PROVE  SerialInv'
  <2> USE <1>10 DEF MoveRefused
  <2>1. ParentsExist'
    BY DEF ParentsExist, EntityAsRead
  <2>2. EntityAsRead'
    BY DEF EntityAsRead
  <2>3. WalksBeginEmpty'
    BY DEF WalksBeginEmpty
  <2>4. SubtreeClosed'
    BY DEF SubtreeClosed, Subtree, WalksBeginEmpty
  <2>5. ActiveUnderActive'
    BY DEF ActiveUnderActive, EntityAsRead
  <2>6. QED
    BY <2>1, <2>2, <2>3, <2>4, <2>5, <1>0 DEF SerialInv
<1>11. ASSUME NEW r \in Requests, MoveWalk(r)
       PROVE  SerialInv'
  <2> USE <1>11 DEF MoveWalk
  <2>1. ParentsExist'
    BY DEF ParentsExist, EntityAsRead
  <2>2. EntityAsRead'
    BY DEF EntityAsRead
  <2>3. WalksBeginEmpty'
    BY DEF WalksBeginEmpty
  <2>4. SubtreeClosed'
    BY DEF SubtreeClosed, Subtree, WalksBeginEmpty
  <2>5. ActiveUnderActive'
    BY DEF ActiveUnderActive, EntityAsRead
  <2>6. QED
    BY <2>1, <2>2, <2>3, <2>4, <2>5, <1>0 DEF SerialInv
<1>12. ASSUME NEW r \in Requests, Save(r)
       PROVE  SerialInv'
  <2> USE <1>12 DEF Save
  <2>1. ParentsExist'
    BY DEF ParentsExist, EntityAsRead
  <2>2. EntityAsRead'
    BY DEF EntityAsRead
  <2>3. WalksBeginEmpty'
    BY DEF WalksBeginEmpty
  <2>4. SubtreeClosed'
    BY DEF SubtreeClosed, Subtree, WalksBeginEmpty
  <2>5. ActiveUnderActive'
    BY DEF ActiveUnderActive, EntityAsRead
  <2>6. QED
    BY <2>1, <2>2, <2>3, <2>4, <2>5, <1>0 DEF SerialInv
<1>13. ASSUME NEW r \in Requests, NEW c \in Folders, Collect(r, c)
       PROVE  SerialInv'
  <2> USE <1>13 DEF Collect
  <2>1. ParentsExist'
    BY DEF ParentsExist, EntityAsRead
  <2>2. EntityAsRead'
    BY DEF EntityAsRead
  <2>3. WalksBeginEmpty'
    BY DEF WalksBeginEmpty
  <2>4. SubtreeClosed'
    <3>1. /\ queue' = [queue EXCEPT ![r] = (@ \ {c}) \cup Children(r, c)]
          /\ level' = [level EXCEPT ![r] =
                         [f \in Folders |-> IF f \in Children(r, c) THEN level[r][c] + 1
                                            ELSE level[r][f]]]
          /\ UNCHANGED <<state, parent, pc, on>>
      OBVIOUS
    <3>2. level[r] \in [Folders -> Nat] /\ \A q \in Requests : q = r
      OBVIOUS
    <3>3. /\ \A f \in Folders : level'[r][f] > 0 <=> f \in Children(r, c) \/ level[r][f] > 0
          /\ queue'[r] = (queue[r] \ {c}) \cup Children(r, c)
      BY <3>1, <3>2
    <3>4. Subtree(r)' = Subtree(r) \cup Children(r, c)
      BY <3>1, <3>3 DEF Subtree, Children
    <3>5. pc[r] \in {"trash.collect", "restore.collect"} => c \in Subtree(r)
      BY DEF SubtreeClosed
    <3>6. CASE pc[r] = "trash.collect"
      <4>1. queue'[r] \subseteq Subtree(r)'
        BY <3>3, <3>4, <3>6 DEF SubtreeClosed
      <4>2. ASSUME NEW f \in Folders, state[f] = "active",
                   parent[f] \in Subtree(r)' \ queue'[r]
            PROVE  level'[r][f] > 0
        <5>1. CASE parent[f] = c
          BY <3>3, <3>6, <4>2, <5>1 DEF Children
        <5>2. CASE parent[f] # c
          BY <3>3, <3>4, <3>6, <4>2, <5>2 DEF SubtreeClosed
        <5>3. QED
          BY <5>1, <5>2
      <4>3. QED
        BY <3>1, <3>2, <3>6, <4>1, <4>2 DEF SubtreeClosed
    <3>7. CASE pc[r] = "restore.collect"
      <4>1. queue'[r] \subseteq Subtree(r)'
        BY <3>3, <3>4, <3>7 DEF SubtreeClosed
      <4>2. ASSUME NEW f \in Folders \ {on[r]}, level'[r][f] > 0
            PROVE  Exists(f) /\ parent[f] \in Subtree(r)'
        BY <3>3, <3>4, <3>5, <3>7, <4>2 DEF SubtreeClosed, Children
      <4>3. QED
        BY <3>1, <3>2, <3>7, <4>1, <4>2 DEF SubtreeClosed
    <3>8. CASE pc[r] = "purge.collect"
      BY <3>1, <3>2, <3>8 DEF SubtreeClosed
    <3>9. QED
      BY <3>6, <3>7, <3>8
  <2>5. ActiveUnderActive'
    BY DEF ActiveUnderActive, EntityAsRead
  <2>6. QED
    BY <2>1, <2>2, <2>3, <2>4, <2>5, <1>0 DEF SerialInv
<1>14. ASSUME NEW r \in Requests, TrashRows(r)
       PROVE  SerialInv'
  <2> USE <1>14 DEF TrashRows
  <2>1. ParentsExist'
    BY DEF ParentsExist, EntityAsRead
  <2>2. EntityAsRead'
    BY DEF EntityAsRead
  <2>3. WalksBeginEmpty'
    BY DEF WalksBeginEmpty
  <2>4. SubtreeClosed'
    BY DEF SubtreeClosed, Subtree, WalksBeginEmpty
  <2>5. ActiveUnderActive'
    <3>1. ASSUME NEW f \in Folders, state'[f] = "active"
          PROVE  parent[f] = Root \/ state'[parent[f]] = "active"
      <4>1. state[f] = "active" /\ f \notin Subtree(r)
        BY <3>1
      <4>2. parent[f] \notin Subtree(r)
        BY <4>1 DEF SubtreeClosed, Subtree
      <4>3. parent[f] = Root \/ state[parent[f]] = "active"
        BY <4>1 DEF ActiveUnderActive
      <4>4. QED
        BY <4>2, <4>3
    <3>2. QED
      BY <3>1 DEF ActiveUnderActive
  <2>6. QED
    BY <2>1, <2>2, <2>3, <2>4, <2>5, <1>0 DEF SerialInv
<1>15. ASSUME NEW r \in Requests, RestoreParent(r)
       PROVE  SerialInv'
  <2> USE <1>15 DEF RestoreParent
  <2>1. ParentsExist'
    BY DEF ParentsExist, EntityAsRead
  <2>2. EntityAsRead'
    BY DEF EntityAsRead
  <2>3. WalksBeginEmpty'
    BY DEF WalksBeginEmpty
  <2>4. SubtreeClosed'
    BY DEF SubtreeClosed, Subtree, WalksBeginEmpty
  <2>5. ActiveUnderActive'
    BY DEF ActiveUnderActive, EntityAsRead
  <2>6. QED
    BY <2>1, <2>2, <2>3, <2>4, <2>5, <1>0 DEF SerialInv
<1>16. ASSUME NEW r \in Requests, RestoreToRoot(r)
       PROVE  SerialInv'
  <2> USE <1>16 DEF RestoreToRoot
  <2>1. ParentsExist'
    BY DEF ParentsExist, EntityAsRead
  <2>2. EntityAsRead'
    BY DEF EntityAsRead
  <2>3. WalksBeginEmpty'
    BY DEF WalksBeginEmpty
  <2>4. SubtreeClosed'
    BY DEF SubtreeClosed, Subtree, WalksBeginEmpty
  <2>5. ActiveUnderActive'
    BY DEF ActiveUnderActive, EntityAsRead
  <2>6. QED
    BY <2>1, <2>2, <2>3, <2>4, <2>5, <1>0 DEF SerialInv
<1>17. ASSUME NEW r \in Requests, RestoreRows(r)
       PROVE  SerialInv'
  <2> USE <1>17 DEF RestoreRows
  <2>1. ParentsExist'
    BY DEF ParentsExist, EntityAsRead
  <2>2. EntityAsRead'
    BY DEF EntityAsRead
  <2>3. WalksBeginEmpty'
    BY DEF WalksBeginEmpty
  <2>4. SubtreeClosed'
    BY DEF SubtreeClosed, Subtree, WalksBeginEmpty
  <2>5. ActiveUnderActive'
    <3>1. ASSUME NEW f \in Folders, state'[f] = "active"
          PROVE  parent[f] = Root \/ state'[parent[f]] = "active"
      <4>1. \A g \in Folders : state[g] = "active" \/ (g \in Subtree(r) /\ Exists(g))
                                  => state'[g] = "active"
        BY <3>1
      <4>2. on[r] \in Folders /\ Exists(on[r])
        BY DEF EntityAsRead
      <4>3. CASE state[f] = "active"
        BY <4>1, <4>3 DEF ActiveUnderActive
      <4>4. CASE f = on[r]
        BY <4>1, <4>4 DEF EntityAsRead
      <4>5. CASE f \in Subtree(r) /\ f # on[r]
        <5>1. parent[f] \in Subtree(r)
          BY <4>5 DEF SubtreeClosed, Subtree
        <5>2. parent[f] \in Folders /\ Exists(parent[f])
          BY <4>2, <5>1 DEF SubtreeClosed, Subtree
        <5>3. QED
          BY <4>1, <5>1, <5>2
      <4>6. QED
        BY <3>1, <4>3, <4>4, <4>5
    <3>2. QED
      BY <3>1 DEF ActiveUnderActive
  <2>6. QED
    BY <2>1, <2>2, <2>3, <2>4, <2>5, <1>0 DEF SerialInv
<1>18. ASSUME NEW r \in Requests, PurgeFolder(r)
       PROVE  SerialInv'
  <2> USE <1>18 DEF PurgeFolder
  <2>1. ParentsExist'
    BY DEF ParentsExist, EntityAsRead
  <2>2. EntityAsRead'
    BY DEF EntityAsRead
  <2>3. WalksBeginEmpty'
    BY DEF WalksBeginEmpty
  <2>4. SubtreeClosed'
    BY DEF SubtreeClosed, Subtree, WalksBeginEmpty
  <2>5. ActiveUnderActive'
    BY DEF ActiveUnderActive, EntityAsRead
  <2>6. QED
    BY <2>1, <2>2, <2>3, <2>4, <2>5, <1>0 DEF SerialInv
<1>19. ASSUME NEW r \in Requests, NEW f \in Folders, PurgeDescendant(r, f)
       PROVE  SerialInv'
  <2> USE <1>19 DEF PurgeDescendant
  <2>1. ParentsExist'
    BY DEF ParentsExist, EntityAsRead
  <2>2. EntityAsRead'
    BY DEF EntityAsRead
  <2>3. WalksBeginEmpty'
    BY DEF WalksBeginEmpty
  <2>4. SubtreeClosed'
    BY DEF SubtreeClosed, Subtree, WalksBeginEmpty
  <2>5. ActiveUnderActive'
    BY DEF ActiveUnderActive, EntityAsRead
  <2>6. QED
    BY <2>1, <2>2, <2>3, <2>4, <2>5, <1>0 DEF SerialInv
<1>20. ASSUME NEW r \in Requests, PurgeDone(r)
       PROVE  SerialInv'
  <2> USE <1>20 DEF PurgeDone
  <2>1. ParentsExist'
    BY DEF ParentsExist, EntityAsRead
  <2>2. EntityAsRead'
    BY DEF EntityAsRead
  <2>3. WalksBeginEmpty'
    BY DEF WalksBeginEmpty
  <2>4. SubtreeClosed'
    BY DEF SubtreeClosed, Subtree, WalksBeginEmpty
  <2>5. ActiveUnderActive'
    BY DEF ActiveUnderActive, EntityAsRead
  <2>6. QED
    BY <2>1, <2>2, <2>3, <2>4, <2>5, <1>0 DEF SerialInv
<1>21. ASSUME NEW r \in Requests, Abort(r)
       PROVE  SerialInv'
  <2> USE <1>21 DEF Abort
  <2>1. ParentsExist'
    BY DEF ParentsExist, EntityAsRead
  <2>2. EntityAsRead'
    BY DEF EntityAsRead
  <2>3. WalksBeginEmpty'
    BY DEF WalksBeginEmpty
  <2>4. SubtreeClosed'
    BY DEF SubtreeClosed, Subtree, WalksBeginEmpty
  <2>5. ActiveUnderActive'
    BY DEF ActiveUnderActive, EntityAsRead
  <2>6. QED
    BY <2>1, <2>2, <2>3, <2>4, <2>5, <1>0 DEF SerialInv
<1>22. ASSUME UNCHANGED vars
       PROVE  SerialInv'
  BY <1>22, <1>0 DEF vars, reqVars, ParentsExist, EntityAsRead, WalksBeginEmpty,
     SubtreeClosed, Subtree, ActiveUnderActive
<1>23. QED
  BY <1>1, <1>2, <1>3, <1>4, <1>5, <1>6, <1>7, <1>8, <1>9, <1>10, <1>11, <1>12,
     <1>13, <1>14, <1>15, <1>16, <1>17, <1>18, <1>19, <1>20, <1>21, <1>22
  DEF Next, NewRequest, HandlerStep, Waiting

\* With one request at a time, SerialInv holds in every reachable state.
THEOREM SerialInvariant == ASSUME OneRequest PROVE Spec => []SerialInv
<1>1. SerialInv /\ [Next]_vars => SerialInv'
  BY StepSerial
<1>2. QED
  BY <1>1, InitSerial, PTL DEF Spec

\* An active folder can be reached from the root of the library: trashing takes
\* every active descendant with it, restoring goes no further than a parent that
\* is active, and nothing is put below a trashed folder, wherever a request fails.
THEOREM ActiveIsReachable == ASSUME OneRequest PROVE Spec => []ActiveUnderActive
<1>1. SerialInv => ActiveUnderActive
  BY DEF SerialInv
<1>2. QED
  BY <1>1, SerialInvariant, PTL

-----------------------------------------------------------------------------
(* No cycles, as long as the walk up is never cut short.                     *)

\* A step that gives nobody a parent but the root closes no circle.
LEMMA NoNewEdge ==
  ASSUME Acyclic, \A f \in Folders : parent'[f] \in {parent[f], Root},
         Root \notin Folders
  PROVE  Acyclic'
BY DEF Acyclic

\* A new folder closes no circle: nothing is below it.
LEMMA LeafAdded ==
  ASSUME TypeOK, ParentsExist, Acyclic, NEW f \in Folders, state[f] = "none",
         NEW p \in Folders \cup {Root}, p # f,
         parent' = [parent EXCEPT ![f] = p]
  PROVE  Acyclic'
<1>1. \A g \in Folders : parent[g] # f
  BY RootAssumption DEF ParentsExist, Exists
<1>2. SUFFICES ASSUME NEW S \in SUBSET Folders, S # {}, \A g \in S : parent'[g] \in S
               PROVE  FALSE
  BY DEF Acyclic
<1>3. \A g \in S \ {f} : parent[g] \in S \ {f}
  BY <1>1, <1>2 DEF TypeOK
<1>4. S \ {f} # {}
  BY <1>2 DEF TypeOK
<1>5. QED
  BY <1>3, <1>4 DEF Acyclic

\* What the walk has seen, with the folder it looks at now, is a chain, and the
\* next folder is a new one.
LEMMA WalkGoesOn ==
  ASSUME TypeOK, Acyclic, NEW r \in Requests, NEW V \in SUBSET Folders, Walked(r, V),
         cur[r] \in Folders
  PROVE  /\ parent[cur[r]] \notin V \cup {cur[r]}
         /\ \A f, g \in V \cup {cur[r]} : parent[f] = parent[g] => f = g
         /\ Chain(V \cup {cur[r]})
         /\ Cardinality(V \cup {cur[r]}) = depth[r] + 1
<1> DEFINE W == V \cup {cur[r]}
<1>1. W \in SUBSET Folders /\ W # {}
  OBVIOUS
<1>2. parent[cur[r]] \notin W
  <2>1. PICK f \in W : parent[f] \notin W
    BY <1>1 DEF Acyclic
  <2>2. QED
    BY <2>1 DEF Walked
<1>3. \A f, g \in W : parent[f] = parent[g] => f = g
  BY <1>2 DEF Walked
<1>4. IsFiniteSet(W) /\ Cardinality(W) = depth[r] + 1
  BY FS_AddElement DEF Walked
<1>5. Chain(W)
  BY <1>3, <1>4 DEF Chain, Walked
<1>6. QED
  BY <1>2, <1>3, <1>4, <1>5

\* A walk that has ended at the root did not meet the folder that moves, so
\* putting that folder below the target closes no circle.
LEMMA MoveKeepsAcyclic ==
  ASSUME TypeOK, Acyclic, NEW r \in Requests, NEW V \in SUBSET Folders, Walked(r, V),
         cur[r] = Root, on[r] \in Folders, into[r] \in Folders,
         parent' = [parent EXCEPT ![on[r]] = into[r]]
  PROVE  Acyclic'
<1>1. SUFFICES ASSUME NEW S \in SUBSET Folders, S # {}, \A f \in S : parent'[f] \in S
               PROVE  FALSE
  BY DEF Acyclic
<1>2. CASE on[r] \notin S
  <2>1. \A f \in S : parent[f] \in S
    BY <1>1, <1>2 DEF TypeOK
  <2>2. QED
    BY <1>1, <2>1 DEF Acyclic
<1>3. CASE on[r] \in S
  <2>1. into[r] \in S \cap V
    BY <1>1, <1>3, RootAssumption DEF Walked, TypeOK
  <2>2. \A f \in S \cap V : parent[f] \in S \cap V
    BY <1>1, RootAssumption DEF Walked, TypeOK
  <2>3. QED
    BY <2>1, <2>2 DEF Acyclic
<1>4. QED
  BY <1>2, <1>3

\* An empty library has no cycle.
LEMMA InitTree == Init => TreeInv
<1>1. Init => WalkComplete /\ SubtreeExact /\ Acyclic
  BY RootAssumption DEF Init, WalkComplete, SubtreeExact, Collecting, Acyclic
<1>2. QED
  BY <1>1, InitSerial DEF TreeInv

\* The walk up stays complete: only its own request changes the tree, and every
\* folder it comes to is active.
LEMMA StepWalk ==
  ASSUME OneRequest
  PROVE  TreeInv /\ [Next]_vars => WalkComplete'
<1> SUFFICES ASSUME TreeInv, [Next]_vars
             PROVE  WalkComplete'
    OBVIOUS
<1> USE RootAssumption, DepthAssumption
    DEF OneRequest, Begin, Answer, BeginCollect, Collected
<1>1. ASSUME NEW r \in Requests, NEW f \in Folders, NEW p \in Folders \cup {Root}, CreateRead(r, f, p)
      PROVE  WalkComplete'
  BY <1>1 DEF CreateRead, WalkComplete, TreeInv, SerialInv, TypeOK
<1>2. ASSUME NEW r \in Requests, NEW f \in Folders, RenameRead(r, f)
      PROVE  WalkComplete'
  BY <1>2 DEF RenameRead, WalkComplete, TreeInv, SerialInv, TypeOK
<1>3. ASSUME NEW r \in Requests, NEW f \in Folders, NEW t \in Folders \cup {Root}, MoveRead(r, f, t)
      PROVE  WalkComplete'
  BY <1>3 DEF MoveRead, WalkComplete, TreeInv, SerialInv, TypeOK
<1>4. ASSUME NEW r \in Requests, NEW f \in Folders, TrashRead(r, f)
      PROVE  WalkComplete'
  BY <1>4 DEF TrashRead, WalkComplete, TreeInv, SerialInv, TypeOK
<1>5. ASSUME NEW r \in Requests, NEW f \in Folders, RestoreRead(r, f)
      PROVE  WalkComplete'
  BY <1>5 DEF RestoreRead, WalkComplete, TreeInv, SerialInv, TypeOK
<1>6. ASSUME NEW r \in Requests, NEW f \in Folders, PurgeRead(r, f)
      PROVE  WalkComplete'
  BY <1>6 DEF PurgeRead, WalkComplete, TreeInv, SerialInv, TypeOK
<1>7. ASSUME NEW r \in Requests, CreateSave(r)
      PROVE  WalkComplete'
  BY <1>7 DEF CreateSave, WalkComplete, TreeInv, SerialInv, TypeOK
<1>8. ASSUME NEW r \in Requests, MoveTarget(r)
      PROVE  WalkComplete'
  <2>1. /\ pc' = [pc EXCEPT ![r] = "move.walk"] /\ cur' = [cur EXCEPT ![r] = into[r]]
        /\ pc[r] = "move.target" /\ state[into[r]] = "active"
        /\ UNCHANGED <<state, parent, on, into, depth>>
    BY <1>8 DEF MoveTarget
  <2>2. TypeOK /\ depth[r] = 0 /\ into[r] \in Folders \ {on[r]}
    BY <2>1 DEF TreeInv, SerialInv, WalksBeginEmpty, EntityAsRead, Climbing
  <2>3. IsFiniteSet({}) /\ Cardinality({}) = 0
    BY FS_EmptySet
  <2>4. \E V \in SUBSET Folders : Walked(r, V)'
    <3>1. Walked(r, {})'
      BY <2>1, <2>2, <2>3 DEF Walked, TypeOK
    <3>2. QED
      BY <3>1
  <2>5. state'[cur'[r]] = "active"
    BY <2>1, <2>2 DEF TypeOK
  <2>6. QED
    BY <2>4, <2>5 DEF WalkComplete
<1>9. ASSUME NEW r \in Requests, MoveNoTarget(r)
      PROVE  WalkComplete'
  BY <1>9 DEF MoveNoTarget, WalkComplete, TreeInv, SerialInv, TypeOK
<1>10. ASSUME NEW r \in Requests, MoveRefused(r)
       PROVE  WalkComplete'
  BY <1>10 DEF MoveRefused, WalkComplete, TreeInv, SerialInv, TypeOK
<1>11. ASSUME NEW r \in Requests, MoveWalk(r)
       PROVE  WalkComplete'
  <2>1. /\ pc[r] = "move.walk" /\ cur[r] # Root /\ cur[r] # on[r]
        /\ cur' = [cur EXCEPT ![r] = IF state[@] = "active" THEN parent[@] ELSE Root]
        /\ depth' = [depth EXCEPT ![r] = @ + 1]
        /\ UNCHANGED <<state, parent, pc, on, into>>
    BY <1>11 DEF MoveWalk, WalkEnded
  <2>2. TypeOK /\ state[cur[r]] = "active" /\ cur[r] \in Folders
    BY <2>1 DEF TreeInv, SerialInv, WalkComplete, TypeOK
  <2>3. cur'[r] = parent[cur[r]] /\ depth'[r] = depth[r] + 1
    BY <2>1, <2>2 DEF TypeOK
  <2>4. cur'[r] = Root \/ state'[cur'[r]] = "active"
    BY <2>1, <2>2, <2>3 DEF TreeInv, SerialInv, ActiveUnderActive
  <2>5. PICK V \in SUBSET Folders : Walked(r, V)
    BY <2>1 DEF TreeInv, WalkComplete
  <2>6. PICK W \in SUBSET Folders : W = V \cup {cur[r]}
    BY <2>2
  <2>7. /\ parent[cur[r]] \notin W
        /\ \A f, g \in W : parent[f] = parent[g] => f = g
        /\ IsFiniteSet(W) /\ Cardinality(W) = depth[r] + 1
    BY <2>2, <2>5, <2>6, WalkGoesOn DEF TreeInv, Chain
  <2>8. on[r] \notin W /\ into[r] \in W /\ \A f \in W : parent[f] \in W \cup {parent[cur[r]]}
    BY <2>1, <2>5, <2>6 DEF Walked
  <2>9. Walked(r, W)'
    BY <2>1, <2>3, <2>7, <2>8 DEF Walked
  <2>10. \E U \in SUBSET Folders : Walked(r, U)'
    BY <2>9
  <2>11. QED
    BY <2>4, <2>10 DEF WalkComplete, OneRequest
<1>12. ASSUME NEW r \in Requests, Save(r)
       PROVE  WalkComplete'
  BY <1>12 DEF Save, WalkComplete, TreeInv, SerialInv, TypeOK
<1>13. ASSUME NEW r \in Requests, NEW c \in Folders, Collect(r, c)
       PROVE  WalkComplete'
  BY <1>13 DEF Collect, WalkComplete, TreeInv, SerialInv, TypeOK
<1>14. ASSUME NEW r \in Requests, TrashRows(r)
       PROVE  WalkComplete'
  BY <1>14 DEF TrashRows, WalkComplete, TreeInv, SerialInv, TypeOK
<1>15. ASSUME NEW r \in Requests, RestoreParent(r)
       PROVE  WalkComplete'
  BY <1>15 DEF RestoreParent, WalkComplete, TreeInv, SerialInv, TypeOK
<1>16. ASSUME NEW r \in Requests, RestoreToRoot(r)
       PROVE  WalkComplete'
  BY <1>16 DEF RestoreToRoot, WalkComplete, TreeInv, SerialInv, TypeOK
<1>17. ASSUME NEW r \in Requests, RestoreRows(r)
       PROVE  WalkComplete'
  BY <1>17 DEF RestoreRows, WalkComplete, TreeInv, SerialInv, TypeOK
<1>18. ASSUME NEW r \in Requests, PurgeFolder(r)
       PROVE  WalkComplete'
  BY <1>18 DEF PurgeFolder, WalkComplete, TreeInv, SerialInv, TypeOK
<1>19. ASSUME NEW r \in Requests, NEW f \in Folders, PurgeDescendant(r, f)
       PROVE  WalkComplete'
  BY <1>19 DEF PurgeDescendant, WalkComplete, TreeInv, SerialInv, TypeOK
<1>20. ASSUME NEW r \in Requests, PurgeDone(r)
       PROVE  WalkComplete'
  BY <1>20 DEF PurgeDone, WalkComplete, TreeInv, SerialInv, TypeOK
<1>21. ASSUME NEW r \in Requests, Abort(r)
       PROVE  WalkComplete'
  BY <1>21 DEF Abort, WalkComplete, TreeInv, SerialInv, TypeOK
<1>22. ASSUME UNCHANGED vars
       PROVE  WalkComplete'
  BY <1>22 DEF vars, reqVars, TreeInv, WalkComplete, Walked
<1>23. QED
  BY <1>1, <1>2, <1>3, <1>4, <1>5, <1>6, <1>7, <1>8, <1>9, <1>10, <1>11, <1>12,
     <1>13, <1>14, <1>15, <1>16, <1>17, <1>18, <1>19, <1>20, <1>21, <1>22
  DEF Next, NewRequest, HandlerStep, Waiting

\* The walk down goes on as it must: it visits every folder it finds, finds no
\* folder twice, since the tree has no cycle, and nobody changes the tree meanwhile.
LEMMA StepExact ==
  ASSUME OneRequest
  PROVE  TreeInv /\ [Next]_vars => SubtreeExact'
<1> SUFFICES ASSUME TreeInv, [Next]_vars
             PROVE  SubtreeExact'
    OBVIOUS
<1>0. TypeOK /\ EntityAsRead /\ WalksBeginEmpty /\ SubtreeExact /\ Acyclic
  BY DEF TreeInv, SerialInv
<1> USE <1>0, RootAssumption, DepthAssumption
    DEF OneRequest, TypeOK, Unfound, Exists, Begin, Answer, Collected, Collecting
<1>1. ASSUME NEW r \in Requests, NEW f \in Folders, NEW p \in Folders \cup {Root}, CreateRead(r, f, p)
      PROVE  SubtreeExact'
  BY <1>1 DEF CreateRead, SubtreeExact
<1>2. ASSUME NEW r \in Requests, NEW f \in Folders, RenameRead(r, f)
      PROVE  SubtreeExact'
  BY <1>2 DEF RenameRead, SubtreeExact
<1>3. ASSUME NEW r \in Requests, NEW f \in Folders, NEW t \in Folders \cup {Root}, MoveRead(r, f, t)
      PROVE  SubtreeExact'
  BY <1>3 DEF MoveRead, SubtreeExact
<1>4. ASSUME NEW r \in Requests, NEW f \in Folders, TrashRead(r, f)
      PROVE  SubtreeExact'
  BY <1>4 DEF TrashRead, BeginCollect, SubtreeExact, Subtree, Sees,
             WalksBeginEmpty
<1>5. ASSUME NEW r \in Requests, NEW f \in Folders, RestoreRead(r, f)
      PROVE  SubtreeExact'
  BY <1>5 DEF RestoreRead, BeginCollect, SubtreeExact, Subtree, Sees,
             WalksBeginEmpty
<1>6. ASSUME NEW r \in Requests, NEW f \in Folders, PurgeRead(r, f)
      PROVE  SubtreeExact'
  BY <1>6 DEF PurgeRead, BeginCollect, SubtreeExact, Subtree, Sees,
             WalksBeginEmpty
<1>7. ASSUME NEW r \in Requests, CreateSave(r)
      PROVE  SubtreeExact'
  BY <1>7 DEF CreateSave, SubtreeExact
<1>8. ASSUME NEW r \in Requests, MoveTarget(r)
      PROVE  SubtreeExact'
  BY <1>8 DEF MoveTarget, SubtreeExact
<1>9. ASSUME NEW r \in Requests, MoveNoTarget(r)
      PROVE  SubtreeExact'
  BY <1>9 DEF MoveNoTarget, SubtreeExact
<1>10. ASSUME NEW r \in Requests, MoveRefused(r)
       PROVE  SubtreeExact'
  BY <1>10 DEF MoveRefused, SubtreeExact
<1>11. ASSUME NEW r \in Requests, MoveWalk(r)
       PROVE  SubtreeExact'
  BY <1>11 DEF MoveWalk, SubtreeExact
<1>12. ASSUME NEW r \in Requests, Save(r)
       PROVE  SubtreeExact'
  BY <1>12 DEF Save, SubtreeExact
<1>13. ASSUME NEW r \in Requests, NEW c \in Folders, Collect(r, c)
       PROVE  SubtreeExact'
  <2>1. /\ pc[r] \in {"trash.collect", "restore.collect", "purge.collect"}
        /\ c \in queue[r]
        /\ queue' = [queue EXCEPT ![r] = (queue[r] \ {c}) \cup Children(r, c)]
        /\ level' = [level EXCEPT ![r] = [f \in Folders |->
             IF f \in Children(r, c) THEN level[r][c] + 1 ELSE level[r][f]]]
        /\ UNCHANGED <<state, parent, pc, on>>
    BY <1>13 DEF Collect
  <2>2. PICK Ch : Ch = Children(r, c)
    OBVIOUS
  <2>3. /\ queue'[r] = (queue[r] \ {c}) \cup Ch
        /\ \A f \in Folders : level'[r][f] = IF f \in Ch THEN level[r][c] + 1 ELSE level[r][f]
    BY <2>1, <2>2
  <2>4. \A f : f \in Ch <=> f \in Folders /\ parent[f] = c /\ Sees(r, f)
    BY <2>1, <2>2 DEF Children, Sees
  <2>5. PICK S \in SUBSET Folders : S = Subtree(r)
    BY <2>1 DEF Subtree, EntityAsRead
  <2>6. /\ level[r][on[r]] = 0 /\ on[r] \in S /\ c \in S /\ queue[r] \subseteq S
        /\ \A f \in Folders : level[r][f] > 0 => Sees(r, f) /\ parent[f] \in S
        /\ \A f \in Folders : Sees(r, f) /\ parent[f] \in S \ queue[r] => level[r][f] > 0
    BY <2>1, <2>5 DEF SubtreeExact, Subtree
  <2>7. \A f \in S : f = on[r] \/ level[r][f] > 0
    BY <2>5 DEF Subtree
  <2>8. on[r] \notin Ch
    <3>1. SUFFICES ASSUME on[r] \in Ch PROVE FALSE
      OBVIOUS
    <3>2. \A f \in S : parent[f] \in S
      BY <3>1, <2>4, <2>6, <2>7
    <3> QED
      BY <3>2, <2>6 DEF Acyclic
  <2>9. PICK T : T = Subtree(r)'
    OBVIOUS
  <2>10. T = S \cup Ch
    BY <2>1, <2>3, <2>4, <2>5, <2>9 DEF Subtree
  <2>11. \A f \in Folders : Sees(r, f)' = Sees(r, f)
    BY <2>1 DEF Sees
  <2>12. level'[r][on'[r]] = 0 /\ queue'[r] \subseteq T /\ Sees(r, on[r])'
    <3>1. Sees(r, on[r])
      BY <2>1 DEF SubtreeExact
    <3> QED
      BY <3>1, <2>1, <2>3, <2>4, <2>6, <2>8, <2>10 DEF Sees
  <2>13. \A f \in Folders : level'[r][f] > 0 => Sees(r, f)' /\ parent'[f] \in T
    BY <2>1, <2>3, <2>4, <2>6, <2>10, <2>11
  <2>14. ASSUME NEW f \in Folders, Sees(r, f)', parent'[f] \in T \ queue'[r]
         PROVE  level'[r][f] > 0
    <3>1. level[r][c] \in Nat
      BY <2>6
    <3>2. CASE f \in Ch
      BY <3>1, <3>2, <2>3
    <3>3. CASE f \notin Ch
      <4>1. parent[f] # c
        BY <3>3, <2>4, <2>11, <2>14
      <4>2. parent[f] \in S \ queue[r]
        BY <4>1, <2>1, <2>3, <2>10, <2>14
      <4> QED
        BY <3>3, <4>2, <2>3, <2>6, <2>11, <2>14
    <3> QED
      BY <3>2, <3>3
  <2>15. ASSUME NEW q \in Requests
         PROVE  q = r /\ pc'[q] \notin {"restore.root", "restore.rows", "purge.rows"}
    BY <2>1
  <2> HIDE <1>0
  <2> HIDE DEF TypeOK, Exists, Unfound, Begin, Answer, Collected, OneRequest
  <2> QED
    BY <2>9, <2>12, <2>13, <2>14, <2>15 DEF SubtreeExact
<1>14. ASSUME NEW r \in Requests, TrashRows(r)
       PROVE  SubtreeExact'
  BY <1>14 DEF TrashRows, SubtreeExact
<1>15. ASSUME NEW r \in Requests, RestoreParent(r)
       PROVE  SubtreeExact'
  BY <1>15 DEF RestoreParent, SubtreeExact, Subtree, Sees
<1>16. ASSUME NEW r \in Requests, RestoreToRoot(r)
       PROVE  SubtreeExact'
  <2>1. /\ pc[r] = "restore.root" /\ pc'[r] = "restore.rows"
        /\ UNCHANGED <<on, queue, level>>
    BY <1>16 DEF RestoreToRoot
  <2>2. on[r] \in Folders /\ queue[r] = {} /\ level[r][on[r]] = 0
    BY <2>1 DEF SubtreeExact, EntityAsRead
  <2>3. /\ \A f \in Folders : state'[f] = state[f]
        /\ \A f \in Folders \ {on[r]} : parent'[f] = parent[f]
        /\ parent'[on[r]] = Root
    BY <1>16, <2>1, <2>2 DEF RestoreToRoot, SaveFolder, EntityAsRead
  <2>4. Subtree(r) \subseteq Folders /\ Subtree(r)' = Subtree(r)
    BY <2>1, <2>2 DEF Subtree
  <2>5. \A f \in Folders : Sees(r, f)' = Sees(r, f)
    BY <2>1, <2>3 DEF Sees
  <2>6. \A f \in Folders : level[r][f] > 0 => Sees(r, f)' /\ parent'[f] \in Subtree(r)'
    BY <2>1, <2>2, <2>3, <2>4, <2>5 DEF SubtreeExact
  <2>7. \A f \in Folders : Sees(r, f)' /\ parent'[f] \in Subtree(r)' => level[r][f] > 0
    BY <2>1, <2>2, <2>3, <2>4, <2>5 DEF SubtreeExact
  <2>8. Sees(r, on[r])'
    BY <2>1, <2>2, <2>3 DEF Sees, EntityAsRead
  <2> QED
    BY <2>1, <2>2, <2>6, <2>7, <2>8 DEF SubtreeExact
<1>17. ASSUME NEW r \in Requests, RestoreRows(r)
       PROVE  SubtreeExact'
  BY <1>17 DEF RestoreRows, SubtreeExact
<1>18. ASSUME NEW r \in Requests, PurgeFolder(r)
       PROVE  SubtreeExact'
  BY <1>18 DEF PurgeFolder, DeleteFolderRow, SubtreeExact, EntityAsRead, Sees
<1>19. ASSUME NEW r \in Requests, NEW f \in Folders, PurgeDescendant(r, f)
       PROVE  SubtreeExact'
  BY <1>19 DEF PurgeDescendant, DeleteFolderRow, SubtreeExact
<1>20. ASSUME NEW r \in Requests, PurgeDone(r)
       PROVE  SubtreeExact'
  BY <1>20 DEF PurgeDone, SubtreeExact
<1>21. ASSUME NEW r \in Requests, Abort(r)
       PROVE  SubtreeExact'
  BY <1>21 DEF Abort, SubtreeExact
<1>22. ASSUME UNCHANGED vars
       PROVE  SubtreeExact'
  BY <1>22 DEF vars, reqVars, SubtreeExact, Subtree, Sees
<1>23. QED
  BY <1>1, <1>2, <1>3, <1>4, <1>5, <1>6, <1>7, <1>8, <1>9, <1>10, <1>11, <1>12,
     <1>13, <1>14, <1>15, <1>16, <1>17, <1>18, <1>19, <1>20, <1>21, <1>22
  DEF Next, NewRequest, HandlerStep, Waiting

\* The walk up has reached the root, if no chain is longer than it.
LEMMA WalkReachesRoot ==
  ASSUME TreeInv, NoDeeperThanWalk, NEW r \in Requests, pc[r] = "move.walk", WalkEnded(r)
  PROVE  cur[r] = Root /\ \E V \in SUBSET Folders : Walked(r, V)
<1>1. TypeOK /\ Acyclic
  BY DEF TreeInv, SerialInv
<1>2. PICK V \in SUBSET Folders : Walked(r, V)
  BY DEF TreeInv, WalkComplete
<1>3. ASSUME cur[r] \in Folders
      PROVE  FALSE
  <2>1. depth[r] \in Nat /\ depth[r] >= MaxDepth
    BY <1>1, <1>3, RootAssumption, DepthAssumption DEF WalkEnded, TypeOK
  <2>2. Chain(V \cup {cur[r]}) /\ Cardinality(V \cup {cur[r]}) = depth[r] + 1
    BY <1>1, <1>2, <1>3, WalkGoesOn
  <2>3. V \cup {cur[r]} \in SUBSET Folders
    BY <1>3
  <2>4. Cardinality(V \cup {cur[r]}) <= MaxDepth
    BY <2>2, <2>3 DEF NoDeeperThanWalk
  <2> QED
    BY <2>1, <2>2, <2>4, DepthAssumption
<1> QED
  BY <1>1, <1>2, <1>3 DEF TypeOK

\* No step closes a circle in a tree that is no deeper than the walk up.
LEMMA StepAcyclic ==
  ASSUME OneRequest, NoDeeperThanWalk
  PROVE  TreeInv /\ [Next]_vars => Acyclic'
<1> SUFFICES ASSUME TreeInv, [Next]_vars
             PROVE  Acyclic'
    OBVIOUS
<1>0. TypeOK /\ ParentsExist /\ EntityAsRead /\ Acyclic
  BY DEF TreeInv, SerialInv
<1> USE RootAssumption, DepthAssumption
    DEF OneRequest, Begin, Answer, BeginCollect, Collected, DeleteFolderRow
<1>1. ASSUME NEW r \in Requests, NEW f \in Folders, NEW p \in Folders \cup {Root}, CreateRead(r, f, p)
      PROVE  Acyclic'
  BY <1>1, <1>0 DEF CreateRead, Acyclic
<1>2. ASSUME NEW r \in Requests, NEW f \in Folders, RenameRead(r, f)
      PROVE  Acyclic'
  BY <1>2, <1>0 DEF RenameRead, Acyclic
<1>3. ASSUME NEW r \in Requests, NEW f \in Folders, NEW t \in Folders \cup {Root}, MoveRead(r, f, t)
      PROVE  Acyclic'
  BY <1>3, <1>0 DEF MoveRead, Acyclic
<1>4. ASSUME NEW r \in Requests, NEW f \in Folders, TrashRead(r, f)
      PROVE  Acyclic'
  BY <1>4, <1>0 DEF TrashRead, Acyclic
<1>5. ASSUME NEW r \in Requests, NEW f \in Folders, RestoreRead(r, f)
      PROVE  Acyclic'
  BY <1>5, <1>0 DEF RestoreRead, Acyclic
<1>6. ASSUME NEW r \in Requests, NEW f \in Folders, PurgeRead(r, f)
      PROVE  Acyclic'
  BY <1>6, <1>0 DEF PurgeRead, Acyclic
<1>7. ASSUME NEW r \in Requests, CreateSave(r)
      PROVE  Acyclic'
  <2>1. CASE UNCHANGED parent
    BY <2>1, <1>0 DEF Acyclic
  <2>2. CASE parent' = [parent EXCEPT ![on[r]] = into[r]]
    <3>1. /\ on[r] \in Folders /\ state[on[r]] = "none"
          /\ into[r] \in Folders \cup {Root} /\ into[r] # on[r]
      BY <1>7, <1>0 DEF CreateSave, EntityAsRead, TypeOK
    <3>2. QED
      BY <2>2, <3>1, <1>0, LeafAdded
  <2>3. QED
    BY <1>7, <2>1, <2>2 DEF CreateSave, SaveFolder
<1>8. ASSUME NEW r \in Requests, MoveTarget(r)
      PROVE  Acyclic'
  BY <1>8, <1>0 DEF MoveTarget, Acyclic
<1>9. ASSUME NEW r \in Requests, MoveNoTarget(r)
      PROVE  Acyclic'
  BY <1>9, <1>0 DEF MoveNoTarget, Acyclic
<1>10. ASSUME NEW r \in Requests, MoveRefused(r)
       PROVE  Acyclic'
  BY <1>10, <1>0 DEF MoveRefused, Acyclic
<1>11. ASSUME NEW r \in Requests, MoveWalk(r)
       PROVE  Acyclic'
  BY <1>11, <1>0 DEF MoveWalk, Acyclic
<1>12. ASSUME NEW r \in Requests, Save(r)
       PROVE  Acyclic'
  <2>1. CASE UNCHANGED parent
    BY <2>1, <1>0 DEF Acyclic
  <2>2. CASE pc[r] = "save" /\ parent' = [parent EXCEPT ![on[r]] = into[r]]
    <3>1. \A f \in Folders : parent'[f] \in {parent[f], Root}
      BY <2>2, <1>0 DEF EntityAsRead, TypeOK
    <3>2. QED
      BY <3>1, <1>0, NoNewEdge
  <2>3. CASE /\ pc[r] = "move.walk" /\ WalkEnded(r)
             /\ parent' = [parent EXCEPT ![on[r]] = into[r]]
    <3>1. PICK V \in SUBSET Folders : Walked(r, V)
      BY <2>3, WalkReachesRoot
    <3>2. cur[r] = Root
      BY <2>3, WalkReachesRoot
    <3>3. on[r] \in Folders /\ into[r] \in Folders
      BY <2>3, <1>0 DEF EntityAsRead, Climbing
    <3>4. QED
      BY <2>3, <3>1, <3>2, <3>3, <1>0, MoveKeepsAcyclic
  <2>4. QED
    BY <1>12, <2>1, <2>2, <2>3 DEF Save, SaveFolder
<1>13. ASSUME NEW r \in Requests, NEW c \in Folders, Collect(r, c)
       PROVE  Acyclic'
  BY <1>13, <1>0 DEF Collect, Acyclic
<1>14. ASSUME NEW r \in Requests, TrashRows(r)
       PROVE  Acyclic'
  BY <1>14, <1>0 DEF TrashRows, Acyclic
<1>15. ASSUME NEW r \in Requests, RestoreParent(r)
       PROVE  Acyclic'
  BY <1>15, <1>0 DEF RestoreParent, Acyclic
<1>16. ASSUME NEW r \in Requests, RestoreToRoot(r)
       PROVE  Acyclic'
  <2>1. \A f \in Folders : parent'[f] \in {parent[f], Root}
    BY <1>16, <1>0 DEF RestoreToRoot, SaveFolder, TypeOK
  <2>2. QED
    BY <2>1, <1>0, NoNewEdge
<1>17. ASSUME NEW r \in Requests, RestoreRows(r)
       PROVE  Acyclic'
  BY <1>17, <1>0 DEF RestoreRows, Acyclic
<1>18. ASSUME NEW r \in Requests, PurgeFolder(r)
       PROVE  Acyclic'
  <2>1. \A f \in Folders : parent'[f] \in {parent[f], Root}
    BY <1>18 DEF PurgeFolder
  <2>2. QED
    BY <2>1, <1>0, NoNewEdge
<1>19. ASSUME NEW r \in Requests, NEW f \in Folders, PurgeDescendant(r, f)
       PROVE  Acyclic'
  <2>1. \A g \in Folders : parent'[g] \in {parent[g], Root}
    BY <1>19 DEF PurgeDescendant
  <2>2. QED
    BY <2>1, <1>0, NoNewEdge
<1>20. ASSUME NEW r \in Requests, PurgeDone(r)
       PROVE  Acyclic'
  BY <1>20, <1>0 DEF PurgeDone, Acyclic
<1>21. ASSUME NEW r \in Requests, Abort(r)
       PROVE  Acyclic'
  BY <1>21, <1>0 DEF Abort, Acyclic
<1>22. ASSUME UNCHANGED vars
       PROVE  Acyclic'
  BY <1>22, <1>0 DEF vars, reqVars, Acyclic
<1>23. QED
  BY <1>1, <1>2, <1>3, <1>4, <1>5, <1>6, <1>7, <1>8, <1>9, <1>10, <1>11, <1>12,
     <1>13, <1>14, <1>15, <1>16, <1>17, <1>18, <1>19, <1>20, <1>21, <1>22
  DEF Next, NewRequest, HandlerStep, Waiting

\* A step in a tree no deeper than the walk up keeps the invariant.
LEMMA StepTree ==
  ASSUME OneRequest
  PROVE  TreeInv /\ [Next]_vars /\ [NoDeeperThanWalk]_vars => TreeInv'
<1>1. SUFFICES ASSUME TreeInv, [Next]_vars, [NoDeeperThanWalk]_vars
               PROVE  TreeInv'
  OBVIOUS
<1>2. SerialInv' /\ WalkComplete' /\ SubtreeExact'
  BY <1>1, StepSerial, StepWalk, StepExact DEF TreeInv
<1>3. CASE NoDeeperThanWalk
  BY <1>1, <1>2, <1>3, StepAcyclic DEF TreeInv
<1>4. CASE UNCHANGED vars
  BY <1>1, <1>2, <1>4 DEF vars, TreeInv, Acyclic
<1> QED
  BY <1>1, <1>3, <1>4

\* With one request at a time and at most MaxDepth folders TreeInv holds, wherever
\* requests fail; so the tree has no cycle.
THEOREM SmallTreeInvariant ==
  ASSUME OneRequest, IsFiniteSet(Folders), Cardinality(Folders) <= MaxDepth
  PROVE  Spec => []TreeInv
<1>1. NoDeeperThanWalk
  <2>1. SUFFICES ASSUME NEW V \in SUBSET Folders
                 PROVE  Cardinality(V) <= MaxDepth
    BY DEF NoDeeperThanWalk
  <2>2. Cardinality(V) <= Cardinality(Folders) /\ IsFiniteSet(V)
    BY FS_Subset
  <2>3. Cardinality(V) \in Nat /\ Cardinality(Folders) \in Nat
    BY <2>2, FS_CardinalityType
  <2>4. QED
    BY <2>2, <2>3, DepthAssumption
<1>2. TreeInv /\ [Next]_vars => TreeInv'
  BY <1>1, StepTree
<1>3. QED
  BY <1>2, InitTree, PTL DEF Spec

-----------------------------------------------------------------------------
(* One request at a time implements FolderLibrary.  The walk down is what    *)
(* FolderLibrary says is below a folder (SubtreeIsBelow); every other step   *)
(* of a handler but the last is a stuttering step.                           *)

\* What contains f, is closed, and holds nothing but f whose parent is outside, is what
\* is below f: anything else in it would be on a circle.
LEMMA SubtreeIsBelow ==
  ASSUME Acyclic, NEW f \in Folders, NEW E \in SUBSET Folders, NEW S \in SUBSET E,
         f \in S, \A g \in S \ {f} : parent[g] \in S,
         \A g \in E : parent[g] \in S => g \in S
  PROVE  S = Promised!Below(f, E)
<1>1. ASSUME NEW g \in S, NEW T \in SUBSET Folders, f \in T, Promised!Closed(T, E), g \notin T
      PROVE  FALSE
  <2>1. PICK h \in S \ T : parent[h] \notin S \ T
    BY <1>1 DEF Acyclic
  <2>2. h # f /\ parent[h] \in T
    BY <1>1, <2>1
  <2> QED
    BY <1>1, <2>1, <2>2 DEF Promised!Closed
<1>2. ASSUME NEW g \in Promised!Below(f, E)
      PROVE  g \in S
  <2>1. Promised!Closed(S, E)
    BY DEF Promised!Closed
  <2> QED
    BY <1>2, <2>1 DEF Promised!Below
<1>3. ASSUME NEW g \in S
      PROVE  g \in Promised!Below(f, E)
  BY <1>1 DEF Promised!Below
<1> QED
  BY <1>2, <1>3

\* When the walk down has ended, it has found what is below its folder.
LEMMA CollectedIsBelow ==
  ASSUME TreeInv, NEW r \in Requests, pc[r] \in Collecting, queue[r] = {}
  PROVE  /\ on[r] \in Folders
         /\ Subtree(r) = Promised!Below(on[r], {f \in Folders : Sees(r, f)})
<1>1. /\ on[r] \in Folders /\ Sees(r, on[r])
      /\ \A f \in Folders : level[r][f] > 0 => Sees(r, f) /\ parent[f] \in Subtree(r)
      /\ \A f \in Folders : Sees(r, f) /\ parent[f] \in Subtree(r) => level[r][f] > 0
  BY DEF TreeInv, SerialInv, SubtreeExact, EntityAsRead, Collecting
<1>2. PICK E \in SUBSET Folders : E = {f \in Folders : Sees(r, f)}
  OBVIOUS
<1>3. PICK S \in SUBSET E : S = Subtree(r)
  BY <1>1, <1>2 DEF Subtree
<1>4. on[r] \in S /\ \A g \in S \ {on[r]} : parent[g] \in S
  BY <1>1, <1>3 DEF Subtree
<1>5. \A g \in E : parent[g] \in S => g \in S
  BY <1>1, <1>2, <1>3 DEF Subtree
<1>6. S = Promised!Below(on[r], E)
  BY <1>1, <1>4, <1>5, SubtreeIsBelow DEF TreeInv
<1> QED
  BY <1>1, <1>2, <1>3, <1>6

\* What the walk up has passed is not below the folder that moves.
LEMMA WalkedIsNotBelow ==
  ASSUME NEW r \in Requests, NEW V \in SUBSET Folders, Walked(r, V), cur[r] = Root,
         on[r] \in Folders, into[r] \in Folders, NEW E \in SUBSET Folders
  PROVE  into[r] \notin Promised!Below(on[r], E)
<1> DEFINE T == Folders \ V
<1>1. on[r] \in T /\ into[r] \notin T /\ Promised!Closed(T, E)
  BY RootAssumption DEF Walked, Promised!Closed
<1> QED
  BY <1>1 DEF Promised!Below

\* What is doomed, for the one request there is.
LEMMA DoomedOfOne ==
  ASSUME OneRequest, NEW r \in Requests
  PROVE  /\ pc[r] # "purge.rows" => Doomed = {}
         /\ pc[r] = "purge.rows" => Doomed = {f \in Folders : level[r][f] > 0}
BY DEF OneRequest, Doomed

\* A step that changes no row and dooms nothing is no step of FolderLibrary.
LEMMA QuietStep ==
  ASSUME OneRequest, NEW r \in Requests, UNCHANGED <<state, parent>>,
         pc[r] # "purge.rows", pc'[r] # "purge.rows"
  PROVE  UNCHANGED Promised!vars
<1>1. Doomed = {} /\ Doomed' = {}
  BY DEF OneRequest, Doomed
<1> QED
  BY <1>1 DEF Promised!vars

\* An empty library is an empty library.
LEMMA InitLibrary == Init => Promised!Init
BY DEF Init, Doomed, Promised!Init

\* Every step does what an operation of FolderLibrary does, or nothing that it shows.
LEMMA StepKeepsLibrary ==
  ASSUME OneRequest, NoDeeperThanWalk, TreeInv, [Next]_vars
  PROVE  Promised!Next \/ UNCHANGED Promised!vars
<1>0. TypeOK /\ ParentsExist /\ EntityAsRead /\ ActiveUnderActive /\ SubtreeExact
  BY DEF TreeInv, SerialInv
<1> USE RootAssumption DEF Begin, Answer, Collected
<1>1. ASSUME NEW r \in Requests, NEW f \in Folders, NEW p \in Folders \cup {Root}, CreateRead(r, f, p)
      PROVE  UNCHANGED Promised!vars
  <2>1. UNCHANGED <<state, parent>> /\ pc[r] # "purge.rows" /\ pc'[r] # "purge.rows"
    BY <1>1, <1>0 DEF CreateRead, TypeOK
  <2> QED
    BY <2>1, QuietStep
<1>2. ASSUME NEW r \in Requests, NEW f \in Folders, RenameRead(r, f)
      PROVE  UNCHANGED Promised!vars
  <2>1. UNCHANGED <<state, parent>> /\ pc[r] # "purge.rows" /\ pc'[r] # "purge.rows"
    BY <1>2, <1>0 DEF RenameRead, TypeOK
  <2> QED
    BY <2>1, QuietStep
<1>3. ASSUME NEW r \in Requests, NEW f \in Folders, NEW t \in Folders \cup {Root}, MoveRead(r, f, t)
      PROVE  UNCHANGED Promised!vars
  <2>1. UNCHANGED <<state, parent>> /\ pc[r] # "purge.rows" /\ pc'[r] # "purge.rows"
    BY <1>3, <1>0 DEF MoveRead, TypeOK
  <2> QED
    BY <2>1, QuietStep
<1>4. ASSUME NEW r \in Requests, NEW f \in Folders, TrashRead(r, f)
      PROVE  UNCHANGED Promised!vars
  <2>1. UNCHANGED <<state, parent>> /\ pc[r] # "purge.rows" /\ pc'[r] # "purge.rows"
    BY <1>4, <1>0 DEF TrashRead, BeginCollect, TypeOK
  <2> QED
    BY <2>1, QuietStep
<1>5. ASSUME NEW r \in Requests, NEW f \in Folders, RestoreRead(r, f)
      PROVE  UNCHANGED Promised!vars
  <2>1. UNCHANGED <<state, parent>> /\ pc[r] # "purge.rows" /\ pc'[r] # "purge.rows"
    BY <1>5, <1>0 DEF RestoreRead, BeginCollect, TypeOK
  <2> QED
    BY <2>1, QuietStep
<1>6. ASSUME NEW r \in Requests, NEW f \in Folders, PurgeRead(r, f)
      PROVE  UNCHANGED Promised!vars
  <2>1. UNCHANGED <<state, parent>> /\ pc[r] # "purge.rows" /\ pc'[r] # "purge.rows"
    BY <1>6, <1>0 DEF PurgeRead, BeginCollect, TypeOK
  <2> QED
    BY <2>1, QuietStep
<1>7. ASSUME NEW r \in Requests, CreateSave(r)
      PROVE  on[r] \in Folders /\ Promised!Create(on[r], into[r])
  <2>1. /\ pc[r] = "create.save" /\ pc'[r] = "idle"
        /\ on[r] \in Folders /\ state[on[r]] = "none"
        /\ into[r] = Root \/ (into[r] \in Folders /\ state[into[r]] = "active")
    BY <1>7, <1>0 DEF CreateSave, EntityAsRead, TypeOK
  <2>2. Doomed = {} /\ Doomed' = {}
    BY <2>1 DEF OneRequest, Doomed
  <2>3. /\ state' = [state EXCEPT ![on[r]] = "active"]
        /\ parent' = [parent EXCEPT ![on[r]] = into[r]]
    BY <1>7, <2>1 DEF CreateSave, SaveFolder, Exists
  <2> QED
    BY <2>1, <2>2, <2>3 DEF Promised!Create, Promised!InLibrary
<1>8. ASSUME NEW r \in Requests, MoveTarget(r)
      PROVE  UNCHANGED Promised!vars
  <2>1. UNCHANGED <<state, parent>> /\ pc[r] # "purge.rows" /\ pc'[r] # "purge.rows"
    BY <1>8, <1>0 DEF MoveTarget, TypeOK
  <2> QED
    BY <2>1, QuietStep
<1>9. ASSUME NEW r \in Requests, MoveNoTarget(r)
      PROVE  UNCHANGED Promised!vars
  <2>1. UNCHANGED <<state, parent>> /\ pc[r] # "purge.rows" /\ pc'[r] # "purge.rows"
    BY <1>9, <1>0 DEF MoveNoTarget, TypeOK
  <2> QED
    BY <2>1, QuietStep
<1>10. ASSUME NEW r \in Requests, MoveRefused(r)
       PROVE  UNCHANGED Promised!vars
  <2>1. UNCHANGED <<state, parent>> /\ pc[r] # "purge.rows" /\ pc'[r] # "purge.rows"
    BY <1>10, <1>0 DEF MoveRefused, TypeOK
  <2> QED
    BY <2>1, QuietStep
<1>11. ASSUME NEW r \in Requests, MoveWalk(r)
       PROVE  UNCHANGED Promised!vars
  <2>1. UNCHANGED <<state, parent>> /\ pc[r] # "purge.rows" /\ pc'[r] # "purge.rows"
    BY <1>11, <1>0 DEF MoveWalk, TypeOK
  <2> QED
    BY <2>1, QuietStep
<1>12. ASSUME NEW r \in Requests, Save(r)
       PROVE  on[r] \in Folders /\ (UNCHANGED Promised!vars \/ Promised!Move(on[r], into[r]))
  <2>1. /\ pc[r] \in {"save", "move.walk"} /\ pc'[r] = "idle"
        /\ on[r] \in Folders /\ state[on[r]] = "active" /\ loaded[r] = "active"
        /\ SaveFolder(on[r], into[r], loaded[r])
        /\ pc[r] = "move.walk" => WalkEnded(r)
    BY <1>12, <1>0 DEF Save, EntityAsRead, TypeOK, Climbing
  <2>2. Doomed = {} /\ Doomed' = {}
    BY <2>1 DEF OneRequest, Doomed
  <2>3. state' = state
    BY <2>1, <1>0 DEF SaveFolder, TypeOK
  <2>4. Promised!Below(on[r], Promised!Present) \subseteq Folders
    BY DEF Promised!Below, Promised!Present
  <2>5. CASE pc[r] = "save" /\ into[r] # Root
    <3>1. into[r] = parent[on[r]]
      BY <2>5, <1>0 DEF EntityAsRead
    <3>2. parent' = parent
      BY <2>1, <3>1, <1>0 DEF SaveFolder, TypeOK
    <3> QED
      BY <2>1, <2>2, <2>3, <3>2 DEF Promised!vars
  <2>6. CASE into[r] = Root
    <3>1. parent' = [parent EXCEPT ![on[r]] = Root]
      BY <2>1, <2>6 DEF SaveFolder
    <3> QED
      BY <2>1, <2>2, <2>3, <2>4, <2>6, <3>1 DEF Promised!Move, Promised!InLibrary
  <2>7. CASE pc[r] = "move.walk" /\ into[r] # Root
    <3>1. into[r] \in Folders /\ state[into[r]] = "active"
      BY <2>7, <1>0 DEF EntityAsRead, Climbing
    <3>2. parent' = [parent EXCEPT ![on[r]] = into[r]]
      BY <2>1, <3>1 DEF SaveFolder, Exists
    <3>3. PICK V \in SUBSET Folders : Walked(r, V)
      BY <2>1, <2>7, WalkReachesRoot
    <3>4. cur[r] = Root
      BY <2>1, <2>7, WalkReachesRoot
    <3>5. into[r] \notin Promised!Below(on[r], Promised!Present)
      BY <2>1, <3>1, <3>3, <3>4, WalkedIsNotBelow DEF Promised!Present
    <3> QED
      BY <2>1, <2>2, <2>3, <3>1, <3>2, <3>5 DEF Promised!Move, Promised!InLibrary
  <2> QED
    BY <2>1, <2>5, <2>6, <2>7
<1>13. ASSUME NEW r \in Requests, NEW c \in Folders, Collect(r, c)
       PROVE  UNCHANGED Promised!vars
  <2>1. UNCHANGED <<state, parent>> /\ pc[r] # "purge.rows" /\ pc'[r] # "purge.rows"
    BY <1>13, <1>0 DEF Collect, TypeOK
  <2> QED
    BY <2>1, QuietStep
<1>14. ASSUME NEW r \in Requests, TrashRows(r)
       PROVE  on[r] \in Folders /\ Promised!Trash(on[r])
  <2>1. /\ pc[r] = "trash.collect" /\ pc'[r] = "idle"
        /\ parent' = parent
        /\ state' = [f \in Folders |-> IF f \in Subtree(r) /\ Exists(f)
                                       THEN "trashed" ELSE state[f]]
    BY <1>14, <1>0 DEF TrashRows, TypeOK
  <2>2. queue[r] = {}
    BY <1>14, <2>1, <1>0 DEF TrashRows, SubtreeExact
  <2>3. on[r] \in Folders /\ Sees(r, on[r])
    BY <2>1, <1>0 DEF SubtreeExact, EntityAsRead, Collecting
  <2>4. Subtree(r) = Promised!Below(on[r], Promised!Listed)
    <3>1. Promised!Listed = {f \in Folders : Sees(r, f)}
      BY <2>1 DEF Sees, Exists, Promised!Listed, Promised!Exists
    <3> QED
      BY <2>1, <2>2, <3>1, CollectedIsBelow DEF Collecting
  <2>5. \A f \in Subtree(r) : Exists(f)
    BY <2>1, <2>3, <1>0 DEF Subtree, SubtreeExact, Sees, Exists, Collecting
  <2>6. Doomed = {} /\ Doomed' = {}
    BY <2>1 DEF OneRequest, Doomed
  <2>7. state[on[r]] = "active"
    BY <2>1, <2>3 DEF Sees
  <2> QED
    BY <2>1, <2>3, <2>4, <2>5, <2>6, <2>7 DEF Promised!Trash
<1>15. ASSUME NEW r \in Requests, RestoreParent(r)
       PROVE  UNCHANGED Promised!vars
  <2>1. UNCHANGED <<state, parent>> /\ pc[r] # "purge.rows" /\ pc'[r] # "purge.rows"
    BY <1>15, <1>0 DEF RestoreParent, TypeOK
  <2> QED
    BY <2>1, QuietStep
<1>16. ASSUME NEW r \in Requests, RestoreToRoot(r)
       PROVE  on[r] \in Folders /\ Promised!Lift(on[r])
  <2>1. /\ pc[r] = "restore.root" /\ pc'[r] = "restore.rows"
        /\ on[r] \in Folders /\ Exists(on[r]) /\ state[on[r]] = loaded[r]
        /\ into[r] = parent[on[r]] /\ into[r] # Root /\ state[into[r]] # "active"
    BY <1>16, <1>0 DEF RestoreToRoot, EntityAsRead, TypeOK, Collecting
  <2>2. state' = state /\ parent' = [parent EXCEPT ![on[r]] = Root]
    <3>1. /\ state' = [state EXCEPT ![on[r]] = loaded[r]]
          /\ parent' = [parent EXCEPT ![on[r]] = Root]
      BY <1>16 DEF RestoreToRoot, SaveFolder
    <3> QED
      BY <2>1, <3>1, <1>0 DEF TypeOK
  <2>3. state[on[r]] = "trashed"
    BY <2>1, <1>0 DEF ActiveUnderActive, Exists
  <2>4. Doomed = {} /\ Doomed' = {}
    BY <2>1 DEF OneRequest, Doomed
  <2> QED
    BY <2>1, <2>2, <2>3, <2>4 DEF Promised!Lift, Promised!InLibrary
<1>17. ASSUME NEW r \in Requests, RestoreRows(r)
       PROVE  on[r] \in Folders /\ Promised!Restore(on[r])
  <2>1. /\ pc[r] = "restore.rows" /\ pc'[r] = "idle"
        /\ parent' = parent
        /\ state' = [f \in Folders |-> IF f \in Subtree(r) /\ Exists(f)
                                       THEN "active" ELSE state[f]]
    BY <1>17, <1>0 DEF RestoreRows, TypeOK
  <2>2. queue[r] = {}
    BY <1>17, <2>1, <1>0 DEF RestoreRows, SubtreeExact
  <2>3. on[r] \in Folders /\ Sees(r, on[r])
    BY <2>1, <1>0 DEF SubtreeExact, EntityAsRead, Collecting
  <2>4. Subtree(r) = Promised!Below(on[r], Promised!Present)
    <3>1. Promised!Present = {f \in Folders : Sees(r, f)}
      BY <2>1 DEF Sees, Exists, Promised!Present, Promised!Exists
    <3> QED
      BY <2>1, <2>2, <3>1, CollectedIsBelow DEF Collecting
  <2>5. \A f \in Subtree(r) : Exists(f)
    BY <2>1, <2>3, <1>0 DEF Subtree, SubtreeExact, Sees, Exists, Collecting
  <2>6. Doomed = {} /\ Doomed' = {}
    BY <2>1 DEF OneRequest, Doomed
  <2>7. Promised!Exists(on[r]) /\ Promised!InLibrary(parent[on[r]])
    BY <2>1, <2>3, <1>0 DEF Sees, Exists, EntityAsRead, TypeOK, Promised!Exists, Promised!InLibrary
  <2> QED
    BY <2>1, <2>3, <2>4, <2>5, <2>6, <2>7 DEF Promised!Restore
<1>18. ASSUME NEW r \in Requests, PurgeFolder(r)
       PROVE  on[r] \in Folders /\ Promised!Purge(on[r])
  <2>1. /\ pc[r] = "purge.collect" /\ pc'[r] = "purge.rows" /\ queue[r] = {}
        /\ DeleteFolderRow(r, on[r]) /\ level' = level
    BY <1>18, <1>0 DEF PurgeFolder, TypeOK
  <2>2. on[r] \in Folders /\ Exists(on[r]) /\ level[r][on[r]] = 0
    BY <2>1, <1>0 DEF SubtreeExact, EntityAsRead, Collecting
  <2>3. Subtree(r) = Promised!Below(on[r], Promised!Present)
    <3>1. Promised!Present = {f \in Folders : Sees(r, f)}
      BY <2>1 DEF Sees, Exists, Promised!Present, Promised!Exists
    <3> QED
      BY <2>1, <3>1, CollectedIsBelow DEF Collecting
  <2>4. Doomed = {} /\ Doomed' = {f \in Folders : level[r][f] > 0}
    BY <2>1 DEF OneRequest, Doomed
  <2>5. Doomed' = Promised!Below(on[r], Promised!Present) \ {on[r]}
    <3>1. {f \in Folders : level[r][f] > 0} = Subtree(r) \ {on[r]}
      BY <2>2, <1>0 DEF Subtree, TypeOK
    <3> QED
      BY <2>3, <2>4, <3>1
  <2>6. Promised!Goes(on[r])
    BY <2>1, <2>2 DEF DeleteFolderRow, Promised!Goes
  <2> QED
    BY <2>2, <2>4, <2>5, <2>6 DEF Promised!Purge, Promised!Exists, Exists
<1>19. ASSUME NEW r \in Requests, NEW f \in Folders, PurgeDescendant(r, f)
       PROVE  Promised!PurgeOn(f)
  <2>1. /\ pc[r] = "purge.rows" /\ pc' = pc /\ level[r][f] > 0
        /\ DeleteFolderRow(r, f) /\ level' = [level EXCEPT ![r][f] = 0]
    BY <1>19 DEF PurgeDescendant
  <2>2. Exists(f)
    BY <2>1, <1>0 DEF SubtreeExact
  <2>3. Doomed = {g \in Folders : level[r][g] > 0} /\ Doomed' = {g \in Folders : level'[r][g] > 0}
    BY <2>1 DEF OneRequest, Doomed
  <2>4. f \in Doomed /\ Doomed' = Doomed \ {f}
    BY <2>1, <2>3, <1>0 DEF TypeOK
  <2>5. Promised!Goes(f)
    BY <2>1, <2>2 DEF DeleteFolderRow, Promised!Goes
  <2> QED
    BY <2>4, <2>5 DEF Promised!PurgeOn
<1>20. ASSUME NEW r \in Requests, PurgeDone(r)
       PROVE  UNCHANGED Promised!vars
  <2>1. /\ pc[r] = "purge.rows" /\ pc'[r] = "idle" /\ level[r] = Unfound
        /\ UNCHANGED <<state, parent>>
    BY <1>20, <1>0 DEF PurgeDone, TypeOK
  <2>2. Doomed = {} /\ Doomed' = {}
    BY <2>1 DEF OneRequest, Doomed, Unfound
  <2> QED
    BY <2>1, <2>2 DEF Promised!vars
<1>21. ASSUME NEW r \in Requests, Abort(r)
       PROVE  Promised!BreakOff \/ UNCHANGED Promised!vars
  <2>1. pc'[r] = "idle" /\ UNCHANGED <<state, parent>>
    BY <1>21, <1>0 DEF Abort, TypeOK
  <2>2. Doomed' = {}
    BY <2>1 DEF OneRequest, Doomed
  <2> QED
    BY <2>1, <2>2 DEF Promised!vars, Promised!BreakOff
<1>22. ASSUME UNCHANGED vars
       PROVE  UNCHANGED Promised!vars
  BY <1>22 DEF vars, reqVars, Doomed, Promised!vars
<1>23. ASSUME NEW r \in Requests, HandlerStep(r)
       PROVE  Promised!Next \/ UNCHANGED Promised!vars
  BY <1>23, <1>7, <1>8, <1>9, <1>10, <1>11, <1>12, <1>13, <1>14, <1>15, <1>16, <1>17,
     <1>18, <1>19, <1>20, <1>0 DEF HandlerStep, Promised!Next, TypeOK
<1>24. ASSUME NEW r \in Requests, NewRequest(r)
       PROVE  UNCHANGED Promised!vars
  BY <1>24, <1>1, <1>2, <1>3, <1>4, <1>5, <1>6 DEF NewRequest
<1> QED
  BY <1>21, <1>22, <1>23, <1>24 DEF Next, Waiting, Promised!Next

\* One request at a time does to the tree what the operations promise, wherever it
\* fails: all that is below a folder goes with it and nothing else, as long as no step
\* begins in a tree with a chain of folders that is longer than the walk up.
THEOREM OperationsReachSubtrees ==
  ASSUME OneRequest
  PROVE  Spec /\ [][NoDeeperThanWalk]_vars => KeepsLibrary
<1>1. TreeInv /\ [Next]_vars /\ [NoDeeperThanWalk]_vars => [Promised!Next]_(Promised!vars)
  <2>1. SUFFICES ASSUME TreeInv, [Next]_vars, [NoDeeperThanWalk]_vars
                 PROVE  Promised!Next \/ UNCHANGED Promised!vars
    OBVIOUS
  <2>2. CASE NoDeeperThanWalk
    BY <2>1, <2>2, StepKeepsLibrary
  <2>3. CASE UNCHANGED vars
    BY <2>3 DEF vars, reqVars, Doomed, Promised!vars
  <2> QED
    BY <2>1, <2>2, <2>3
<1>2. Spec /\ [][NoDeeperThanWalk]_vars => Promised!Spec
  BY <1>1, StepTree, InitTree, InitLibrary, PTL DEF Spec, Promised!Spec
<1> QED
  BY <1>2 DEF KeepsLibrary

=============================================================================
