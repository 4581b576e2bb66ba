------------------------- MODULE SnapshotFileProofs -------------------------
(***************************************************************************)
(* Proofs about the snapshot file: it implements a durable cell for every  *)
(* number of saves and of replacements a save tries, as long as the faults *)
(* of a behaviour stay within what the backup can take.                    *)
(*                                                                         *)
(* The file is lost only where a save begins a replacement over a snapshot *)
(* that exists as its backup alone (an Orphan) and the first rename is     *)
(* denied: the backup is then unlinked.  So the inductive invariant counts *)
(* the denials that must have been spent before a state with an orphan.    *)
(***************************************************************************)
EXTENDS SnapshotFile, TLAPS

(* One denied rename and any crashes, or three denied renames and no crash. *)
Bearable(f) == f[1] <= 1 \/ (f[1] <= 3 /\ f[2] = 0)

(* The snapshot exists, but only as the file that was moved aside. *)
Orphan == path = 0 /\ previous # 0

(***************************************************************************)
(* What a restart would load is the version saved last, except that a      *)
(* replacement which has just succeeded is not acknowledged yet.           *)
(***************************************************************************)
Contents ==
    /\ pc # "drop" => saved = Loaded
    /\ pc = "drop" => path = version
    /\ pc # "idle" => saved < version
    /\ path <= version /\ previous <= version

(* Where the replacement stands: the backup may be removed only while the snapshot is in place. *)
Backup ==
    /\ pc \in {"unlink", "aside"} => ~Orphan
    /\ pc \in {"again", "restore"} => path = 0

(* The denials left, by the step of the save; an orphan has used up what there was. *)
Budget ==
    \/ /\ crashes = 0
       /\ denials <= 3
       /\ pc \in {"unlink", "aside", "again"} => denials <= 2
       /\ pc = "restore" => denials <= 1
       /\ Orphan /\ pc \notin {"again", "restore"} => denials = 0
    \/ /\ denials <= 1
       /\ pc \in {"unlink", "aside", "again", "restore"} => denials = 0
       /\ Orphan => denials = 0

FileInv == TypeOK /\ Contents /\ Backup /\ Budget

(***************************************************************************)
(* A reader between any two steps of a save sees one value: a step leaves  *)
(* Loaded alone, puts the new version there, or acknowledges it.           *)
(***************************************************************************)
CellStep == Cell!Next \/ UNCHANGED <<Loaded, saved>>

-----------------------------------------------------------------------------
(* A file that has never been saved is sound. *)
LEMMA InitSound ==
    ASSUME \A f \in Faults : Bearable(f), Init PROVE FileInv
  <1>1. PICK f \in Faults : denials = f[1] /\ crashes = f[2]
    BY DEF Init
  <1>2. f \in Nat \X Nat
    BY SnapshotAssumption
  <1> QED
    BY <1>1, <1>2, SnapshotAssumption
    DEF Init, FileInv, TypeOK, Pc, Contents, Backup, Budget, Orphan, Loaded, Bearable

(***************************************************************************)
(* Every file operation, every failure and every crash keeps the invariant *)
(* and is a step of the cell.                                              *)
(***************************************************************************)
LEMMA StepSound ==
    ASSUME FileInv, [Next]_vars PROVE FileInv' /\ CellStep
  <1> USE SnapshotAssumption DEF FileInv, TypeOK, Pc, Contents, Backup, Budget, Orphan, Loaded,
        CellStep, Cell!Next, Cell!Replace, Cell!Acknowledge
  <1>1. CASE Write
    BY <1>1 DEF Write
  <1>2. CASE Rename
    <2>1. CASE Allowed /\ path' = version /\ Done
      BY <1>2, <2>1 DEF Rename, Allowed, Done
    <2>2. CASE Denied /\ UNCHANGED <<path, saved>> /\ pc' = "unlink"
      (* An orphan has no denial left, so the backup is not the only copy here. *)
      BY <1>2, <2>2 DEF Rename, Denied
    <2> QED
      BY <1>2, <2>1, <2>2 DEF Rename
  <1>3. CASE Unlink
    BY <1>3 DEF Unlink
  <1>4. CASE MoveAside
    <2>1. CASE path # 0 /\ Allowed /\ previous' = path /\ path' = 0 /\ pc' = "again"
      BY <1>4, <2>1 DEF MoveAside, Allowed
    <2>2. CASE path = 0 /\ Allowed /\ pc' = "again" /\ UNCHANGED <<path, previous>>
      BY <1>4, <2>2 DEF MoveAside, Allowed
    <2>3. CASE path # 0 /\ Denied /\ pc' = "failed" /\ UNCHANGED <<path, previous>>
      BY <1>4, <2>3 DEF MoveAside, Denied
    <2> QED
      BY <1>4, <2>1, <2>2, <2>3 DEF MoveAside
  <1>5. CASE RenameAgain
    <2>1. CASE Allowed /\ path' = version /\ pc' = "drop"
      BY <1>5, <2>1 DEF RenameAgain, Allowed
    <2>2. CASE Denied /\ UNCHANGED path /\ pc' = "restore"
      BY <1>5, <2>2 DEF RenameAgain, Denied
    <2> QED
      BY <1>5, <2>1, <2>2 DEF RenameAgain
  <1>6. CASE Restore
    <2>1. CASE previous # 0 /\ Allowed /\ path' = previous /\ previous' = 0
      BY <1>6, <2>1 DEF Restore, Allowed
    <2>2. CASE previous = 0 /\ Allowed /\ UNCHANGED <<path, previous>>
      BY <1>6, <2>2 DEF Restore, Allowed
    <2>3. CASE previous # 0 /\ Denied /\ UNCHANGED <<path, previous>>
      BY <1>6, <2>3 DEF Restore, Denied
    <2> QED
      BY <1>6, <2>1, <2>2, <2>3 DEF Restore
  <1>7. CASE DropPrevious
    BY <1>7 DEF DropPrevious, Done
  <1>8. CASE Retry
    BY <1>8 DEF Retry
  <1>9. CASE Crash
    BY <1>9 DEF Crash
  <1>10. CASE UNCHANGED vars
    BY <1>10 DEF vars
  <1> QED
    BY <1>1, <1>2, <1>3, <1>4, <1>5, <1>6, <1>7, <1>8, <1>9, <1>10 DEF Next

(***************************************************************************)
(* The snapshot and its backup are never both behind the save that stands: *)
(* the invariant holds in every reachable state.                           *)
(***************************************************************************)
THEOREM FileSound ==
    ASSUME \A f \in Faults : Bearable(f) PROVE Spec => []FileInv
  <1>1. Init => FileInv
    BY InitSound
  <1>2. FileInv /\ [Next]_vars => FileInv'
    BY StepSound
  <1> QED
    BY <1>1, <1>2, PTL DEF Spec

(***************************************************************************)
(* The save of a snapshot, file operation by file operation, implements    *)
(* the atomic replacement of a durable cell.                               *)
(***************************************************************************)
THEOREM FileIsACell ==
    ASSUME \A f \in Faults : Bearable(f) PROVE Spec => CellSpec
  <1>1. Init => Cell!Init
    BY DEF Init, Cell!Init, Loaded
  <1>2. FileInv /\ [Next]_vars => [Cell!Next]_<<Loaded, saved>>
    BY StepSound DEF CellStep
  <1> QED
    BY <1>1, <1>2, FileSound, PTL DEF Spec, CellSpec, Cell!Spec

(***************************************************************************)
(* "Preserve a backup until the replacement succeeds": once a version is   *)
(* saved, a restart finds one (persistence.go).                            *)
(***************************************************************************)
THEOREM RestartFindsACopy ==
    ASSUME \A f \in Faults : Bearable(f) PROVE Spec => []RestartHasACopy
  <1>1. FileInv => RestartHasACopy
    BY DEF FileInv, TypeOK, Contents, RestartHasACopy, Loaded
  <1> QED
    BY <1>1, FileSound, PTL
=============================================================================
