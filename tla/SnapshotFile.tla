---------------------------- MODULE SnapshotFile ----------------------------
(***************************************************************************)
(* The replacement of a snapshot file, as the execution store              *)
(* (runtime/agent/execution_store.go), the effect ledger                   *)
(* (runtime/agent/effects.go) and the memory snapshot                      *)
(* (runtime/memory/persistence.go) do it: a synced temporary file renamed  *)
(* over the snapshot and, where the rename is denied, by way of a          *)
(* `.previous' file.  Every file operation is a step, any rename may be    *)
(* denied, and the process may crash between any two steps.                *)
(*                                                                         *)
(* File contents are version numbers; 0 is a file that does not exist.     *)
(***************************************************************************)
EXTENDS Naturals

CONSTANTS
    Tries,              \* replacements tried by one save: 5 in the execution store, else 1
    Faults,             \* bounds on the denied renames and the crashes of a behaviour:
                        \* each pair is one choice of the two
    MaxVersion          \* bound on the saves

ASSUME SnapshotAssumption ==
    /\ Tries \in Nat \ {0}
    /\ Faults \subseteq Nat \X Nat
    /\ MaxVersion \in Nat

VARIABLES
    path,               \* the snapshot
    previous,           \* the snapshot moved aside
    version,            \* the version last written to a temporary file
    pc,                 \* where the save is; "idle" when none is going on
    try,                \* replacements this save has begun
    saved,              \* the version the process knows to be on disk
    denials,            \* renames that may still be denied
    crashes             \* crashes that may still happen

vars == <<path, previous, version, pc, try, saved, denials, crashes>>

Pc == {"idle", "rename", "unlink", "aside", "again", "restore", "drop", "failed"}

Init ==
    /\ path = 0
    /\ previous = 0
    /\ version = 0
    /\ pc = "idle"
    /\ try = 0
    /\ saved = 0
    /\ \E f \in Faults : denials = f[1] /\ crashes = f[2]

Denied == denials > 0 /\ denials' = denials - 1
Allowed == UNCHANGED denials

(***************************************************************************)
(* Load reads the snapshot and, where there is none, the one moved aside.  *)
(***************************************************************************)
Loaded == IF path # 0 THEN path ELSE previous

(***************************************************************************)
(* A save writes and syncs a temporary file; a failure there changes       *)
(* nothing.                                                                *)
(***************************************************************************)
Write ==
    /\ pc = "idle"
    /\ version < MaxVersion
    /\ version' = version + 1
    /\ try' = 1
    /\ pc' \in {"rename", "idle"}
    /\ UNCHANGED <<path, previous, saved, denials, crashes>>

Done == pc' = "idle" /\ saved' = version

Rename ==
    /\ pc = "rename"
    /\ \/ Allowed /\ path' = version /\ Done
       \/ Denied /\ UNCHANGED <<path, saved>> /\ pc' = "unlink"
    /\ UNCHANGED <<previous, version, try, crashes>>

(***************************************************************************)
(* The rename was denied.  The older `.previous' goes (if it can), the     *)
(* snapshot is moved there, and the rename is tried again.                 *)
(***************************************************************************)
Unlink ==
    /\ pc = "unlink"
    /\ previous' \in {0, previous}
    /\ pc' = "aside"
    /\ UNCHANGED <<path, version, try, saved, denials, crashes>>

(* Wrong: the snapshot is removed instead of moved aside. *)
RemoveSnapshot ==
    /\ pc = "aside"
    /\ path' = 0
    /\ pc' = "again"
    /\ UNCHANGED <<previous, version, try, saved, denials, crashes>>

MoveAside ==
    /\ pc = "aside"
    /\ \/ /\ path # 0
          /\ Allowed
          /\ previous' = path
          /\ path' = 0
          /\ pc' = "again"
       \/ /\ path = 0
          /\ Allowed
          /\ pc' = "again"
          /\ UNCHANGED <<path, previous>>
       \/ /\ path # 0
          /\ Denied
          /\ pc' = "failed"
          /\ UNCHANGED <<path, previous>>
    /\ UNCHANGED <<version, try, saved, crashes>>

RenameAgain ==
    /\ pc = "again"
    /\ \/ Allowed /\ path' = version /\ pc' = "drop"
       \/ Denied /\ UNCHANGED path /\ pc' = "restore"
    /\ UNCHANGED <<previous, version, try, saved, crashes>>

Restore ==
    /\ pc = "restore"
    /\ \/ /\ previous # 0
          /\ Allowed
          /\ path' = previous
          /\ previous' = 0
       \/ /\ previous = 0
          /\ Allowed
          /\ UNCHANGED <<path, previous>>
       \/ /\ previous # 0
          /\ Denied
          /\ UNCHANGED <<path, previous>>
    /\ pc' = "failed"
    /\ UNCHANGED <<version, try, saved, crashes>>

DropPrevious ==
    /\ pc = "drop"
    /\ previous' \in {0, previous}
    /\ Done
    /\ UNCHANGED <<path, version, try, denials, crashes>>

(***************************************************************************)
(* A failed replacement is tried again, or the save returns its error.     *)
(***************************************************************************)
Retry ==
    /\ pc = "failed"
    /\ IF try < Tries THEN try' = try + 1 /\ pc' = "rename"
       ELSE pc' = "idle" /\ UNCHANGED try
    /\ UNCHANGED <<path, previous, version, saved, denials, crashes>>

(***************************************************************************)
(* The process dies; the next one loads what there is.                     *)
(***************************************************************************)
Crash ==
    /\ crashes > 0
    /\ crashes' = crashes - 1
    /\ pc' = "idle"
    /\ saved' = Loaded
    /\ UNCHANGED <<path, previous, version, try, denials>>

Next ==
    \/ Write
    \/ Rename
    \/ Unlink
    \/ MoveAside
    \/ RenameAgain
    \/ Restore
    \/ DropPrevious
    \/ Retry
    \/ Crash

Spec == Init /\ [][Next]_vars

(* What the backup can take: one denied rename and crashes, or three denied *)
(* renames and no crash.                                                    *)
Survivable == {<<1, 3>>, <<3, 0>>}

-----------------------------------------------------------------------------
(***************************************************************************)
(* The variables keep their types.                                         *)
(***************************************************************************)
TypeOK ==
    /\ path \in 0..MaxVersion
    /\ previous \in 0..MaxVersion
    /\ version \in 0..MaxVersion
    /\ pc \in Pc
    /\ try \in 0..Tries
    /\ saved \in 0..MaxVersion
    /\ denials \in Nat
    /\ crashes \in Nat

(* A reader gets what Load would return, and the version saved last is kept. *)
Cell == INSTANCE DurableCell WITH cell <- Loaded, acked <- saved

(***************************************************************************)
(* The file is a durable cell, wherever the process crashes if one rename  *)
(* is denied, and through three denied renames if it does not crash: at    *)
(* every step of a save a restart would load the version saved last or the *)
(* one being saved, never an older one and never nothing.                  *)
(***************************************************************************)
CellSpec == Cell!Spec

(***************************************************************************)
(* "Preserve a backup until the replacement succeeds so restart recovery   *)
(* still has a copy": once a version is saved a restart finds one.         *)
(***************************************************************************)
RestartHasACopy == saved # 0 => Loaded # 0
=============================================================================
