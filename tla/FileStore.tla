------------------------------ MODULE FileStore ------------------------------
(***************************************************************************)
(* What FileWrite promises about the contents of files.                    *)
(*                                                                         *)
(* view is what read_file_at returns through an open handle, disk what it  *)
(* would return after a remount.  A call changes the view only in the      *)
(* range it was given, and a file that grows shows zeroes and the call's   *)
(* own data in what it gained: never other bytes.  The disk follows when   *)
(* the directory entry is persisted.  A call may stop at any point.        *)
(***************************************************************************)
EXTENDS Integers, Sequences

CONSTANTS
  Files,
  MaxLength,  \* the largest file
  Values,     \* bytes an application writes
  Zero,       \* the byte that fills gaps
  NoOp

VARIABLES
  view,       \* file -> contents through the handle
  disk,       \* file -> contents through the directory entry
  op          \* the call that runs: its file, kind, range and byte

storeVars == <<view, disk, op>>

Bytes == Values \cup {Zero}

-----------------------------------------------------------------------------
Begin(f, kind, at, end, value) ==
  /\ op = NoOp
  /\ op' = [file |-> f, kind |-> kind, at |-> at, end |-> end, value |-> value]

BeginWrite(f, at, end, value) ==
  /\ at < end
  /\ Begin(f, "write", at, end, value)
  /\ UNCHANGED <<view, disk>>

(* A file that shrinks, or is removed (n = 0), does so in the handle first. *)
BeginTruncate(f, n) ==
  /\ Begin(f, "truncate", n, n, Zero)
  /\ view' = IF n < Len(view[f])
               THEN [view EXCEPT ![f] = SubSeq(@, 1, n)]
               ELSE view
  /\ UNCHANGED disk

(* A byte written under the view shows at once.  It shows on the disk too, *)
(* unless the entry still has an older chain or length.                    *)
OnDisk(f, i, b) ==
  \/ disk' = disk
  \/ i <= Len(disk[f]) /\ disk' = [disk EXCEPT ![f][i] = b]

Overwrite ==
  /\ op # NoOp /\ op.kind = "write"
  /\ \E i \in (op.at + 1) .. op.end :
       /\ i <= Len(view[op.file])
       /\ view' = [view EXCEPT ![op.file][i] = op.value]
       /\ OnDisk(op.file, i, op.value)
  /\ UNCHANGED op

(* Bytes past the view are prepared before the view grows; they show only  *)
(* in an entry that an interrupted truncation left longer than its handle. *)
Prepare ==
  /\ op # NoOp
  /\ \E i \in 1 .. op.end :
       /\ i > Len(view[op.file])
       /\ OnDisk(op.file, i, IF i <= op.at THEN Zero ELSE op.value)
  /\ UNCHANGED <<view, op>>

Grow ==
  /\ op # NoOp
  /\ LET f == op.file
         old == view[f]
     IN  /\ op.end > Len(old)
         /\ \A i \in (op.at + 1) .. Len(old) : old[i] = op.value
         /\ view' = [view EXCEPT ![f] =
              [i \in 1 .. op.end |->
                 IF i <= Len(old) THEN old[i] ELSE IF i <= op.at THEN Zero ELSE op.value]]
         /\ OnDisk(f, op.end, IF op.kind = "write" THEN op.value ELSE Zero)
  /\ UNCHANGED op

Persist ==
  /\ op # NoOp
  /\ disk' = [disk EXCEPT ![op.file] = view[op.file]]
  /\ UNCHANGED view
  /\ op' \in {op, NoOp}

Return ==
  /\ op # NoOp
  /\ op' = NoOp
  /\ UNCHANGED <<view, disk>>

(* The last byte of a write, and the return.                               *)
OverwriteAndReturn ==
  /\ op # NoOp /\ op.kind = "write"
  /\ op.end <= Len(view[op.file])
  /\ view' = [view EXCEPT ![op.file][op.end] = op.value]
  /\ OnDisk(op.file, op.end, op.value)
  /\ op' = NoOp

Remount ==
  /\ view' = disk
  /\ op' = NoOp
  /\ UNCHANGED disk

-----------------------------------------------------------------------------
StoreInit ==
  /\ disk \in [Files -> Seq(Bytes)]
  /\ view = disk
  /\ op = NoOp

StoreNext ==
  \/ \E f \in Files :
       \/ \E at, end \in 0 .. MaxLength, value \in Values : BeginWrite(f, at, end, value)
       \/ \E n \in 0 .. MaxLength : BeginTruncate(f, n)
  \/ Overwrite \/ OverwriteAndReturn \/ Prepare \/ Grow \/ Persist \/ Return
  \/ Remount

StoreSpec == StoreInit /\ [][StoreNext]_storeVars
=============================================================================
