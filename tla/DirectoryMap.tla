---------------------------- MODULE DirectoryMap ----------------------------
(***************************************************************************)
(* What a directory promises: a set of entries, each a name and a first    *)
(* cluster.  A call changes it by whole entries, and only by the entries   *)
(* it was asked to change.  A rename publishes the new entry before it     *)
(* deletes the old one, and may stop in between.                           *)
(***************************************************************************)
CONSTANTS Names, Refs, NoOp

VARIABLES
  entries,   \* what a listing of the directory shows
  op         \* the call that runs: its kind, its names and its cluster

mapVars == <<entries, op>>

Named(n) == {e \in entries : e.name = n}

Begin ==
  /\ op = NoOp
  /\ op' # NoOp
  /\ op'.kind \in {"create", "mkdir", "rename"} => Named(op'.name) = {}
  /\ op'.kind \in {"remove", "rename"} =>
       [name |-> op'.source, ref |-> op'.ref] \in entries
  /\ UNCHANGED entries

(* The cluster of a new directory is chosen by the call.                   *)
Choose ==
  /\ op # NoOp /\ op.kind = "mkdir"
  /\ \E r \in Refs : op' = [op EXCEPT !.ref = r]
  /\ UNCHANGED entries

Publish ==
  /\ op # NoOp /\ op.kind \in {"create", "mkdir", "rename"}
  /\ Named(op.name) = {}
  /\ entries' = entries \cup {[name |-> op.name, ref |-> op.ref]}
  /\ op' \in {op, NoOp}

Delete ==
  /\ op # NoOp /\ op.kind \in {"remove", "rename"}
  /\ op.kind = "rename" => [name |-> op.name, ref |-> op.ref] \in entries
  /\ entries' = entries \ {[name |-> op.source, ref |-> op.ref]}
  /\ op' \in {op, NoOp}

Return ==
  /\ op # NoOp
  /\ op' = NoOp
  /\ UNCHANGED entries

MapInit == entries = {} /\ op = NoOp

MapNext == Begin \/ Choose \/ Publish \/ Delete \/ Return

MapSpec == MapInit /\ [][MapNext]_mapVars
=============================================================================
