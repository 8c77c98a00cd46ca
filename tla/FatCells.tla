------------------------------ MODULE FatCells ------------------------------
(***************************************************************************)
(* What the FAT promises to the code above it: a table of entries in some  *)
(* copies, where a call stores one value in one entry, copy by copy, and   *)
(* nothing else changes.  It may stop between two copies; an entry that    *)
(* lies across two blocks can be caught half written.                      *)
(***************************************************************************)
EXTENDS Integers

CONSTANT NoWrite

VARIABLES
  cells,       \* copy -> cluster -> FAT entry
  writing,     \* NoWrite, or the cluster, the value and the copies to come
  straddling   \* the pairs of a copy and a cluster that lie across blocks

cellVars == <<cells, writing, straddling>>

Begin ==
  /\ writing = NoWrite
  /\ writing' # NoWrite
  /\ writing'.left \subseteq DOMAIN cells
  /\ UNCHANGED <<cells, straddling>>

IsNext(k) == writing # NoWrite /\ k \in writing.left /\ \A j \in writing.left : k <= j

Store(k) ==
  /\ IsNext(k)
  /\ cells' = [cells EXCEPT ![k][writing.cluster] = writing.value]
  /\ writing' = [writing EXCEPT !.left = @ \ {k}]
  /\ UNCHANGED straddling

Tear(k) ==
  /\ IsNext(k) /\ <<k, writing.cluster>> \in straddling
  /\ cells' = [cells EXCEPT ![k][writing.cluster] = cells'[k][writing.cluster]]
  /\ UNCHANGED <<writing, straddling>>

Return ==
  /\ writing # NoWrite
  /\ writing' = NoWrite
  /\ UNCHANGED <<cells, straddling>>

CellsNext == Begin \/ Return \/ \E k \in DOMAIN cells : Store(k) \/ Tear(k)

CellsSpec == writing = NoWrite /\ [][CellsNext]_cellVars
=============================================================================
