---------------------------- MODULE MCFileWrites ----------------------------
(* Small volumes and short files for TLC.                                  *)
EXTENDS FileWrites, TLC

Symmetry == Permutations(Owners)
=============================================================================
