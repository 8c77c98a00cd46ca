----------------------------- MODULE MCNamespace -----------------------------
(* Small instances of Namespace.                                           *)
EXTENDS Namespace, TLC

(* No property speaks of what calls do once one was interrupted: the run   *)
(* goes up to the interruption, at every step of every call.               *)
UntilInterrupted == intact

Symmetries == Permutations(Names) \cup Permutations(Dirs)
=============================================================================
