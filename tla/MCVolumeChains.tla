--------------------------- MODULE MCVolumeChains ---------------------------
(* Small volumes for TLC.                                                  *)
EXTENDS VolumeChains, TLC

(* Nothing is said of what calls do once a chain was freed under another   *)
(* entry: the run ends there.  Any image at all, and so any that is        *)
(* reached this way, is an initial state of the run any_image.             *)
UntilSpoilt == ~ spoilt

Symmetries == Permutations(Owners)
=============================================================================
