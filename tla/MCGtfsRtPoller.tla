---------------------------- MODULE MCGtfsRtPoller ----------------------------
(***************************************************************************)
(* GtfsRtPoller for TLC: workers are alike.  Only safety is checked, so    *)
(* the reduction is sound.                                                 *)
(***************************************************************************)
EXTENDS GtfsRtPoller, TLC

Symmetry == Permutations(Workers)
=============================================================================
