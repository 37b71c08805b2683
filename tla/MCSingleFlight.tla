---------------------------- MODULE MCSingleFlight ----------------------------
(***************************************************************************)
(* SingleFlight for TLC.  Requests are interchangeable, and so are the     *)
(* background tasks (safety runs only).                                    *)
(***************************************************************************)
EXTENDS SingleFlight, TLC

Symmetry == Permutations(Requests) \cup Permutations(Refreshers)
=============================================================================
