--------------------------- MODULE MCHistorySync ---------------------------
(* TLC instance of HistorySync: two interchangeable moments. *)
EXTENDS HistorySync, TLC

Symmetry == Permutations(Moments)
=============================================================================
