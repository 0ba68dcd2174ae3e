------------------------ MODULE MCSupporterPayFirst ------------------------
(* SupporterPayFirst with two accounts, which are alike. *)
EXTENDS SupporterPayFirst, TLC
Symmetry == Permutations(Accounts)
=============================================================================
