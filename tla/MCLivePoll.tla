----------------------------- MODULE MCLivePoll -----------------------------
(* TLC instance of LivePoll: two interchangeable channels. *)
EXTENDS LivePoll, TLC

Symmetry == Permutations(Logins)
=============================================================================
