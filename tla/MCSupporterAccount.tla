------------------------ MODULE MCSupporterAccount ------------------------
(* TLC instances of SupporterAccount. *)
EXTENDS SupporterAccount
=============================================================================
