--------------------------- MODULE MCProtectSync ---------------------------
(* ProtectSync with one channel and two handlers. *)
EXTENDS ProtectSync
=============================================================================
