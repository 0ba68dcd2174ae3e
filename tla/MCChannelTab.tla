---------------------------- MODULE MCChannelTab ----------------------------
(* ChannelTab with two channels and two recordings. *)
EXTENDS ChannelTab
=============================================================================
