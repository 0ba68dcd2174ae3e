------------------------- MODULE MCAnalyticsConsent -------------------------
(* AnalyticsConsent on a small instance. *)
EXTENDS AnalyticsConsent
=============================================================================
