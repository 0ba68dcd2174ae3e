------------------------------- MODULE Consent -------------------------------
(***************************************************************************)
(* What AnalyticsConsent promises the viewer: usage events leave only      *)
(* while sharing is granted; a withdrawal ends it at once, the events      *)
(* under way and the grants asked for before it included; and sharing      *)
(* comes back only by a grant asked for since -- or, until storage has     *)
(* followed the worker, by a restart of the worker.                        *)
(***************************************************************************)
CONSTANT Emissions   \* the events that may be under way

VARIABLES
  consent,   \* "granted", "denied", or "doubted": denied here, not in storage
  asked,     \* a grant was asked for and no withdrawal since
  out        \* the events being sent

vars == <<consent, asked, out>>

Init == consent \in {"granted", "denied"} /\ asked = FALSE /\ out = {}

Send(e) ==
  consent = "granted" /\ out' = out \cup {e} /\ UNCHANGED <<consent, asked>>

Sent(e) == out' = out \ {e} /\ UNCHANGED <<consent, asked>>

Ask == asked' = TRUE /\ UNCHANGED <<consent, out>>
GiveUp == asked' = FALSE /\ UNCHANGED <<consent, out>>

Withdraw ==
  /\ consent' = IF consent = "denied" THEN "denied" ELSE "doubted"
  /\ asked' = FALSE /\ out' = {}

Settle == consent = "doubted" /\ consent' = "denied" /\ UNCHANGED <<asked, out>>

(* A grant reaches storage before, or without, taking effect here. *)
Reach == consent = "denied" /\ consent' = "doubted" /\ UNCHANGED <<asked, out>>

Grant ==
  /\ asked /\ consent' = "granted"
  /\ asked' \in BOOLEAN /\ UNCHANGED out

Restart ==
  /\ consent' = IF consent = "doubted" THEN "granted" ELSE consent
  /\ asked' = FALSE /\ out' = {}

Next ==
  \/ \E e \in Emissions : Send(e) \/ Sent(e)
  \/ Ask \/ GiveUp \/ Withdraw \/ Settle \/ Reach \/ Grant \/ Restart

Spec == Init /\ [][Next]_vars
=============================================================================
