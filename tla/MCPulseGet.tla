----------------------------- MODULE MCPulseGet -----------------------------
(* TLC instance of PulseGet: one stream of a channel, up to two requests. *)
EXTENDS PulseGet, TLC

Ask(kind, window, stream) == [kind |-> kind, window |-> window, stream |-> stream]

(* What the live poll, an open panel and a finished backfill ask; payloads *)
(* without a stream id stand for those of another stream.                  *)
CONSTANTS s1, r1, r2
PollAsks == {Ask("get", "recent", NoStream), Ask("get", "recent", s1)}
AnswerAsks == {Ask("get", "full", s1), Ask("refresh", "full", s1)}
OneAsk == {Ask("get", "recent", NoStream), Ask("retry", "recent", NoStream)}
Symmetry == Permutations(Requests)
=============================================================================
