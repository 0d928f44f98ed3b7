----------------------------- MODULE MCProfiler -----------------------------
(* Two scopes that nest in any way, also in themselves and over frames.    *)
EXTENDS Profiler
=============================================================================
