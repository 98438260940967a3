-------------------------- MODULE MCSessionMonitor --------------------------
(***************************************************************************)
(* An instance of SessionMonitor for TLC: one session, and the store of    *)
(* another harness that is there from the start, so that the session's own *)
(* store, if it is created late, may find the other one watched.           *)
(***************************************************************************)
EXTENDS SessionMonitor
CONSTANTS claude, codex, alpha
InClaude == [t \in Thread |-> claude]
=============================================================================
