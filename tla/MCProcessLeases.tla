--------------------------- MODULE MCProcessLeases ---------------------------
(***************************************************************************)
(* An instance of ProcessLeases for TLC: a turn or a probe, the pids of a  *)
(* tree of three, and two daemons, in turn or at a time.                   *)
(***************************************************************************)
EXTENDS ProcessLeases
CONSTANTS one, two, three, turn, first, second
=============================================================================
