----------------------------- MODULE MCWorktrees -----------------------------
(***************************************************************************)
(* An instance of Worktrees for TLC: two repositories of one name, one of   *)
(* which may have a branch already, two sessions that share a terminal,    *)
(* and two requests.                                                       *)
(***************************************************************************)
EXTENDS Worktrees
CONSTANTS app, fork, fix, lint, talk, other, one, two

MCOwned == {<<app, lint>>}
=============================================================================
