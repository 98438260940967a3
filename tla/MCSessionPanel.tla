---------------------------- MODULE MCSessionPanel ----------------------------
(***************************************************************************)
(* An instance of SessionPanel for TLC: a session, and one it delegated.   *)
(***************************************************************************)
EXTENDS SessionPanel
CONSTANTS talk, child

MCParent == [t \in Session |-> IF t = child THEN talk ELSE None]
\* Two actions, of which one at a time renames, with one change or failure, or one with two.
Few ==
    /\ Cardinality({o \in Op : op[o].at # "idle"}) + news + trouble =< 3
    /\ Cardinality({o \in Op : op[o].does = "rename"}) =< 1

MCTitle == {"mine"}
=============================================================================
