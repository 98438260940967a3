-------------------------- MODULE CompletionDelivery --------------------------
(***************************************************************************)
(* What a parent conversation is promised about the children it delegated: *)
(* the completion of each reaches its transcript, and reaches it once.     *)
(*                                                                         *)
(* A child may finish and be told of in one step of an implementation only *)
(* as two, so a telling never precedes the finish it is about.             *)
(***************************************************************************)
EXTENDS Integers

CONSTANT Child

VARIABLES
    finished,   \* children whose run has ended
    told        \* how many times each child's completion is in the transcript

Init ==
    /\ finished = {}
    /\ told = [c \in Child |-> 0]

Finish(c) ==
    /\ c \notin finished
    /\ finished' = finished \cup {c}
    /\ UNCHANGED told

\* One message may tell of several children.
Tell(S) ==
    /\ S # {} /\ S \subseteq finished
    /\ \A c \in S : told[c] = 0
    /\ told' = [c \in Child |-> IF c \in S THEN 1 ELSE told[c]]
    /\ UNCHANGED finished

Next == (\E c \in Child : Finish(c)) \/ (\E S \in SUBSET Child : Tell(S))

Spec == Init /\ [][Next]_<<finished, told>>
=============================================================================
