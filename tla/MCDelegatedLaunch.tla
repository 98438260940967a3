-------------------------- MODULE MCDelegatedLaunch --------------------------
(***************************************************************************)
(* An instance of DelegatedLaunch for TLC: sessions that advertise no      *)
(* options, one selector found by its category or by its id, or two that   *)
(* cannot be told apart.                                                   *)
(***************************************************************************)
EXTENDS DelegatedLaunch
CONSTANTS opus, sonnet, high, first, second, probe

Option(id, category, current) ==
    [id |-> id, category |-> category, values |-> {high, "max"}, current |-> current]

Of(options) == [is |-> "listed", options |-> options]

MCListing == {Unlisted, Garbled} \cup
    { Of({Option("effort", "thought_level", "max")}),
      Of({Option("reasoning_effort", Null, high), Option("mode", Null, "max")}),
      Of({Option("one", "thought_level", high), Option("two", "thought_level", "max")}) }

MCApproval == {[model |-> sonnet, effort |-> high]}

\* A run and an observation, or a run and a later one that asks for the same and may
\* continue it: two other runs have nothing in common but the baseline they read. Once
\* something was disturbed, sessions are asked one after the other: they meet in the
\* harness only, which changes between any two steps of each.
Asking == {j \in Job : At(j, (Live \ {"turn"}) \cup {"discarding"})}
Pairs ==
    /\ \E j \in Job : At(j, {"idle"})
    /\ \/ At(second, {"idle"})
       \/ At(first, {"turn", "failed"}) /\ job[second].pins = job[first].pins
    /\ trouble = 0 \/ Cardinality(Asking) <= 1
=============================================================================
