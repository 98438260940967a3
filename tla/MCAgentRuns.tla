----------------------------- MODULE MCAgentRuns -----------------------------
(***************************************************************************)
(* Instances of AgentRuns for TLC. The numbers are in the .cfg files; the  *)
(* state constraints below pick the part of the behaviours an instance is  *)
(* about, so that it can afford more rows.                                 *)
(***************************************************************************)
EXTENDS AgentRuns

\* Every run but the first descends from it: nested delegation, retry, resume.
OneFamily ==
    \A r \in Exists(runs) \ {1} :
        {runs[r].parent, runs[r].retryOf, runs[r].resumeOf} # {Nobody}

\* No abort, stop or crash, now or before: what remains is the order in which
\* turns settle.
Undisturbed ==
    /\ daemon = "up"
    /\ \A r \in Run : intent[r] = "none" /\ runs[r].status \notin {"interrupted", "lost"}

\* Stops, but no cancel and no deadline.
OnlyStops == \A r \in Run : intent[r] \in {"none", "stop"}

\* No turn fails or is cancelled: runs complete, are interrupted or are lost.
NothingFails == \A r \in Run : runs[r].status \notin {"failed", "cancelled"}

\* Two levels of delegation.
Shallow == \A r \in Exists(runs) : runs[r].depth <= 2

\* One run beside the family of the first.
OneRival ==
    \E rival \in Run : \A r \in Exists(runs) \ {1, rival} :
        /\ {runs[r].parent, runs[r].retryOf, runs[r].resumeOf} # {Nobody}
        /\ rival \notin {runs[r].parent, runs[r].retryOf, runs[r].resumeOf}

\* The smallest tables in which a run, its retry and its resume or a child meet,
\* or two rivals for the slot: every request, abort, fault and restart over them.
Small ==
    /\ Shallow
    /\ \/ OneFamily /\ Cardinality(Exists(runs)) <= 3
       \/ Cardinality(Exists(runs)) <= 2
       \/ OneRival /\ Undisturbed /\ faults = 0 /\ Cardinality(Exists(runs)) <= 3

\* Every fault so far was a removed folder or a closed conversation.
OnlyBarred == faults = Cardinality(gone) + Cardinality(closed)

\* Larger tables, where the interest is in completions: one deep tree in a quiet
\* daemon (up to three rows of it may be barred), and one tree across stops and
\* restarts.
Families ==
    /\ OneFamily
    /\ \/ faults = 0 /\ (Undisturbed \/ (Shallow /\ OnlyStops /\ NothingFails))
       \/ Undisturbed /\ OnlyBarred /\ Cardinality(Exists(runs)) <= 3

SmallOrFamilies == Small \/ Families

\* The bound as a guard, so that little is computed beyond it; a restart may go
\* one step past it.
MCSpec == Init /\ [][Next /\ (SmallOrFamilies' \/ daemon = "down")]_vars
=============================================================================
