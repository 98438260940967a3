----------------------------- MODULE MCScheduler -----------------------------
(***************************************************************************)
(* Instances of Scheduler for TLC, and the state constraints that pick the *)
(* behaviours an instance is about.                                        *)
(***************************************************************************)
EXTENDS Scheduler

\* A one-shot and a recurring schedule, with crashes and failing writes.
Timers ==
    /\ \A s \in Attention : schedules[s].saved = "absent"
    /\ \A t \in Thread : threads[t].version = 0

\* Needs-you schedules over one thread: two of them that
\* only trigger themselves, or one with manual runs and faults.
Handoffs ==
    /\ \A s \in OneShot \cup Recurring : schedules[s].saved = "absent"
    /\ \/ faults = 0 /\ \A r \in Row : rows[r].trigger # "manual" \/ rows[r].status = "absent"
       \/ \E s \in Attention :
              /\ \A other \in Attention \ {s} : schedules[other].saved = "absent"
              /\ \A t \in Thread : threads[t].version <= 1

TimersOrHandoffs == Timers \/ Handoffs
=============================================================================
