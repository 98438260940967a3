---------------------------- MODULE RunLogPromise ----------------------------
(***************************************************************************)
(* What whoever follows the log of a run is promised: its records in the   *)
(* order they were numbered, none of them twice, none skipped that the log *)
(* still keeps, and the terminal result once, after everything else. The   *)
(* log may forget its oldest records; it never gives a number out again.   *)
(***************************************************************************)
EXTENDS Integers

VARIABLES
    issued,     \* the highest number ever given to a record, 0 for none
    kept,       \* the numbers of the records the log keeps
    cursor,     \* the number of the last record told
    closed      \* the result has been told

Init ==
    /\ issued \in Nat
    /\ kept \subseteq 1..issued
    /\ cursor = 0
    /\ closed = FALSE

\* A new record, which may cost the log its oldest ones, or itself.
Write ==
    /\ issued' \in Nat /\ issued' > issued
    /\ kept' \subseteq kept \cup {issued'}
    /\ \A old \in (kept \cup {issued'}) \ kept' : \A k \in kept' : old < k
    /\ UNCHANGED <<cursor, closed>>

NoneSkipped == \A k \in kept : ~(cursor < k /\ k < cursor')

Tell ==
    /\ ~closed
    /\ cursor < cursor' /\ cursor' <= issued
    /\ NoneSkipped
    /\ closed' \in BOOLEAN
    /\ closed' => \A k \in kept : k <= cursor'
    /\ UNCHANGED <<issued, kept>>

\* A run that ended before runs had logs is told of by its row.
TellUnlogged ==
    /\ ~closed /\ issued = 0
    /\ closed' = TRUE
    /\ UNCHANGED <<issued, kept, cursor>>

Next == Write \/ Tell \/ TellUnlogged

Spec == Init /\ [][Next]_<<issued, kept, cursor, closed>>
=============================================================================
