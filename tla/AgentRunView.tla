---------------------------- MODULE AgentRunView ----------------------------
(***************************************************************************)
(* What a view of delegated runs offers the owner (agent-state.ts, and     *)
(* agent-state-projection.ts for what the file system says).               *)
(*                                                                         *)
(* The executor judges a request by the whole ledger, a view by one list   *)
(* of rows: all of them, or those of one parent conversation.              *)
(***************************************************************************)
EXTENDS AgentRunLedger

\* listAgentRuns, for one parent conversation or, without one, for all.
Listed(db, parent) ==
    {r \in Exists(db) : parent = Nobody \/ db[r].parent = parent}

\* retryRunIds and resumeRunIds: what the list says was continued.
Continued(db, list, r) == \E q \in list : r \in {db[q].retryOf, db[q].resumeOf}

\* activeRunIdsByChild
ActiveIn(db, list, s) ==
    s # Nobody /\ \E q \in list \cap Nonterminal(db) : db[q].session = s

\* What the list alone says of a retry, and of a resume of the identity given.
Startable(db, list, r) ==
    /\ db[r].status \in Retryable
    /\ ~Continued(db, list, r)
    /\ ~ActiveIn(db, list, db[r].session)

Resumes(db, barred, list, r, session, record) ==
    /\ db[r].status \in Resumable
    /\ ~Continued(db, list, r)
    /\ session # Nobody /\ record # Nobody
    /\ ~ActiveIn(db, list, session)
    /\ session \notin barred

\* A run that started without saving its identity is judged by the record on disk.
canRecoverStartupRetry(db, saved, closed, list, r) ==
    r \in saved => r \notin closed /\ ~ActiveIn(db, list, r)
canRecoverResume(db, saved, barred, list, r) ==
    r \in saved /\ Resumes(db, barred, list, r, r, r)

\* deriveParentAgentStateWithEnvironment: what the view offers in the end.
canRetry(db, saved, closed, list, r) ==
    /\ Startable(db, list, r)
    /\ IF db[r].session # Nobody THEN db[r].session \notin closed
                                ELSE canRecoverStartupRetry(db, saved, closed, list, r)

canResume(db, saved, barred, list, r) ==
    \/ Resumes(db, barred, list, r, db[r].session, db[r].record)
    \/ db[r].session = Nobody /\ canRecoverResume(db, saved, barred, list, r)
=============================================================================
