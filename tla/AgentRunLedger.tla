--------------------------- MODULE AgentRunLedger ---------------------------
(***************************************************************************)
(* The agent_runs table of State and the pure rules that read it: which    *)
(* run may be retried or resumed, which saved conversation is due for an   *)
(* automatic follow-up, which queued row a pump claims.                    *)
(*                                                                         *)
(* Every operator is a function of `db`, one value of the table, so that   *)
(* an executor handler, which makes several SQL calls in one turn of the   *)
(* event loop, is a composition of these operators.                        *)
(*                                                                         *)
(* Row r is the r-th row ever inserted: rows are never deleted, and both   *)
(* created_at and rowid grow with r, so "newest first" is descending r.    *)
(* A conversation (child_session_id) is named by the run that opened it.   *)
(***************************************************************************)
EXTENDS Integers, FiniteSets

CONSTANTS
    MaxRuns,        \* bound on rows ever inserted (model bound)
    MaxDepth,       \* AGENT_RUN_MAX_DEPTH, 5 in the code
    MaxConcurrent   \* the executor's maxConcurrent option

ASSUME LedgerAssumption ==
    /\ MaxRuns \in Nat \ {0}
    /\ MaxDepth \in Nat \ {0}
    /\ MaxConcurrent \in Nat

Run == 1..MaxRuns
Nobody == 0                     \* SQL NULL: no run, no session, no parent
RunOrNobody == Run \cup {Nobody}

\* (mutant) an owner's cancellation counted among the retryable outcomes
RetryableWithCancelled == {"interrupted", "lost", "failed", "cancelled"}

Terminal  == {"completed", "failed", "cancelled", "interrupted", "lost"}
Retryable == {"interrupted", "lost", "failed"}
Resumable == Terminal
Status    == {"absent", "pending", "running"} \cup Terminal

Row == [status      : Status,
        parent      : RunOrNobody,      \* parent_thread_id
        depth       : 0..MaxDepth,
        session     : RunOrNobody,      \* child_session_id
        record      : RunOrNobody,      \* acpx_record_id
        retryOf     : RunOrNobody,
        resumeOf    : RunOrNobody,
        completions : SUBSET Run,       \* completion_run_ids
        submitted   : BOOLEAN]          \* prompt_submitted

Blank == [status |-> "absent", parent |-> Nobody, depth |-> 0,
          session |-> Nobody, record |-> Nobody, retryOf |-> Nobody,
          resumeOf |-> Nobody, completions |-> {}, submitted |-> FALSE]

Exists(db)      == {r \in Run : db[r].status # "absent"}
Pending(db)     == {r \in Run : db[r].status = "pending"}
Running(db)     == {r \in Run : db[r].status = "running"}
Nonterminal(db) == Pending(db) \cup Running(db)
Finished(db)    == {r \in Run : db[r].status \in Terminal}

\* The row numbers an insert can still take; empty when the table is full.
Unused(db) == {i \in Run : \A r \in Exists(db) : r < i}

-----------------------------------------------------------------------------
(* Conversations: the runs that share one saved child session.             *)

Conversation(db, s) == {r \in Exists(db) : db[r].session = s}

\* latestBySession: the newest run of each conversation.
Heads(db) ==
    {r \in Exists(db) : /\ db[r].session # Nobody
                        /\ \A q \in Conversation(db, db[r].session) : q <= r}

Latest(db, r) ==
    IF db[r].session = Nobody THEN r
    ELSE CHOOSE h \in Heads(db) : db[h].session = db[r].session

Successors(db, r) == {q \in Exists(db) : r \in {db[q].retryOf, db[q].resumeOf}}

\* nonterminalAgentRunByChildSession
Busy(db, s) == s # Nobody /\ Conversation(db, s) \cap Nonterminal(db) # {}

\* Child runs whose completion a submitted prompt of conversation s carried.
Delivered(db, s) ==
    UNION {db[r].completions : r \in {q \in Conversation(db, s) : db[q].submitted}}

\* (mutant) completions already delivered stay due
KidsEverDelivered(db, s) ==
    {Latest(db, c) : c \in {q \in Exists(db) : db[q].parent = s}}

\* The latest run of each child conversation of s (a child that never saved a
\* conversation stands for itself) whose completion s has not been sent.
Kids(db, s) ==
    {Latest(db, c) : c \in {q \in Exists(db) : db[q].parent = s}} \ Delivered(db, s)

ActiveParents(db) == {db[r].parent : r \in Nonterminal(db)}

\* Completed runs whose conversation has delegated work of its own.
Delegators(db) ==
    {r \in Exists(db) : /\ db[r].status = "completed"
                        /\ \E c \in Exists(db) : db[c].parent = db[r].session}

-----------------------------------------------------------------------------
(* Retry and resume. `saved` is the set of runs whose ACP record is on     *)
(* disk though the row may not name it; `closed` the conversations whose   *)
(* record refuses any continuation (openCodeContinuationError, or a record *)
(* that can no longer be read); `barred` those that cannot be resumed:     *)
(* closed, or with a working directory that no longer exists.              *)

\* (mutant) the record on disk is not consulted
SessionOfRowOnly(db, saved, r) == db[r].session

\* recoverSavedSessionIdentity: the identity the row names, else the saved one.
SessionOf(db, saved, r) ==
    IF db[r].session = Nobody /\ r \in saved THEN r ELSE db[r].session
RecordOf(db, saved, r) ==
    IF db[r].session = Nobody /\ r \in saved THEN r ELSE db[r].record

\* (mutant) neither an earlier successor nor an active turn is looked for
RetryAllowedByStatus(db, saved, closed, r) == db[r].status \in Retryable

\* (mutant) the record is not asked whether the harness continues sessions
RetryAllowedUnasked(db, saved, closed, r) ==
    /\ db[r].status \in Retryable
    /\ Successors(db, r) = {}
    /\ ~Busy(db, SessionOf(db, saved, r))

\* A run that has no conversation yet (Nobody) starts a fresh one.
RetryAllowed(db, saved, closed, r) ==
    /\ db[r].status \in Retryable
    /\ Successors(db, r) = {}
    /\ ~Busy(db, SessionOf(db, saved, r))
    /\ SessionOf(db, saved, r) \notin closed

\* (mutant) an already resumed or retried run may be resumed again
ResumeAllowedTwice(db, saved, barred, r) ==
    /\ db[r].status \in Resumable
    /\ SessionOf(db, saved, r) # Nobody
    /\ RecordOf(db, saved, r) # Nobody
    /\ ~Busy(db, SessionOf(db, saved, r))
    /\ SessionOf(db, saved, r) \notin barred

ResumeAllowed(db, saved, barred, r) ==
    /\ db[r].status \in Resumable
    /\ SessionOf(db, saved, r) # Nobody
    /\ RecordOf(db, saved, r) # Nobody
    /\ Successors(db, r) = {}
    /\ ~Busy(db, SessionOf(db, saved, r))
    /\ SessionOf(db, saved, r) \notin barred

Successor(db, saved, r, retryOf, resumeOf, completions) ==
    [status |-> "pending", parent |-> db[r].parent, depth |-> db[r].depth,
     session |-> SessionOf(db, saved, r), record |-> RecordOf(db, saved, r),
     retryOf |-> retryOf, resumeOf |-> resumeOf,
     completions |-> completions, submitted |-> FALSE]

\* (mutants) the retry forgets what its predecessor carried, its record, or
\* whose child it is
RetryRowWithoutEvidence(db, saved, r) == Successor(db, saved, r, r, Nobody, {})
RetryRowWithoutRecord(db, saved, r) ==
    [Successor(db, saved, r, r, Nobody, db[r].completions) EXCEPT !.record = Nobody]

RetryRowOfNobody(db, saved, r) ==
    [Successor(db, saved, r, r, Nobody, db[r].completions) EXCEPT !.parent = Nobody]

RetryRow(db, saved, r) == Successor(db, saved, r, r, Nobody, db[r].completions)
ResumeRow(db, saved, r, completions) ==
    Successor(db, saved, r, Nobody, r, completions)

\* What an owner's resume still has to hand over from an unsubmitted turn.
Undelivered(db, r) == IF db[r].submitted THEN {} ELSE db[r].completions

\* depthFor: one deeper than the run that owns the parent conversation.
DepthUnder(db, s) ==
    IF s = Nobody \/ Conversation(db, s) = {} THEN 1
    ELSE 1 + db[CHOOSE h \in Heads(db) : db[h].session = s].depth

\* agentRunTurnIntent does not throw for row r.
TurnIntentAccepts(db, r) ==
    LET row == db[r] IN
    /\ row.retryOf = Nobody \/ row.resumeOf = Nobody
    /\ row.retryOf # Nobody =>
          LET p == db[row.retryOf] IN
          /\ p.status \in Retryable
          /\ p.session # Nobody => row.session = p.session
          /\ p.record # Nobody => row.record = p.record
          /\ row.session = Nobody => row.record = Nobody
    /\ row.resumeOf # Nobody =>
          LET p == db[row.resumeOf] IN
          /\ p.status \in Resumable
          /\ row.session # Nobody
          /\ p.session # Nobody => row.session = p.session
          /\ row.record # Nobody
          /\ p.record # Nobody => row.record = p.record

-----------------------------------------------------------------------------
(* Inserts and the claim.                                                  *)

\* `new` maps each key to the row inserted for it, largest key first: the
\* order in which a loop over listAgentRuns (newest first) creates them. Rows
\* past MaxRuns fall off.
PlacedAt(db, keys, i, k) ==
    /\ i \in Unused(db)
    /\ Cardinality({j \in Unused(db) : j <= i}) = Cardinality({q \in keys : q >= k})

Insert(db, new) ==
    [i \in Run |->
        IF \E k \in DOMAIN new : PlacedAt(db, DOMAIN new, i, k)
        THEN new[CHOOSE k \in DOMAIN new : PlacedAt(db, DOMAIN new, i, k)]
        ELSE db[i]]

SetStatus(db, S, status) ==
    [r \in Run |-> IF r \in S THEN [db[r] EXCEPT !.status = status] ELSE db[r]]

\* (mutants) the claim looks at live turns only; the claim stops one short
ClaimableByTurns(db, live) ==
    {r \in Pending(db) :
        Cardinality(live) + Cardinality({q \in Pending(db) : q <= r}) <= MaxConcurrent}
ClaimableOneShort(db, live) ==
    {r \in Pending(db) :
        Cardinality(Running(db)) + Cardinality({q \in Pending(db) : q <= r}) < MaxConcurrent}

\* pump: the oldest queued rows that claimNextPendingAgentRun starts, one at a
\* time, while both the live turns and the running rows are under the cap.
Claimable(db, live) ==
    {r \in Pending(db) :
        LET ahead == {q \in Pending(db) : q <= r} IN
        /\ Cardinality(live) + Cardinality(ahead) <= MaxConcurrent
        /\ Cardinality(Running(db)) + Cardinality(ahead) <= MaxConcurrent}

-----------------------------------------------------------------------------
(* reconcileNestedCompletions: continue every saved parent conversation    *)
(* whose child conversations are all finished.                             *)

Due(db) ==
    {p \in Heads(db) :
        LET kids == Kids(db, db[p].session) IN
        /\ db[p].status = "completed"
        /\ db[p].submitted \/ db[p].completions = {}
        /\ db[p].depth < MaxDepth
        /\ kids # {}
        /\ \A k \in kids : /\ k \in Finished(db)
                           /\ db[k].session # Nobody =>
                                 db[k].session \notin ActiveParents(db)}

\* continuingSessions: parents are visited newest first, and one whose child
\* conversation was taken earlier in the same pass is left for a later pass.
Continuing(db) ==
    LET taken[p \in Run] ==
            /\ p \in Due(db)
            /\ \A k \in Kids(db, db[p].session) :
                  (k > p /\ k \in Heads(db)) => ~taken[k]
    IN  {p \in Due(db) : taken[p]}

\* continueParentAfterChildren logs a parent that cannot be resumed and goes on;
\* in this pass it is among the continuing sessions all the same.
Reconciled(db, saved, barred) ==
    Insert(db, [p \in {q \in Continuing(db) : ResumeAllowed(db, saved, barred, q)} |->
                   ResumeRow(db, saved, p, Kids(db, db[p].session))])

\* (mutant) a follow-up whose prompt was submitted is retried as well
AutoRetriesEvenSubmitted(db, saved, closed) ==
    {r \in Run :
        /\ db[r].status = "interrupted"
        /\ db[r].resumeOf # Nobody /\ db[r].retryOf = Nobody
        /\ db[r].completions # {}
        /\ RetryAllowed(db, saved, closed, r)}

\* retryInterruptedNestedFollowUps: the follow-ups a restart retries by itself;
\* one whose conversation is closed is refused, logged and left interrupted.
AutoRetries(db, saved, closed) ==
    {r \in Run :
        /\ db[r].status = "interrupted" /\ ~db[r].submitted
        /\ db[r].resumeOf # Nobody /\ db[r].retryOf = Nobody
        /\ db[r].completions # {}
        /\ RetryAllowed(db, saved, closed, r)}

FollowUpsRetried(db, saved, closed) ==
    Insert(db, [r \in AutoRetries(db, saved, closed) |-> RetryRow(db, saved, r)])
=============================================================================
