---------------------------- MODULE MCRunRecords ----------------------------
(***************************************************************************)
(* Three small instances about what State keeps of delegated runs, checked *)
(* in one run: a behaviour is about the ledger's endings, about one run's  *)
(* event log, or about opening a database an older program wrote. The part *)
(* is chosen initially, and the other parts rest in one of their initial   *)
(* states.                                                                 *)
(***************************************************************************)
EXTENDS AgentRuns, RunEventLog, StateMigrations

CONSTANTS r1, r2, r3, r4, nightly, p1, p2

VARIABLE part

Found(end, of) == [status |-> end, retry |-> NoRun, resume |-> of, submitted |-> FALSE]

\* A follow-up of a retry of a failed run, before and after the split of the
\* one relationship column, and with a reference to a row that is gone.
Unsplit == (r1 :> Found("failed", NoRun) @@ r2 :> Found("completed", r1)
            @@ r3 :> Found("failed", r2) @@ r4 :> Found("none", NoRun))
Split == [Unsplit EXCEPT ![r2].retry = r1, ![r2].resume = NoRun]
Dangling == [Unsplit EXCEPT ![r3].resume = "unknown"]

Legacy == [cols |-> {RetiredColumn}, checks |-> "current", rows |-> Unsplit,
           retired |-> {nightly}, linked |-> FALSE, counted |-> {}, allowed |-> {p1}]
Prior == [Legacy EXCEPT
    !.cols = {"effort", "harness_effort", "retry_of_run_id", "last_enriched_at", "bookmark_index"},
    !.checks = "old", !.rows = Split]
Recent == [Prior EXCEPT !.checks = "current", !.retired = {}, !.allowed = {p1, p2}]
Invalid == [Legacy EXCEPT !.rows = Dangling]
Unopened == [Legacy EXCEPT !.allowed = {}]

\* A database before the split is opened by one process at a time here: what
\* two of them do to it is the run of BothOpenLegacy.
Databases == {Legacy, Prior, Recent, Invalid, Unopened}
BothOpenLegacy == {[Legacy EXCEPT !.allowed = {p1, p2}]}

\* What UpgradesPreserve asks of the databases found holds of these.
ASSUME DatabasesAssumption == \A found \in Databases : Upgradable(found)

RecordsInit ==
    /\ part \in {"ledger", "log", "store"}
    /\ Init /\ LogInit /\ StoreInit
    /\ part # "log" => status = "pending" /\ ~follow /\ ~byAgent
    /\ part = "store" <=> allowed # {}

RecordsNext ==
    \/ part = "ledger" /\ Next /\ UNCHANGED <<part, logVars, storeVars>>
    \/ part = "log" /\ LogNext /\ UNCHANGED <<part, vars, storeVars>>
    \/ part = "store" /\ StoreNext /\ UNCHANGED <<part, vars, logVars>>

\* The fairness of the three specifications, each in its part.
RecordsFairness ==
    /\ \A r \in Run :
         /\ WF_vars(part = "ledger" /\ Deadline(r))
         /\ WF_vars(part = "ledger" /\ intent[r] # "none" /\ TurnEnds(r, "failed"))
    /\ WF_vars(part = "ledger" /\ Tick(Orphans)) /\ WF_vars(part = "ledger" /\ Exit)
    /\ WF_logVars(part = "log" /\ OwnerStarts) /\ WF_logVars(part = "log" /\ Recover)
    /\ WF_logVars(part = "log" /\ ClaimRun) /\ WF_logVars(part = "log" /\ FinishRun)
    /\ WF_logVars(part = "log" /\ Discover) /\ WF_logVars(part = "log" /\ GiveUp)
    /\ WF_logVars(part = "log" /\ Connect) /\ WF_logVars(part = "log" /\ ConnectFails)
    /\ WF_logVars(part = "log" /\ Unauthorized) /\ WF_logVars(part = "log" /\ Drain)
    /\ WF_logVars(part = "log" /\ ReadFrame) /\ WF_logVars(part = "log" /\ ReadEnd)
    /\ \A p \in Opener : WF_storeVars(part = "store" /\ OpenerStep(p))

RecordsSpec ==
    RecordsInit /\ [][RecordsNext]_<<part, vars, logVars, storeVars>> /\ RecordsFairness
=============================================================================
