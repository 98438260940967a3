--------------------------- MODULE StateMigrations ---------------------------
(***************************************************************************)
(* Opening State (src/src/state/database.ts, the ThreadDb constructor): a  *)
(* database written by an older program is brought up to date by ten       *)
(* migrations, most of which read the table's columns and then run their   *)
(* statements one autocommitted ALTER at a time.  Several processes may do  *)
(* this at once, because startDaemon opens State before it claims the      *)
(* port (src/src/daemon/runtime.ts), and a process may die between any two *)
(* statements.                                                             *)
(*                                                                         *)
(* A column stands for itself or for the neighbours its migration adds     *)
(* with it; a row of agent_runs is its relationships, its status and one   *)
(* value the current program writes (prompt_submitted).                    *)
(***************************************************************************)
EXTENDS FiniteSets, Integers, SequencesExt

CONSTANTS Opener,      \* the processes that open State
          RunRow,         \* rows of agent_runs
          Schedule,    \* rows of schedules
          NoRun,
          OldStores,   \* the databases found: see StoreRecord
          MaxCrashes   \* bound on processes that die

ASSUME StoreAssumption == /\ NoRun \notin RunRow \cup Opener
                          /\ MaxCrashes \in Nat

VARIABLES cols,      \* the columns present
          checks,    \* "old" or "current": the effort CHECK constraints
          rows,      \* agent_runs
          schedules, \* schedules: does the payload allow a retired tool, and its edits
          linked,    \* have the old Codex threads their link?
          counted,   \* runs with a row in agent_run_event_sequences
          opener,    \* what each process is doing
          port,      \* the process that claimed the port, or NoRun
          allowed,   \* the processes that open this store
          crashes,
          kept,      \* history: what every row of agent_runs should say
          edits,     \* history: the edits the owner made to each schedule
          cut        \* history: a process died between the link column and its UPDATE
storeVars == <<cols, checks, rows, schedules, linked, counted, opener, port, allowed,
               crashes, kept, edits, cut>>

----------------------------------------------------------------------------
Stages == <<"summaries", "efforts", "relations", "checks", "prompt", "receipts",
            "tools", "snooze", "links", "counters">>

(* The columns each stage adds, in the order of its statements. *)
AddedBy(stage) ==
  CASE stage = "summaries" -> <<"last_enriched_at", "bookmark_index">>
    [] stage = "efforts"   -> <<"effort", "harness_effort">>
    [] stage = "prompt"    -> <<"prompt_submitted">>
    [] stage = "receipts"  -> <<"completion_run_ids">>
    [] stage = "snooze"    -> <<"snoozed_until", "snoozed_through_message_at">>
    [] stage = "links"     -> <<"link">>
    [] OTHER               -> <<>>

RunColumns == {"effort", "harness_effort", "retry_of_run_id", "prompt_submitted",
               "completion_run_ids"}
CurrentColumns == RunColumns \cup UNION {ToSet(AddedBy(Stages[i])) : i \in DOMAIN Stages}
RetiredColumn == "next_steps"    \* also state_reason and priority

Failure == {"failed", "interrupted", "lost"}
RowRecord == [status : {"none", "running", "completed", "failed"},
              retry  : RunRow \cup {NoRun, "unknown"},
              resume : RunRow \cup {NoRun, "unknown"},
              submitted : BOOLEAN]
StoreRecord == [cols : SUBSET (CurrentColumns \cup {RetiredColumn}),
                checks : {"old", "current"},
                rows : [RunRow -> RowRecord],
                retired : SUBSET Schedule,
                linked : BOOLEAN,
                counted : SUBSET RunRow,
                allowed : SUBSET Opener]
Down == [at |-> "down", stage |-> 1, seen |-> {}, copy |-> {}]

(* What a relationship of the old column meant: the referenced run's status says. *)
StatusOf(table, r) == IF r \in RunRow THEN table[r].status ELSE "none"
Classified(table, r) ==
  LET of == table[r].resume
  IN  [table[r] EXCEPT !.retry  = IF StatusOf(table, of) \in Failure THEN of ELSE NoRun,
                       !.resume = IF StatusOf(table, of) = "completed" THEN of ELSE NoRun]
Dangles(table, r) ==
  /\ table[r].status # "none" /\ table[r].resume # NoRun
  /\ StatusOf(table, table[r].resume) \notin Failure \cup {"completed"}
Unclassifiable(table) == \E r \in RunRow : Dangles(table, r)

StoreInit ==
  /\ \E store \in OldStores :
       /\ store \in StoreRecord
       /\ cols = store.cols /\ checks = store.checks /\ rows = store.rows
       /\ linked = store.linked /\ counted = store.counted /\ allowed = store.allowed
       /\ schedules = [s \in Schedule |-> [retired |-> s \in store.retired, edit |-> 0]]
       /\ kept = [r \in RunRow |->
                    IF "retry_of_run_id" \in store.cols \/ Dangles(store.rows, r)
                    THEN store.rows[r] ELSE Classified(store.rows, r)]
  /\ opener = [p \in Opener |-> Down]
  /\ port = NoRun /\ crashes = 0 /\ cut = FALSE
  /\ edits = [s \in Schedule |-> 0]

----------------------------------------------------------------------------
(* Steps of one constructor. *)
StageOf(p) == Stages[opener[p].stage]
NextStage(p) == opener' = [opener EXCEPT ![p] =
                   IF opener[p].stage = Len(Stages) THEN [Down EXCEPT !.at = "open"]
                   ELSE [Down EXCEPT !.at = "read", !.stage = opener[p].stage + 1]]
Throw(p) == opener' = [opener EXCEPT ![p] = [Down EXCEPT !.at = "threw"]]
Table == <<cols, checks, rows, schedules, linked, counted>>
Outside == <<port, allowed, crashes, kept, edits, cut>>

OpenDatabase(p) ==
  /\ p \in allowed /\ p # port /\ opener[p].at \in {"down", "threw"}
  /\ opener' = [opener EXCEPT ![p] = [Down EXCEPT !.at = "read"]]
  /\ UNCHANGED <<Table, Outside>>

(* PRAGMA table_info, or the SELECT of the prompt schedules: what the stage decides on. *)
\* (mutant) the columns are added without a look at the table
TodoAlways(stage, seen) == DOMAIN AddedBy(stage)

\* Which of its columns a stage still has to add.
TodoOf(stage, seen) == {i \in DOMAIN AddedBy(stage) : AddedBy(stage)[i] \notin seen}
ReadColumns(p) ==
  /\ opener[p].at = "read"
  /\ LET stage == StageOf(p)
     IN  opener' = [opener EXCEPT
           ![p].seen = cols,
           ![p].at   = "do",
           ![p].copy = IF stage # "tools" THEN {}
                       ELSE {[id |-> s, edit |-> schedules[s].edit] :
                                s \in {x \in Schedule : schedules[x].retired}}]
  /\ UNCHANGED <<Table, Outside>>

(* migrateSessionSummaries: one transaction, decided on columns read before BEGIN. *)
MigrateSessionSummaries(p) ==
  /\ opener[p].at = "do" /\ StageOf(p) = "summaries"
  /\ LET seen == opener[p].seen
         add  == {AddedBy("summaries")[i] : i \in TodoOf("summaries", seen)}
         drop == seen \cap {RetiredColumn}
     IN  IF add \cap cols # {} \/ ~(drop \subseteq cols)
         THEN Throw(p) /\ UNCHANGED Table
         ELSE /\ cols' = (cols \cup add) \ drop
              /\ NextStage(p)
              /\ UNCHANGED <<checks, rows, schedules, linked, counted>>
  /\ UNCHANGED Outside

(* The additive stages: one ALTER TABLE ADD COLUMN that the snapshot lacked. *)
AddColumn(p) ==
  /\ opener[p].at = "do" /\ StageOf(p) \in {"efforts", "prompt", "receipts", "snooze", "links"}
  /\ LET todo == TodoOf(StageOf(p), opener[p].seen)
     IN  \E i \in todo :
           LET column == AddedBy(StageOf(p))[i]
           IN  /\ \A j \in todo : i <= j
               /\ IF column \in cols
                  THEN Throw(p) /\ UNCHANGED cols
                  ELSE /\ cols' = cols \cup {column}
                       /\ IF StageOf(p) = "links"
                          THEN opener' = [opener EXCEPT ![p].at = "update"]
                          ELSE opener' = [opener EXCEPT ![p].seen = @ \cup {column}]
  /\ UNCHANGED <<checks, rows, schedules, linked, counted, Outside>>

ColumnsAreThere(p) ==
  /\ opener[p].at = "do" /\ StageOf(p) \in {"efforts", "prompt", "receipts", "snooze", "links"}
  /\ TodoOf(StageOf(p), opener[p].seen) = {}
  /\ NextStage(p)
  /\ UNCHANGED <<Table, Outside>>

UpdateLinks(p) ==
  /\ opener[p].at = "update"
  /\ linked' = TRUE
  /\ NextStage(p)
  /\ UNCHANGED <<cols, checks, rows, schedules, counted, Outside>>

\* (mutant) a relationship that cannot be classified is dropped
ClassifyWhatItCan(p) ==
  /\ opener[p].at = "do" /\ StageOf(p) = "relations"
  /\ IF "retry_of_run_id" \in opener[p].seen THEN NextStage(p)
     ELSE opener' = [opener EXCEPT ![p].at = "rebuild"]
  /\ UNCHANGED <<Table, Outside>>

(* migrateAgentRunRelationships: classify, then rebuild the table in a transaction. *)
Classify(p) ==
  /\ opener[p].at = "do" /\ StageOf(p) = "relations"
  /\ IF "retry_of_run_id" \in opener[p].seen THEN NextStage(p)
     ELSE IF Unclassifiable(rows) THEN Throw(p)
     ELSE opener' = [opener EXCEPT ![p].at = "rebuild"]
  /\ UNCHANGED <<Table, Outside>>

\* (mutant) the column is taken over without what its values meant
SplitByName(table, r) == [table[r] EXCEPT !.submitted = FALSE]

(* The column list of the copy has no prompt_submitted and no completion_run_ids. *)
SplitRow(table, r) == [Classified(table, r) EXCEPT !.submitted = FALSE]
RebuildRelations(p) ==
  /\ opener[p].at = "rebuild" /\ StageOf(p) = "relations"
  /\ rows' = [r \in RunRow |-> SplitRow(rows, r)]
  /\ cols' = cols \cup RunColumns
  /\ checks' = "current"
  /\ NextStage(p)
  /\ UNCHANGED <<schedules, linked, counted, Outside>>

\* (mutant) a table that has the columns is taken to have their CHECKs
InspectChecksFirst(p) ==
  /\ opener[p].at = "do" /\ StageOf(p) = "checks"
  /\ NextStage(p)
  /\ UNCHANGED <<Table, Outside>>

(* The effort CHECKs: the names to copy are read again before the rebuild. *)
InspectChecks(p) ==
  /\ opener[p].at = "do" /\ StageOf(p) = "checks"
  /\ IF checks = "current" THEN NextStage(p)
     ELSE opener' = [opener EXCEPT ![p].at = "rebuild", ![p].seen = cols]
  /\ UNCHANGED <<Table, Outside>>

Copied(row, names) == [row EXCEPT !.submitted = @ /\ "prompt_submitted" \in names]
RebuildChecks(p) ==
  /\ opener[p].at = "rebuild" /\ StageOf(p) = "checks"
  /\ rows' = [r \in RunRow |-> Copied(rows[r], opener[p].seen)]
  /\ cols' = cols \cup RunColumns
  /\ checks' = "current"
  /\ NextStage(p)
  /\ UNCHANGED <<schedules, linked, counted, Outside>>

(* migrateRetiredScheduleTools: one UPDATE per payload read with a retired tool. *)
UpdateSchedule(p) ==
  /\ opener[p].at = "do" /\ StageOf(p) = "tools"
  /\ \E row \in opener[p].copy :
       /\ schedules' = [schedules EXCEPT ![row.id] = [retired |-> FALSE, edit |-> row.edit]]
       /\ opener' = [opener EXCEPT ![p].copy = @ \ {row}]
  /\ UNCHANGED <<cols, checks, rows, linked, counted, Outside>>
SchedulesAreCurrent(p) ==
  /\ opener[p].at = "do" /\ StageOf(p) = "tools" /\ opener[p].copy = {}
  /\ NextStage(p)
  /\ UNCHANGED <<Table, Outside>>

(* Old logs continue from their highest stored record. *)
CountLogs(p) ==
  /\ opener[p].at = "do" /\ StageOf(p) = "counters"
  /\ counted' = {r \in RunRow : rows[r].status # "none"}
  /\ NextStage(p)
  /\ UNCHANGED <<cols, checks, rows, schedules, linked, Outside>>

----------------------------------------------------------------------------
(* The daemon after State is open, as far as it touches what was migrated. *)
Claim(p) ==
  /\ opener[p].at = "open"
  /\ IF port = NoRun
     THEN port' = p /\ UNCHANGED opener
     ELSE opener' = [opener EXCEPT ![p] = IF p = port THEN @ ELSE Down] /\ UNCHANGED port
  /\ p # port
  /\ UNCHANGED <<Table, allowed, crashes, kept, edits, cut>>

(* A new run, a retry of a failed one or the next turn of a completed one. *)
StartRun(r, of) ==
  /\ port \in Opener /\ rows[r].status = "none"
  /\ rows[of].status \in Failure \cup {"completed"}
  /\ LET row == [status |-> "running", submitted |-> TRUE,
                 retry  |-> IF rows[of].status \in Failure THEN of ELSE NoRun,
                 resume |-> IF rows[of].status = "completed" THEN of ELSE NoRun]
     IN  rows' = [rows EXCEPT ![r] = row] /\ kept' = [kept EXCEPT ![r] = row]
  /\ counted' = counted \cup {r}
  /\ UNCHANGED <<cols, checks, schedules, linked, opener, port, allowed, crashes, edits, cut>>

EditSchedule(s) ==
  /\ port \in Opener /\ schedules[s].edit = 0
  /\ schedules' = [schedules EXCEPT ![s].edit = 1]
  /\ edits' = [edits EXCEPT ![s] = 1]
  /\ UNCHANGED <<cols, checks, rows, linked, counted, opener, port, allowed, crashes, kept, cut>>

OpenerDies(p) ==
  /\ crashes < MaxCrashes /\ opener[p].at # "down"
  /\ opener' = [opener EXCEPT ![p] = Down]
  /\ port' = IF port = p THEN NoRun ELSE port
  /\ cut' = (cut \/ opener[p].at = "update")
  /\ crashes' = crashes + 1
  /\ UNCHANGED <<Table, allowed, kept, edits>>

OpenerStep(p) ==
  \/ OpenDatabase(p) \/ ReadColumns(p) \/ MigrateSessionSummaries(p) \/ AddColumn(p)
  \/ ColumnsAreThere(p) \/ UpdateLinks(p) \/ Classify(p) \/ RebuildRelations(p)
  \/ InspectChecks(p) \/ RebuildChecks(p) \/ UpdateSchedule(p) \/ SchedulesAreCurrent(p)
  \/ CountLogs(p) \/ Claim(p)
StoreNext ==
  \/ \E p \in Opener : OpenerStep(p) \/ OpenerDies(p)
  \/ \E r, of \in RunRow : StartRun(r, of)
  \/ \E s \in Schedule : EditSchedule(s)

StoreFairness == \A p \in Opener : WF_storeVars(OpenerStep(p))
StoreSpec == StoreInit /\ [][StoreNext]_storeVars /\ StoreFairness

----------------------------------------------------------------------------
(* The databases the programs before this one left behind: what has no     *)
(* column yet has no value either, the links came with their column, and a *)
(* database that must still be rebuilt is opened by one process at a time. *)
Upgradable(found) ==
    /\ "retry_of_run_id" \notin found.cols => \A r \in RunRow : found.rows[r].retry = NoRun
    /\ "retry_of_run_id" \notin found.cols \/ "prompt_submitted" \notin found.cols =>
          \A r \in RunRow : ~found.rows[r].submitted
    /\ "link" \in found.cols => found.linked
    /\ \/ \A p, q \in found.allowed : p = q
       \/ "retry_of_run_id" \in found.cols /\ found.checks = "current" /\ found.retired = {}

(* Every run keeps the relationships and the values it had, whatever was   *)
(* rebuilt: before the split the one column still holds them, after it     *)
(* each is in the column its meaning asks for (database.ts:545).           *)
RowsArePreserved ==
  \A r \in RunRow : rows[r].status # "none" =>
    IF "retry_of_run_id" \in cols THEN rows[r] = kept[r]
    ELSE /\ rows[r].retry = NoRun
         /\ rows[r].resume = IF kept[r].retry # NoRun THEN kept[r].retry ELSE kept[r].resume

(* A process that finished opening has every column, the current checks,   *)
(* no retired tool, a counter for every stored log and, unless a process   *)
(* is at or died at that UPDATE, the links of the old Codex threads.       *)
OpenedIsCurrent ==
  (\E p \in Opener : opener[p].at = "open") =>
    /\ CurrentColumns \subseteq cols /\ RetiredColumn \notin cols
    /\ checks = "current"
    /\ \A s \in Schedule : ~schedules[s].retired
    /\ {r \in RunRow : rows[r].status # "none"} \subseteq counted
    /\ linked \/ cut \/ \E p \in Opener : opener[p].at = "update"

(* An upgrade loses nothing, a relationship it cannot classify included,   *)
(* serves no half-migrated database, and overwrites no edit of the owner.  *)
UpgradePreserves ==
  /\ RowsArePreserved
  /\ OpenedIsCurrent
  /\ \A s \in Schedule : schedules[s].edit = edits[s]

(* A store that can be read is opened and served, whoever throws or dies   *)
(* on the way.                                                             *)
StoreOpens == (~Unclassifiable(rows) /\ allowed # {}) ~> (port \in Opener)
=============================================================================
