------------------------------ MODULE AgentRuns ------------------------------
(***************************************************************************)
(* AgentRunExecutor over State: launch, the claim-under-cap queue, the     *)
(* turn deadline, cancel, retry, resume, the automatic continuation of     *)
(* saved parent conversations, the lost sweep, graceful stop, crash and    *)
(* restart.                                                                *)
(*                                                                         *)
(* The daemon is one Node process over synchronous SQLite, so everything   *)
(* between two awaits is one action. What interleaves is the code on       *)
(* either side of an await: requests, a turn's callbacks, its settlement,  *)
(* timers, the stop sequence, a crash.                                     *)
(***************************************************************************)
EXTENDS AgentRunView

\* Bound on crashes, failing writes, removed folders and closed conversations.
CONSTANT MaxFaults

ASSUME FaultsAssumption == MaxFaults \in Nat

VARIABLES
    runs,       \* State: the agent_runs table (durable)
    saved,      \* disk: fresh turns whose ACP session record has been written
    gone,       \* disk: conversations whose working directory was removed
    closed,     \* disk: conversations whose saved record refuses continuation
    daemon,     \* "down", "up" or "stopping"
    live,       \* executor: keys of `active`, the turns of this process
    intent,     \* executor: the AbortIntent of a live turn, or "none"
    faults      \* model: faults so far

vars == <<runs, saved, gone, closed, daemon, live, intent, faults>>
disk == <<saved, gone, closed>>

\* What cannot be resumed: a retry does not ask for the folder.
Barred == gone \cup closed

Intent == {"none", "cancel", "timeout", "stop"}

TypeOK ==
    /\ runs \in [Run -> Row]
    /\ saved \in SUBSET Run
    /\ gone \in SUBSET Run
    /\ closed \in SUBSET Run
    /\ daemon \in {"down", "up", "stopping"}
    /\ live \in SUBSET Run
    /\ intent \in [Run -> Intent]
    /\ faults \in 0..MaxFaults

Init ==
    /\ runs = [r \in Run |-> Blank]
    /\ saved = {}
    /\ gone = {}
    /\ closed = {}
    /\ daemon = "up"
    /\ live = {}
    /\ intent = [r \in Run |-> "none"]
    /\ faults = 0

-----------------------------------------------------------------------------
(* The tails every handler ends with.                                      *)

Fault == faults < MaxFaults /\ faults' = faults + 1
NoFault == UNCHANGED faults

\* pump: a claimed row becomes running and its turn live, in one synchronous
\* step; once stopping, nothing is claimed.
Pumped(db, turns) ==
    LET claimed == IF daemon = "stopping" THEN {} ELSE Claimable(db, turns) IN
    /\ runs' = SetStatus(db, claimed, "running")
    /\ live' = turns \cup claimed

\* reconcileNestedCompletions, then pump. Once stopping, the follow-ups are
\* refused (resumeWithCompletions throws, or the caller skips the pass).
Settled(db, turns) ==
    Pumped(IF daemon = "stopping" THEN db ELSE Reconciled(db, saved, Barred), turns)

-----------------------------------------------------------------------------
(* Requests of the owner, of a parent session or of a delegated child.     *)

\* (mutant) the depth cap is not checked
LaunchAtAnyDepth(parent) ==
    /\ daemon = "up"
    /\ Unused(runs) # {}
    /\ LET row == [Blank EXCEPT !.status = "pending", !.parent = parent,
                                !.depth = DepthUnder(runs, parent)]
       IN  Pumped(Insert(runs, [k \in {Nobody} |-> row]), live)
    /\ UNCHANGED <<disk, daemon, intent>> /\ NoFault

\* launch: `parent` is Nobody or a conversation some run has saved.
Launch(parent) ==
    /\ daemon = "up"
    /\ DepthUnder(runs, parent) <= MaxDepth
    /\ Unused(runs) # {}
    /\ LET row == [Blank EXCEPT !.status = "pending", !.parent = parent,
                                !.depth = DepthUnder(runs, parent)]
       IN  Pumped(Insert(runs, [k \in {Nobody} |-> row]), live)
    /\ UNCHANGED <<disk, daemon, intent>> /\ NoFault

\* cancel of a live turn: abort it, unless something else already did.
CancelLive(r) ==
    /\ daemon # "down"
    /\ r \in live /\ intent[r] = "none"
    /\ intent' = [intent EXCEPT ![r] = "cancel"]
    /\ UNCHANGED <<runs, disk, daemon, live>> /\ NoFault

\* (mutants) any run without a live turn is cancelled; no pass follows
CancelAnyIdle(r) ==
    /\ daemon # "down"
    /\ r \in Exists(runs) \ live
    /\ Settled(SetStatus(runs, {r}, "cancelled"), live)
    /\ UNCHANGED <<disk, daemon, intent>> /\ NoFault
CancelQueuedOnly(r) ==
    /\ daemon # "down"
    /\ r \in Pending(runs) \ live
    /\ Pumped(SetStatus(runs, {r}, "cancelled"), live)
    /\ UNCHANGED <<disk, daemon, intent>> /\ NoFault

\* cancel of a queued run: final at once.
CancelQueued(r) ==
    /\ daemon # "down"
    /\ r \in Pending(runs) \ live
    /\ Settled(SetStatus(runs, {r}, "cancelled"), live)
    /\ UNCHANGED <<disk, daemon, intent>> /\ NoFault

Retry(r) ==
    /\ daemon = "up"
    /\ RetryAllowed(runs, saved, closed, r)
    /\ Unused(runs) # {}
    /\ Pumped(Insert(runs, [k \in {r} |-> RetryRow(runs, saved, r)]), live)
    /\ UNCHANGED <<disk, daemon, intent>> /\ NoFault

\* resume: the new task also carries the completions an unsubmitted turn kept.
Resume(r) ==
    /\ daemon = "up"
    /\ ResumeAllowed(runs, saved, Barred, r)
    /\ Unused(runs) # {}
    /\ Pumped(Insert(runs, [k \in {r} |->
                 ResumeRow(runs, saved, r, Undelivered(runs, r))]), live)
    /\ UNCHANGED <<disk, daemon, intent>> /\ NoFault

-----------------------------------------------------------------------------
(* One turn, between the awaits of execute and of the launcher.            *)

\* ensureSession writes the record of a fresh conversation before the row
\* learns its identity.
SaveRecord(r) ==
    /\ r \in live \ saved
    /\ runs[r].session = Nobody
    /\ saved' = saved \cup {r}
    /\ UNCHANGED <<runs, gone, closed, daemon, live, intent>> /\ NoFault

\* The row names the conversation this turn speaks to: a resumed record keeps
\* its key, a fresh or retried turn uses the run's own.
Identified(db, r) ==
    /\ db[r].session # Nobody
    /\ db[r].resumeOf = Nobody => db[r].record = r

\* The first onActivity: identityOf(handle).
Identify(r) ==
    /\ r \in live
    /\ ~Identified(runs, r)
    /\ runs[r].session = Nobody => r \in saved
    /\ runs' = [runs EXCEPT ![r].session = SessionOf(runs, saved, r),
                            ![r].record = r]
    /\ UNCHANGED <<disk, daemon, live, intent>> /\ NoFault

\* onActivity({promptSubmitted}) once the harness acknowledged the prompt.
Submit(r) ==
    /\ r \in live
    /\ Identified(runs, r)
    /\ ~runs[r].submitted
    /\ runs' = [runs EXCEPT ![r].submitted = TRUE]
    /\ UNCHANGED <<disk, daemon, live, intent>> /\ NoFault

\* (mutant) the timer overrides an earlier abort
DeadlineOverrides(r) ==
    /\ r \in live
    /\ intent' = [intent EXCEPT ![r] = "timeout"]
    /\ UNCHANGED <<runs, disk, daemon, live>> /\ NoFault

\* The executor's own timer aborts the turn.
Deadline(r) ==
    /\ r \in live /\ intent[r] = "none"
    /\ intent' = [intent EXCEPT ![r] = "timeout"]
    /\ UNCHANGED <<runs, disk, daemon, live>> /\ NoFault

\* statusForIntent: an abort intent wins over what the launcher reports.
Outcome(i, reported) ==
    CASE i = "cancel"  -> "cancelled"
      [] i = "timeout" -> "failed"
      [] i = "stop"    -> "interrupted"
      [] i = "none"    -> reported

\* (mutant) only a completed child makes a pass over the parents
TurnEndsPassOnSuccess(r, reported) ==
    /\ r \in live
    /\ reported = "completed" => Identified(runs, r)
    /\ LET db == SetStatus(runs, {r}, Outcome(intent[r], reported))
       IN  IF db[r].status = "completed" THEN Settled(db, live \ {r})
                                         ELSE Pumped(db, live \ {r})
    /\ intent' = [intent EXCEPT ![r] = "none"]
    /\ UNCHANGED <<disk, daemon>> /\ NoFault

\* The launcher settles: finish, leave the active set, reconcile, pump.
TurnEnds(r, reported) ==
    /\ r \in live
    /\ reported = "completed" => Identified(runs, r)
    /\ Settled(SetStatus(runs, {r}, Outcome(intent[r], reported)), live \ {r})
    /\ intent' = [intent EXCEPT ![r] = "none"]
    /\ UNCHANGED <<disk, daemon>> /\ NoFault

\* Both writes of the outcome fail: the turn is over, the row still running.
FinishThrows(r) ==
    /\ r \in live
    /\ Settled(runs, live \ {r})
    /\ intent' = [intent EXCEPT ![r] = "none"]
    /\ UNCHANGED <<disk, daemon>> /\ Fault

-----------------------------------------------------------------------------
(* The interval timer: lost sweep, then pump.                              *)

\* (mutant) live turns are not excluded from the sweep
EveryRunningRow == Running(runs)

Orphans == Running(runs) \ live

\* `stale`: the orphans whose grace window has passed. Only a sweep that lost
\* something reconciles.
Tick(stale) ==
    /\ daemon = "up"
    /\ stale \subseteq Orphans
    /\ IF stale = {} THEN Pumped(runs, live)
                     ELSE Settled(SetStatus(runs, stale, "lost"), live)
    /\ UNCHANGED <<disk, daemon, intent>> /\ NoFault

\* One write of the sweep fails: the rows before it stay lost and the tick
\* ends there, with neither a reconcile nor a pump.
SweepThrows(stale, bad) ==
    /\ daemon = "up"
    /\ stale \subseteq Orphans /\ bad \in stale
    /\ runs' = SetStatus(runs, {r \in stale : r < bad}, "lost")
    /\ UNCHANGED <<disk, daemon, live, intent>> /\ Fault

-----------------------------------------------------------------------------
(* The process and its surroundings.                                       *)

RemoveCwd(s) ==
    /\ s \notin gone
    /\ Conversation(runs, s) # {}
    /\ gone' = gone \cup {s}
    /\ UNCHANGED <<runs, saved, closed, daemon, live, intent>> /\ Fault

\* The record of a saved conversation does not show, or no longer shows, that
\* it can be continued: an OpenCode child whose agent advertised neither
\* session/load nor session/resume, or a record damaged or lost.
CloseConversation(s) ==
    /\ s \in saved \ closed
    /\ closed' = closed \cup {s}
    /\ UNCHANGED <<runs, saved, gone, daemon, live, intent>> /\ Fault

\* stop: no new work, every live turn aborted.
Stop ==
    /\ daemon = "up"
    /\ daemon' = "stopping"
    /\ intent' = [r \in Run |->
                    IF r \in live /\ intent[r] = "none" THEN "stop" ELSE intent[r]]
    /\ UNCHANGED <<runs, disk, live>> /\ NoFault

\* (mutant) stop waits for running rows instead of live turns
ExitWhenNoRow ==
    /\ daemon = "stopping"
    /\ Running(runs) = {}
    /\ daemon' = "down"
    /\ UNCHANGED <<runs, disk, live, intent>> /\ NoFault

\* `await this.draining` returns, and State closes.
Exit ==
    /\ daemon = "stopping"
    /\ live = {}
    /\ daemon' = "down"
    /\ UNCHANGED <<runs, disk, live, intent>> /\ NoFault

Crash ==
    /\ daemon # "down"
    /\ daemon' = "down"
    /\ live' = {}
    /\ intent' = [r \in Run |-> "none"]
    /\ UNCHANGED <<runs, disk>> /\ Fault

\* (mutant) the restart pumps the queue without a pass over the parents
StartWithoutPass ==
    /\ daemon = "down"
    /\ daemon' = "up"
    /\ LET interrupted == SetStatus(runs, Running(runs), "interrupted")
       IN  Pumped(FollowUpsRetried(interrupted, saved, closed), live)
    /\ UNCHANGED <<disk, intent>> /\ NoFault

\* start: rows a crash left running are interrupted, follow-ups that never
\* reached their conversation are retried, parents reconciled, queue pumped.
Start ==
    /\ daemon = "down"
    /\ daemon' = "up"
    /\ LET interrupted == SetStatus(runs, Running(runs), "interrupted")
       IN  Settled(FollowUpsRetried(interrupted, saved, closed), live)
    /\ UNCHANGED <<disk, intent>> /\ NoFault

-----------------------------------------------------------------------------
Requests ==
    \/ \E parent \in {Nobody} \cup {runs[r].session : r \in Exists(runs)} : Launch(parent)
    \/ \E r \in Run : CancelLive(r) \/ CancelQueued(r) \/ Retry(r) \/ Resume(r)

Turns ==
    \E r \in Run :
        \/ SaveRecord(r) \/ Identify(r) \/ Submit(r) \/ Deadline(r) \/ FinishThrows(r)
        \/ \E reported \in {"completed", "failed", "cancelled"} : TurnEnds(r, reported)

Timer ==
    \E stale \in SUBSET Orphans :
        Tick(stale) \/ \E bad \in stale : SweepThrows(stale, bad)

Process == Stop \/ Exit \/ Crash \/ Start \/ \E s \in Run : RemoveCwd(s) \/ CloseConversation(s)

Next == Requests \/ Turns \/ Timer \/ Process

Spec == Init /\ [][Next]_vars

\* What the daemon schedules by itself: the deadline timer fires, an aborted
\* turn settles, the interval timer runs until every orphan is past its grace
\* window, and stop returns once the last turn has settled. Nothing makes a
\* healthy turn finish, an owner ask, or a stopped daemon start again.
Fairness ==
    /\ \A r \in Run :
         /\ WF_vars(Deadline(r))
         /\ WF_vars(intent[r] # "none" /\ TurnEnds(r, "failed"))
    /\ WF_vars(Tick(Orphans))
    /\ WF_vars(Exit)

FairSpec == Spec /\ Fairness
-----------------------------------------------------------------------------
(* Safety.                                                                 *)

\* However turns settle, fail to settle or are swept, the ledger never shows
\* more running turns than the cap (the claim is one transaction).
RunningWithinCap == Cardinality(Running(runs)) <= MaxConcurrent

\* A live turn is never reclaimed: while this process holds a turn, no sweep,
\* cancel or recovery has made its row anything but running.
LiveTurnIsRunning == live \subseteq Running(runs)

\* Two turns never speak to one saved conversation at the same time, whether
\* the row names the conversation or only the record on disk does.
OneTurnPerConversation ==
    \A q, r \in Nonterminal(runs) :
        q # r => \/ SessionOf(runs, saved, q) = Nobody
                 \/ SessionOf(runs, saved, q) # SessionOf(runs, saved, r)

\* An already retried or resumed run cannot be branched, and every run of a
\* conversation but the newest is continued inside that conversation.
ConversationIsLinear ==
    \A r \in Exists(runs) :
        /\ \A p, q \in Successors(runs, r) : p = q
        /\ runs[r].session # Nobody /\ r \notin Heads(runs) =>
              \E q \in Successors(runs, r) : runs[q].session = runs[r].session

\* agentRunTurnIntent accepts every row up to the moment its turn identifies
\* itself: no queued or starting follow-up can be refused for an identity or a
\* predecessor that changed after it was queued.
TurnIntentHolds ==
    \A r \in Nonterminal(runs) :
        runs[r].record # r => TurnIntentAccepts(runs, r)

\* A retry speaks to the conversation its predecessor saved, also when the
\* crash or failure came before the row learnt that identity.
RetryKeepsConversation ==
    \A q \in Exists(runs) : \A p \in Run :
        runs[q].retryOf = p =>
            IF runs[p].session # Nobody THEN runs[q].session = runs[p].session
            ELSE p \in saved => runs[q].session = p

\* What the list of one parent's runs offers to retry or resume is exactly what
\* the executor, which judges by the whole ledger, would accept: no turn or
\* successor that matters is in another parent's list.
OffersAreHonoured ==
    \A r \in Exists(runs) :
        runs[r].parent # Nobody /\ runs[r].status \in Retryable \cup Resumable =>
            LET list == Listed(runs, runs[r].parent) IN
            /\ canRetry(runs, saved, closed, list, r) <=> RetryAllowed(runs, saved, closed, r)
            /\ canResume(runs, saved, Barred, list, r) <=> ResumeAllowed(runs, saved, Barred, r)

\* What a turn was to tell its conversation and never submitted is handed to
\* the run that continues it: evidence of finished children is not lost.
EvidenceCarried ==
    \A q \in Exists(runs) : \A p \in Run :
        p \in {runs[q].retryOf, runs[q].resumeOf} =>
            Undelivered(runs, p) \subseteq runs[q].completions

\* A child's completion reaches its parent conversation in two submitted
\* prompts only when a submitted prompt was itself retried in between.
NoDuplicateDelivery ==
    \A r \in Exists(runs) : \A q \in Conversation(runs, runs[r].session) :
        (q < r /\ runs[r].session # Nobody /\ runs[q].submitted /\ runs[r].submitted) =>
            \A c \in runs[q].completions \cap runs[r].completions :
                \E x \in Conversation(runs, runs[r].session) :
                    /\ q < x /\ x <= r /\ c \in runs[x].completions
                    /\ runs[x].retryOf # Nobody /\ runs[runs[x].retryOf].submitted

\* A due parent that a pass leaves as it is: it cannot be resumed (its folder is
\* gone, or its record refuses continuation), or a child it waits for cannot be
\* and has children of its own: a pass that finds the child due takes it, is
\* refused, and leaves the parent for a later pass.
PassedOver(p) ==
    \/ runs[p].session \in Barred
    \/ \E k \in Kids(runs, runs[p].session) \cap Delegators(runs) : runs[k].session \in Barred

\* Whenever every child conversation of a completed parent is finished, the
\* parent has been resumed or is passed over for a reason on disk: no order of
\* settlements, cancels, sweeps and restarts leaves it waiting for a pass that
\* never comes. Excused: a sweep about to be repeated and a full table.
FollowUpNotMissed ==
    (daemon = "up" /\ Orphans = {} /\ Unused(runs) # {}) =>
        \A p \in Due(runs) : PassedOver(p)

\* The ledger's running rows are this process's turns, within both caps: the
\* types (a row's depth above all), the concurrency cap and the live turns.
LedgerMatchesTurns == TypeOK /\ RunningWithinCap /\ LiveTurnIsRunning

\* A saved conversation is spoken to by one turn at a time, is never branched,
\* every queued turn still finds in it what it was queued against, and what a
\* view offers to do with it is what may be done. The completions of finished
\* children are carried along it until they are submitted, and submitted once.
ConversationsAreSound ==
    /\ OneTurnPerConversation /\ ConversationIsLinear
    /\ TurnIntentHolds /\ RetryKeepsConversation /\ OffersAreHonoured
    /\ EvidenceCarried /\ NoDuplicateDelivery

-----------------------------------------------------------------------------
(* Action properties.                                                      *)

\* Terminal states are monotonic: nothing, a late callback included, changes
\* any column of a terminal row.
TerminalIsFinal == [][\A r \in Finished(runs) : runs'[r] = runs[r]]_vars

\* An owner's cancellation never restarts by itself: a row that continues a
\* cancelled run comes from a resume, alone, in a daemon that was already up.
CancelledStaysCancelled ==
    [][\A q \in Exists(runs') \ Exists(runs) : \A p \in Run :
          p \in {runs'[q].retryOf, runs'[q].resumeOf} /\ runs[p].status = "cancelled" =>
              /\ daemon = "up" /\ runs'[q].retryOf = Nobody
              /\ Exists(runs') = Exists(runs) \cup {q}
              /\ Finished(runs') = Finished(runs)]_vars

\* A restart gives an interrupted follow-up that never reached its
\* conversation one automatic retry, and retries nothing else: after it, no
\* such follow-up is left behind (unless its conversation is closed or the
\* table full).
RestartRetriesFollowUpsOnce ==
    [][daemon = "down" /\ daemon' = "up" =>
        LET owed(db, r) == /\ db[r].status = "interrupted" /\ ~db[r].submitted
                           /\ db[r].resumeOf # Nobody /\ db[r].completions # {}
        IN  /\ \A q \in Exists(runs') \ Exists(runs) :
                 runs'[q].retryOf # Nobody => owed(runs', runs'[q].retryOf)
            /\ Unused(runs') # {} =>
                 \A r \in Run :
                    owed(runs', r) /\ runs'[r].session \notin closed =>
                        Successors(runs', r) # {}]_vars

\* What the ledger says of a run's end stands: terminal rows never change, a
\* cancellation never restarts by itself, and a restart retries exactly the
\* follow-ups that were interrupted before they were submitted.
EndsAreFinal ==
    TerminalIsFinal /\ CancelledStaysCancelled /\ RestartRetriesFollowUpsOnce

-----------------------------------------------------------------------------
(* Liveness.                                                               *)

\* In a daemon that stays up every queued or running run ends: deadlines free
\* the slots, the sweep frees the rows whose outcome was never written.
EveryRunEnds ==
    <>[](daemon = "up") =>
        \A r \in Run : r \in Nonterminal(runs) ~> r \in Finished(runs)

\* An abort is never reported as success, and a cancel is never overtaken by
\* the deadline: an aborted run does not complete, a cancelled one does not fail.
AbortWins ==
    \A r \in Run :
        /\ [](intent[r] # "none" => [](runs[r].status # "completed"))
        /\ [](intent[r] = "cancel" => [](runs[r].status # "failed"))

\* A graceful stop drains, rows whose outcome was never written included.
StopDrains == daemon = "stopping" ~> daemon = "down"

\* Every run ends while the daemon is up, and the daemon's stop ends it.
RunsEnd == EveryRunEnds /\ StopDrains
=============================================================================
