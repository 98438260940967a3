------------------------------ MODULE Scheduler ------------------------------
(***************************************************************************)
(* The daemon's scheduler over State: schedules, timer claims, manual runs,*)
(* needs-you runs, the one execution queue, stop, crash and restart.       *)
(*                                                                         *)
(* tick and flushNeedsYou are loops that claim one schedule, await its     *)
(* execution and go on with a list read before the await, so several of    *)
(* them are in flight at once, each waiting for the row it queued.         *)
(*                                                                         *)
(* Promise callbacks run before the next timer or request: when a queued   *)
(* execution settles, its loop goes on in the same step (Proceed), and the *)
(* next queued execution begins before anything else happens (Idle).       *)
(***************************************************************************)
EXTENDS Integers, Sequences, FiniteSets, SequencesExt

CONSTANTS
    OneShot, Recurring, Attention,  \* schedules by trigger: at; every or cron; needs-you
    Thread,
    MaxRows,        \* bound on schedule_runs rows (model bound)
    MaxMessages,    \* bound on messages of a thread (model bound)
    MaxEdits,       \* bound on creates, updates and deletes (model bound)
    MaxFaults       \* bound on crashes and failing writes (model bound)

Schedule == OneShot \cup Recurring \cup Attention

ASSUME SchedulerAssumption ==
    /\ Schedule # {} /\ IsFiniteSet(Schedule)
    /\ OneShot \cap Recurring = {} /\ OneShot \cap Attention = {}
    /\ Recurring \cap Attention = {}
    /\ MaxRows \in Nat \ {0}
    /\ MaxMessages \in Nat /\ MaxEdits \in Nat /\ MaxFaults \in Nat

VARIABLES
    schedules,  \* State: the schedules table
    rows,       \* State: the schedule_runs table
    watermark,  \* State: schedule_event_watermarks
    threads,    \* State: last message of a thread, and whether it is offered:
                \*   needs-you with neither an active child nor a snooze
    daemon,     \* "down", "up" or "stopping"
    queue,      \* executionQueue: rows in execution order, the first is next or at work
    working,    \* the first of `queue` has begun its external work
    running,    \* the `running` set of schedule ids
    loops,      \* the loop that awaits the execution of a row
    pending,    \* pendingNeedsYou: message version by thread, 0 for none
    flushing,   \* eventFlush is armed
    edits, faults

durable == <<schedules, rows, watermark>>
memory  == <<queue, working, running, loops>>
inbox   == <<pending, flushing>>
counts  == <<edits, faults>>
vars    == <<durable, threads, daemon, memory, inbox, counts>>

Row     == 1..MaxRows
Version == 0..MaxMessages
Change  == [thread : Thread, version : Version]
Snap    == [id : Schedule, revision : Nat]

\* A loop in flight: what it has still to visit and, for a flush, its changes.
Loop   == [kind : {"none", "tick", "flush"}, rest : Seq(Snap), changes : SUBSET Change]
NoLoop == [kind |-> "none", rest |-> <<>>, changes |-> {}]

RowRecord == [status   : {"absent", "running", "completed", "failed", "interrupted"},
              id       : Schedule,
              trigger  : {"scheduled", "manual", "needs-you"},
              revision : Nat,                \* of the schedule it was claimed from
              context  : SUBSET Change]

TypeOK ==
    /\ schedules \in [Schedule -> [saved : {"absent", "saved", "deleted"},
                                   enabled : BOOLEAN, revision : Nat,
                                   next : {"none", "future", "due"}]]
    /\ rows \in [Row -> RowRecord]
    /\ watermark \in [Schedule -> [Thread -> Version]]
    /\ threads \in [Thread -> [version : Version, offered : BOOLEAN]]
    /\ daemon \in {"down", "up", "stopping"}
    /\ queue \in Seq(Row)
    /\ working \in BOOLEAN
    /\ running \in SUBSET Schedule
    /\ loops \in [Row -> Loop]
    /\ pending \in [Thread -> Version]
    /\ flushing \in BOOLEAN
    /\ edits \in 0..MaxEdits
    /\ faults \in 0..MaxFaults

Unwritten == [status |-> "absent", id |-> CHOOSE s \in Schedule : TRUE,
              trigger |-> "manual", revision |-> 0, context |-> {}]
Nothing == [t \in Thread |-> 0]

Init ==
    /\ schedules = [s \in Schedule |-> [saved |-> "absent", enabled |-> FALSE,
                                        revision |-> 0, next |-> "none"]]
    /\ rows = [r \in Row |-> Unwritten]
    /\ watermark = [s \in Schedule |-> Nothing]
    /\ threads = [t \in Thread |-> [version |-> 0, offered |-> FALSE]]
    /\ daemon = "up"
    /\ queue = <<>> /\ working = FALSE /\ running = {}
    /\ loops = [r \in Row |-> NoLoop]
    /\ pending = Nothing /\ flushing = FALSE
    /\ edits = 0 /\ faults = 0

-----------------------------------------------------------------------------
(* Rows, and the claim of one schedule by a loop.                          *)

Unused(db) == {r \in Row : \A q \in r..MaxRows : db[q].status = "absent"}
NewRow(db) == CHOOSE r \in Unused(db) : \A q \in Unused(db) : r <= q
Running(db) == {r \in Row : db[r].status = "running"}
Queued == {queue[i] : i \in DOMAIN queue}

\* Every promise callback has run.
Idle == queue = <<>> \/ working

Edit  == edits < MaxEdits /\ edits' = edits + 1 /\ UNCHANGED faults
Fault == faults < MaxFaults /\ faults' = faults + 1 /\ UNCHANGED edits

\* (mutant) the claim does not compare revisions
TimerClaimsIgnoringRevision(s, busy) ==
    /\ s.id \notin busy
    /\ schedules[s.id].saved = "saved" /\ schedules[s.id].enabled

\* tick: not running here, and claimScheduledRun still finds the row as read.
TimerClaims(s, busy) ==
    /\ s.id \notin busy
    /\ schedules[s.id].saved = "saved" /\ schedules[s.id].enabled
    /\ schedules[s.id].revision = s.revision

\* (mutant) the watermark is not consulted
FreshWithoutWatermark(s, changes) ==
    {c \in changes : /\ threads[c.thread].offered
                     /\ threads[c.thread].version = c.version}

\* claimNeedsYouScheduleRun: the changes still true and not handled by s.
Fresh(s, changes) ==
    {c \in changes : /\ threads[c.thread].offered
                     /\ threads[c.thread].version = c.version
                     /\ watermark[s][c.thread] # c.version}

Claims(loop, s, busy) ==
    IF loop.kind = "tick" THEN TimerClaims(s, busy) ELSE Fresh(s.id, loop.changes) # {}

\* (mutant) the row is created in a status of its own
EntryPending(s, trigger, revision, context) ==
    [status |-> "pending", id |-> s, trigger |-> trigger,
     revision |-> revision, context |-> context]

Entry(s, trigger, revision, context) ==
    [status |-> "running", id |-> s, trigger |-> trigger,
     revision |-> revision, context |-> context]

\* A timer claim advances the schedule: a one-shot is spent.
Advanced(s) ==
    [schedules EXCEPT ![s] =
        [saved |-> @.saved, enabled |-> s \notin OneShot, revision |-> @.revision + 1,
         next |-> IF s \in OneShot THEN "none" ELSE "future"]]

\* What a needs-you claim writes with its row: s has handled these changes.
Handled(s, changes) ==
    [watermark EXCEPT ![s] =
        [t \in Thread |-> IF \E c \in changes : c.thread = t
                          THEN threads[t].version ELSE @[t]]]

\* A loop goes on to the next schedule it can claim, with `db`, `order` and
\* `waiting` the rows, queue and loops so far. Once stopping the claim is
\* still committed, and enqueue refuses the execution and ends the loop.
Proceed(loop, busy, db, order, waiting) ==
    LET able == {i \in DOMAIN loop.rest : Claims(loop, loop.rest[i], busy)}
        i == CHOOSE j \in able : \A k \in able : j <= k
        s == loop.rest[i].id
        fresh == Fresh(s, loop.changes)
        new == NewRow(db)
        later == [loop EXCEPT !.rest = SubSeq(loop.rest, i + 1, Len(loop.rest))]
    IN  IF able = {} \/ Unused(db) = {}
        THEN /\ rows' = db /\ queue' = order /\ loops' = waiting
             /\ UNCHANGED <<schedules, watermark>>
        ELSE /\ IF loop.kind = "tick"
                THEN /\ rows' = [db EXCEPT ![new] =
                                   Entry(s, "scheduled", loop.rest[i].revision, {})]
                     /\ schedules' = Advanced(s)
                     /\ UNCHANGED watermark
                ELSE /\ rows' = [db EXCEPT ![new] =
                                   Entry(s, "needs-you", loop.rest[i].revision, fresh)]
                     /\ watermark' = Handled(s, fresh)
                     /\ UNCHANGED schedules
             /\ IF daemon = "stopping"
                THEN queue' = order /\ loops' = waiting
                ELSE /\ queue' = Append(order, new)
                     /\ loops' = [waiting EXCEPT ![new] = later]

Snapshots(S) == {[id |-> s, revision |-> schedules[s].revision] : s \in S}

-----------------------------------------------------------------------------
(* Schedules: requests of the owner, and time.                             *)

\* initialNextRunAt: a one-shot may lie in the past, a period never does.
InitialNext(s, enabled) ==
    CASE ~enabled \/ s \in Attention -> {"none"}
      [] enabled /\ s \in OneShot    -> {"future", "due"}
      [] enabled /\ s \in Recurring  -> {"future"}

CreateSchedule(s) ==
    /\ daemon # "down" /\ Idle /\ Edit
    /\ schedules[s].saved = "absent"
    /\ \E enabled \in BOOLEAN : \E next \in InitialNext(s, enabled) :
          schedules' = [schedules EXCEPT ![s] =
              [saved |-> "saved", enabled |-> enabled, revision |-> 1, next |-> next]]
    /\ UNCHANGED <<rows, watermark, threads, daemon, memory, inbox>>

UpdateSchedule(s) ==
    /\ daemon # "down" /\ Idle /\ Edit
    /\ schedules[s].saved = "saved"
    /\ \E enabled \in BOOLEAN : \E next \in InitialNext(s, enabled) :
          schedules' = [schedules EXCEPT ![s] =
              [saved |-> "saved", enabled |-> enabled, revision |-> @.revision + 1,
               next |-> next]]
    /\ UNCHANGED <<rows, watermark, threads, daemon, memory, inbox>>

DeleteSchedule(s) ==
    /\ daemon # "down" /\ Idle /\ Edit
    /\ schedules[s].saved = "saved"
    /\ schedules' = [schedules EXCEPT ![s].saved = "deleted", ![s].enabled = FALSE]
    /\ UNCHANGED <<rows, watermark, threads, daemon, memory, inbox>>

\* next_run_at passes.
Elapse(s) ==
    /\ schedules[s].next = "future" /\ Idle
    /\ schedules' = [schedules EXCEPT ![s].next = "due"]
    /\ UNCHANGED <<rows, watermark, threads, daemon, memory, inbox, counts>>

\* (mutant) a schedule that is already running is not refused
RunNowAnyTime(s) ==
    /\ daemon = "up" /\ Idle
    /\ schedules[s].saved = "saved" /\ Unused(rows) # {}
    /\ LET new == NewRow(rows) IN
       /\ rows' = [rows EXCEPT ![new] =
                     Entry(s, "manual", schedules[s].revision, {})]
       /\ queue' = Append(queue, new)
    /\ running' = running \cup {s}
    /\ UNCHANGED <<schedules, watermark, threads, daemon, working, loops, inbox, counts>>

\* runNow holds the schedule from the request on, not from its execution.
RunNow(s) ==
    /\ daemon = "up" /\ Idle
    /\ schedules[s].saved = "saved" /\ s \notin running /\ Unused(rows) # {}
    /\ LET new == NewRow(rows) IN
       /\ rows' = [rows EXCEPT ![new] =
                     Entry(s, "manual", schedules[s].revision, {})]
       /\ queue' = Append(queue, new)
    /\ running' = running \cup {s}
    /\ UNCHANGED <<schedules, watermark, threads, daemon, working, loops, inbox, counts>>
-----------------------------------------------------------------------------
(* Threads: what the monitor, enrichment, snoozes and delegated runs do to *)
(* the needs-you projection, and the events that tell the scheduler.       *)

Offered == [t \in Thread |-> IF threads[t].offered THEN threads[t].version ELSE 0]

\* A message, judged needs-you or not. A thread that is held back (by an
\* active child or a snooze) is announced although it is not offered.
Message(t) ==
    /\ daemon # "down" /\ Idle
    /\ threads[t].version < MaxMessages
    /\ \E offered, announced \in BOOLEAN :
        /\ offered => announced
        /\ threads' = [threads EXCEPT ![t] = [version |-> @.version + 1,
                                              offered |-> offered]]
        /\ IF announced /\ daemon = "up"
           THEN /\ pending' = [pending EXCEPT ![t] = threads[t].version + 1]
                /\ flushing' = TRUE
           ELSE UNCHANGED inbox
    /\ UNCHANGED <<durable, daemon, memory, counts>>

\* A handoff is withheld or given back: by an agent-run transition, which
\* reconciles the inputs, or without an event (a snooze set or run out).
Reoffer(t) ==
    /\ daemon # "down" /\ Idle
    /\ threads[t].version > 0
    /\ threads' = [threads EXCEPT ![t].offered = ~@]
    /\ \/ UNCHANGED inbox
       \/ /\ daemon = "up" /\ flushing' = TRUE
          /\ pending' = [u \in Thread |->
                IF threads'[u].offered THEN threads[u].version ELSE 0]
    /\ UNCHANGED <<durable, daemon, memory, counts>>

-----------------------------------------------------------------------------
(* The loops.                                                              *)

Due == {s \in Schedule : /\ schedules[s].saved = "saved" /\ schedules[s].enabled
                         /\ schedules[s].next = "due"}

\* reconcileNeedsYouInputs, then the claims, in the order of their due times.
TickFrom(db) ==
    /\ pending' = Offered /\ flushing' = TRUE
    /\ \E order \in SetToSeqs(Snapshots(Due)) :
          Proceed([kind |-> "tick", rest |-> order, changes |-> {}],
                  running, db, queue, loops)

\* (mutant) the tick does not offer needs-you rows again
TickWithoutReconcile ==
    /\ daemon = "up" /\ Idle
    /\ \E order \in SetToSeqs(Snapshots(Due)) :
          Proceed([kind |-> "tick", rest |-> order, changes |-> {}],
                  running, rows, queue, loops)
    /\ UNCHANGED <<threads, daemon, working, running, inbox, counts>>

Tick ==
    /\ daemon = "up" /\ Idle
    /\ TickFrom(rows)
    /\ UNCHANGED <<threads, daemon, working, running, counts>>

\* flushNeedsYou, over the schedules enabled when it starts (in name order,
\* and names can be edited).
FlushNeedsYou ==
    /\ daemon = "up" /\ Idle /\ flushing
    /\ flushing' = FALSE /\ pending' = Nothing
    /\ LET changes == {c \in Change : c.version # 0 /\ pending[c.thread] = c.version}
           enabled == {s \in Attention : schedules[s].saved = "saved" /\ schedules[s].enabled}
       IN  \E order \in SetToSeqs(Snapshots(enabled)) :
              Proceed([kind |-> "flush", rest |-> order, changes |-> changes],
                      running, rows, queue, loops)
    /\ UNCHANGED <<threads, daemon, working, running, counts>>

-----------------------------------------------------------------------------
(* execute, for the first row of the queue.                                *)

Preclaimed(r) == rows[r].trigger = "manual"

\* (mutant) manual runs are refused like timer runs
RefusedWithManual == rows[Head(queue)].id \in running

\* execute throws "already running" before its try block.
Refused == ~Preclaimed(Head(queue)) /\ rows[Head(queue)].id \in running

\* The row stays `running`; the loop that awaits it ends with the error.
BeginRefused ==
    /\ queue # <<>> /\ ~working /\ Refused
    /\ queue' = Tail(queue)
    /\ loops' = [loops EXCEPT ![Head(queue)] = NoLoop]
    /\ UNCHANGED <<durable, threads, daemon, working, running, inbox, counts>>

BeginWork ==
    /\ queue # <<>> /\ ~working /\ ~Refused /\ daemon = "up"
    /\ working' = TRUE
    /\ running' = running \cup {rows[Head(queue)].id}
    /\ UNCHANGED <<durable, threads, daemon, queue, loops, inbox, counts>>

\* finishScheduleRun
Recorded(r, status) == [rows EXCEPT ![r].status = status]

\* The row is finished, the schedule released, and its loop goes on.
Settled(status) ==
    LET r == Head(queue) IN
    /\ running' = running \ {rows[r].id}
    /\ working' = FALSE
    /\ Proceed(loops[r], running', Recorded(r, status),
               Tail(queue), [loops EXCEPT ![r] = NoLoop])
    /\ UNCHANGED <<threads, daemon, inbox, counts>>

\* (mutant) only manual runs are interrupted before they begin
BeginStoppedManualOnly ==
    /\ queue # <<>> /\ ~working /\ Preclaimed(Head(queue)) /\ daemon = "stopping"
    /\ Settled("interrupted")

BeginStopped ==
    /\ queue # <<>> /\ ~working /\ ~Refused /\ daemon = "stopping"
    /\ Settled("interrupted")

\* (mutant) the schedule is not released
WorkEndsHolding(reported) ==
    /\ queue # <<>> /\ working
    /\ LET r == Head(queue) IN
       /\ working' = FALSE
       /\ Proceed(loops[r], running,
                  Recorded(r, IF daemon = "stopping" THEN "interrupted" ELSE reported),
                  Tail(queue), [loops EXCEPT ![r] = NoLoop])
    /\ UNCHANGED <<running, threads, daemon, inbox, counts>>

\* Completed, failed or timed out; anything that ends after stop is interrupted.
WorkEnds(reported) ==
    /\ queue # <<>> /\ working
    /\ Settled(IF daemon = "stopping" THEN "interrupted" ELSE reported)

\* Both writes of the outcome fail; the loop ends with the error.
FinishThrows ==
    /\ queue # <<>> /\ (working \/ (daemon = "stopping" /\ ~Refused)) /\ Fault
    /\ running' = running \ {rows[Head(queue)].id}
    /\ working' = FALSE
    /\ queue' = Tail(queue)
    /\ loops' = [loops EXCEPT ![Head(queue)] = NoLoop]
    /\ UNCHANGED <<durable, threads, daemon, inbox>>

-----------------------------------------------------------------------------
(* The process.                                                            *)

Stop ==
    /\ daemon = "up" /\ Idle
    /\ daemon' = "stopping"
    /\ flushing' = FALSE
    /\ UNCHANGED <<durable, threads, memory, pending, counts>>

Forgotten ==
    /\ queue' = <<>> /\ working' = FALSE /\ running' = {}
    /\ loops' = [r \in Row |-> NoLoop]
    /\ pending' = Nothing /\ flushing' = FALSE

\* `await this.executionQueue` returns.
Exit ==
    /\ daemon = "stopping" /\ queue = <<>>
    /\ daemon' = "down" /\ Forgotten
    /\ UNCHANGED <<durable, threads, counts>>

Crash ==
    /\ daemon # "down" /\ Fault
    /\ daemon' = "down" /\ Forgotten
    /\ UNCHANGED <<durable, threads>>

\* start: interrupt what a crash left running, then a first tick.
Start ==
    /\ daemon = "down" /\ daemon' = "up"
    /\ TickFrom([r \in Row |-> IF r \in Running(rows)
                               THEN [rows[r] EXCEPT !.status = "interrupted"]
                               ELSE rows[r]])
    /\ UNCHANGED <<threads, working, running, counts>>

-----------------------------------------------------------------------------
Next ==
    \/ \E s \in Schedule : \/ CreateSchedule(s) \/ UpdateSchedule(s) \/ DeleteSchedule(s)
                           \/ Elapse(s) \/ RunNow(s)
    \/ \E t \in Thread : Message(t) \/ Reoffer(t)
    \/ Tick \/ FlushNeedsYou
    \/ BeginRefused \/ BeginWork \/ BeginStopped \/ FinishThrows
    \/ \E reported \in {"completed", "failed"} : WorkEnds(reported)
    \/ Stop \/ Exit \/ Crash \/ Start

Spec == Init /\ [][Next]_vars

\* Promise callbacks run, the interval and the immediate fire, every execution
\* ends (its timeout aborts it, and a command's process group is killed).
Fairness ==
    /\ WF_vars(BeginRefused \/ BeginWork \/ BeginStopped)
    /\ WF_vars(\E reported \in {"completed", "failed"} : WorkEnds(reported))
    /\ WF_vars(Tick)
    /\ WF_vars(FlushNeedsYou)
    /\ WF_vars(Exit)

FairSpec == Spec /\ Fairness
-----------------------------------------------------------------------------
(* Safety.                                                                 *)

\* A timer occurrence is claimed at most once: however many ticks hold the
\* same reading of a schedule across their awaits, each revision of it yields
\* one row ("overdue one-shots run once").
OccurrenceClaimedOnce ==
    \A q, r \in Row :
        (/\ q # r /\ rows[q].id = rows[r].id
         /\ rows[q].status # "absent" /\ rows[q].trigger = "scheduled"
         /\ rows[r].status # "absent" /\ rows[r].trigger = "scheduled")
        => rows[q].revision # rows[r].revision

\* A message is handed to a needs-you schedule at most once, although events,
\* agent-run transitions and every tick offer it again and flushes overlap.
MessageHandledOnce ==
    \A q, r \in Row :
        (/\ q # r /\ rows[q].id = rows[r].id
         /\ rows[q].status # "absent" /\ rows[r].status # "absent")
        => rows[q].context \cap rows[r].context = {}

Holders(s) == {i \in DOMAIN queue :
                  /\ rows[queue[i]].id = s
                  /\ Preclaimed(queue[i]) \/ (i = 1 /\ working)}

\* "The same job never overlaps": a schedule is held exactly while one
\* execution of it is at work or one manual run of it is queued. A leaked or
\* doubled hold would block the schedule or let two of its runs start.
HeldByOne ==
    \A s \in Schedule :
        /\ s \in running <=> Holders(s) # {}
        /\ \A i, j \in Holders(s) : i = j

\* Claims and holds agree with the rows: occurrences, messages and schedules are
\* each taken once, whatever overlaps, crashes and restarts.
ClaimsAreSound == TypeOK /\ OccurrenceClaimedOnce /\ MessageHandledOnce /\ HeldByOne

\* While the daemon is up, a row leaves the queue unfinished only when a manual
\* run of its schedule is waiting behind it, or when its outcome could not be
\* written; otherwise every claim is executed and recorded.
ClaimsAreExecuted ==
    [][\A r \in Queued :
          (daemon' = "up" /\ faults' = faults /\ r \notin Queued'
           /\ rows'[r].status = "running") =>
              \E q \in Queued' : rows[q].id = rows[r].id /\ Preclaimed(q)]_vars

-----------------------------------------------------------------------------
(* Liveness.                                                               *)

\* In a daemon that stays up a run the owner asked for ends and is recorded,
\* whatever else is queued ("clients inspect run completion"), unless it has run
\* and its outcome could not be written.
ManualRunsEnd ==
    <>[](daemon = "up") =>
        \A r \in Row :
            rows[r].status = "running" /\ rows[r].trigger = "manual"
                ~> rows[r].status # "running" \/ (faults > 0 /\ r \notin Queued)

\* What schedule s has still to be told of thread t.
Owed(s, t) ==
    /\ schedules[s].saved = "saved" /\ schedules[s].enabled
    /\ threads[t].offered /\ watermark[s][t] # threads[t].version
    /\ Unused(rows) # {}

\* A handoff that stands is handed to every enabled needs-you schedule, also
\* when a snooze ran out without an event or a flush ended early.
HandoffsAreTold ==
    \A s \in Attention : \A t \in Thread : []<>~(daemon = "up" /\ Owed(s, t))

\* A graceful stop ends, whatever is queued and whatever the loops still claim.
SchedulerStops == daemon = "stopping" ~> daemon = "down"

\* The queue serves who waits for it: the owner's run, and the daemon's stop.
QueueDrains == ManualRunsEnd /\ SchedulerStops
=============================================================================
