--------------------------- MODULE SessionMonitor ---------------------------
(***************************************************************************)
(* How the transcripts of the owner's sessions become thread rows, and how *)
(* a stopped thread is told apart from one that needs the owner: the file  *)
(* watcher and its debounce, one poll at a time, the tick, the enrichment  *)
(* passes, and the rules by which State accepts an observation, an answer  *)
(* of the model or the owner's Done (session-monitor/monitor.ts,           *)
(* state/state.ts, state/database.ts, packages/core/src/resolve.mjs).      *)
(*                                                                         *)
(* A message is its position in the transcript, which stands for its time. *)
(* The children of a thread are an evidence version and whether a run of   *)
(* one is active. Titles and summaries are left out: what matters of an    *)
(* account is whether it was written.                                      *)
(***************************************************************************)
EXTENDS Integers, FiniteSets

CONSTANTS
    Root,           \* the transcript stores
    Thread,         \* sessions, one transcript each
    RootOf,         \* the store a session's transcript is in
    Late,           \* the stores that may be created after the daemon started
    MaxMessages,    \* bound: messages of a transcript
    MaxEvents       \* bound: turns that change without a message, changes of a
                    \* child, choices of the owner, failed calls, daemons that end

ASSUME MonitorAssumption ==
    /\ RootOf \in [Thread -> Root]
    /\ {MaxMessages, MaxEvents} \subseteq Nat
    /\ Late \subseteq Root

VARIABLES
    disk,       \* each transcript: its last message, and how its last turn stands
    kids,       \* each thread's delegated children, kept by the executor
    present,    \* the stores that exist
    onboarded,  \* the owner has been through setup: nothing is read before
    threads,    \* State's rows
    watched,    \* the stores a watcher is armed on
    poll,       \* the poll that runs: its phase, its files, the rows it read
    pending,    \* pendingFiles
    debounce,   \* the debounce timer is set
    pass,       \* the enrichment pass: "off", "queued" or "on"; enrichAgain
    calls,      \* model calls of the pass still to be answered
    failed,     \* (history) a scan failed while a watcher was armed, since the last full one
    events      \* events so far

world == <<disk, kids, present, onboarded>>
volatile == <<watched, poll, pending, debounce, pass, calls, failed>>
vars == <<disk, kids, present, onboarded, threads, watched, poll, pending, debounce, pass, calls, failed, events>>

Mood == {"busy", "asked", "yielded", "quiet"}
NoRow == [at |-> 0, state |-> "idle", through |-> 0, whileWorking |-> FALSE,
          kidsSeen |-> 0, basis |-> 0]
Idle == [phase |-> "none", full |-> FALSE, files |-> {}, rows |-> <<>>]
Event == events < MaxEvents /\ events' = events + 1

Seen(t) == threads[t].at # 0

-----------------------------------------------------------------------------
(* The rules of a row.                                                     *)

\* deriveState: a turn in progress works; a quiet transcript is idle; otherwise
\* whoever spoke last decides.
Derived(mood) == IF mood \in {"busy", "asked"} THEN "working" ELSE "idle"

\* resolveState: Done holds until a newer message.
Resolved(row, seen) ==
    IF row.state = "done" /\ seen.at <= row.at THEN "done" ELSE Derived(seen.mood)

\* recordObservation and recordScan: an older reading is dropped, an answer that
\* was written for this very message is kept, anything else is resolved anew.
Kept(row, seen) ==
    /\ seen.mood # "busy" /\ seen.at = row.at /\ row.through = row.at
    /\ ~row.whileWorking /\ row.state # "working"

Observed(row, seen) ==
    IF row.at > seen.at THEN row
    ELSE LET state == IF Kept(row, seen) THEN row.state ELSE Resolved(row, seen)
         IN [row EXCEPT !.at = seen.at, !.state = state,
                        !.basis = IF state = row.state /\ seen.at = row.at THEN @ ELSE seen.at]

\* A child that is pending or running makes its parent work.
Working(row, k) == row.state # "done" /\ (row.state = "working" \/ k.active)

\* What listEnrichmentCandidates selects whatever the cadence.
Due(row, k) ==
    /\ row.at # 0 /\ row.state # "done"
    /\ \/ row.through < row.at
       \/ row.kidsSeen # k.version
       \/ row.whileWorking # Working(row, k)

\* (mutant) an answer is accepted for whatever message is the last one now
UncheckedMessage(row, k, call, attention) ==
    /\ row.at # 0 /\ row.state # "done"
    /\ Working(row, k) \/ attention # "none"
    /\ call.kids = k.version

\* (mutant) Done does not reject an answer
UncheckedDone(row, k, call, attention) ==
    /\ row.at # 0
    /\ Working(row, k) \/ attention # "none"
    /\ row.at = call.at /\ call.kids = k.version /\ row.through <= call.at

\* appendModelDetailsIfFresh's guards.
Accepts(row, k, call, attention) ==
    /\ row.at # 0 /\ row.state # "done"
    /\ Working(row, k) \/ attention # "none"
    /\ row.at = call.at
    /\ call.kids = k.version
    /\ row.through <= call.at

\* (mutant) whether the thread worked is not written with its account
WorkingForgotten(row, k, call, attention, account) ==
    LET moved == IF Working(row, k) THEN row
                 ELSE [row EXCEPT !.state = attention, !.basis = call.basis]
    IN IF account THEN [moved EXCEPT !.through = call.at, !.kidsSeen = k.version] ELSE moved

\* The answer moves the row of a stopped thread; only an account settles it.
Assessed(row, k, call, attention, account) ==
    LET moved == IF Working(row, k) THEN row
                 ELSE [row EXCEPT !.state = attention, !.basis = call.basis]
    IN IF ~account THEN moved
       ELSE [moved EXCEPT !.through = call.at, !.kidsSeen = k.version,
                          !.whileWorking = Working(row, k)]

-----------------------------------------------------------------------------
(* The monitor's own steps, at a reading of its fields.                    *)

\* (mutant) a poll ends without looking at what came in meanwhile
PendingForgotten(files) == FALSE

\* finally: files noted while the poll ran are polled after the debounce.
Reschedules(files) == files # {}

\* scheduleEnrichment: none before setup (canEnrich); one pass at a time, and one
\* more for what landed in it.
EnrichmentAsked ==
    pass' = IF ~onboarded THEN pass
            ELSE IF pass.phase = "off" THEN [pass EXCEPT !.phase = "queued"]
            ELSE [pass EXCEPT !.again = TRUE]

\* armWatchers: nothing to do while one watcher is armed, a store that is not
\* there cannot be watched, and none is before setup.
Armed == IF watched = {} /\ onboarded THEN present ELSE watched

\* What a poll is at first: before setup the scan answers with no row at once.
Scan(full, files, consent) ==
    [phase |-> IF consent THEN "reading" ELSE "recording",
     full |-> full, files |-> files, rows |-> <<>>]

\* poll, when none runs.
PollStarts(full, files) ==
    /\ poll' = Scan(full, files, onboarded)
    /\ watched' = Armed

PollEnds ==
    /\ poll' = Idle
    /\ debounce' = (debounce \/ Reschedules(pending))

\* A daemon that starts polls everything and arms what watchers it can.
Started(stores, consent) ==
    /\ watched' = IF consent THEN stores ELSE {}
    /\ poll' = Scan(TRUE, {}, consent)
    /\ pending' = {} /\ debounce' = FALSE
    /\ pass' = [phase |-> "off", again |-> FALSE] /\ calls' = {}
    /\ failed' = FALSE

Init ==
    /\ disk = [t \in Thread |-> [at |-> 0, mood |-> "yielded"]]
    /\ kids = [t \in Thread |-> [version |-> 0, active |-> FALSE]]
    /\ present \in {Root, Root \ Late}
    /\ threads = [t \in Thread |-> NoRow]
    /\ onboarded \in BOOLEAN
    /\ watched = IF onboarded THEN present ELSE {}
    /\ poll = Scan(TRUE, {}, onboarded)
    /\ pending = {} /\ debounce = FALSE
    /\ pass = [phase |-> "off", again |-> FALSE] /\ calls = {}
    /\ failed = FALSE /\ events = 0

-----------------------------------------------------------------------------
(* The world.                                                              *)

\* The watcher names the file and the debounce starts over.
Noticed(t) ==
    IF RootOf[t] \in watched
    THEN pending' = pending \cup {t} /\ debounce' = TRUE
    ELSE UNCHANGED <<pending, debounce>>

\* A message: the owner asks, or the agent speaks and goes on or yields.
WriteMessage(t, mood) ==
    /\ RootOf[t] \in present /\ disk[t].at < MaxMessages
    /\ disk' = [disk EXCEPT ![t] = [at |-> @.at + 1, mood |-> mood]]
    /\ Noticed(t)
    /\ UNCHANGED <<kids, present, onboarded, threads, watched, poll, pass, calls, events, failed>>

\* A turn starts or ends with no message of its own.
ChangeTurn(t, mood) ==
    /\ disk[t].at # 0 /\ disk[t].mood # mood /\ Event
    /\ disk' = [disk EXCEPT ![t].mood = mood]
    /\ Noticed(t)
    /\ UNCHANGED <<kids, present, onboarded, threads, watched, poll, pass, calls, failed>>

\* Half an hour passes after the owner spoke: no file changes.
GrowQuiet(t) ==
    /\ disk[t].mood = "asked"
    /\ disk' = [disk EXCEPT ![t].mood = "quiet"]
    /\ UNCHANGED <<kids, present, onboarded, threads, volatile, events>>

RootAppears(r) ==
    /\ r \notin present
    /\ present' = present \cup {r}
    /\ UNCHANGED <<disk, kids, onboarded, threads, volatile, events>>

\* Setup is completed, in another process: the daemon is not told.
FinishSetup ==
    /\ ~onboarded
    /\ onboarded' = TRUE
    /\ UNCHANGED <<disk, kids, present, threads, volatile, events>>

\* A run of a child starts, ends or speaks.
ChangeChild(t, active) ==
    /\ Event
    /\ kids' = [kids EXCEPT ![t] = [version |-> @.version + 1, active |-> active]]
    /\ UNCHANGED <<disk, present, onboarded, threads, volatile>>

-----------------------------------------------------------------------------
(* Polls.                                                                  *)

\* The timer hands the noted files to a poll; a poll that runs keeps them.
Debounced ==
    /\ debounce
    /\ debounce' = FALSE
    /\ IF poll.phase # "none"
       THEN UNCHANGED <<watched, poll, pending>>
       ELSE PollStarts(pending = {}, pending) /\ pending' = {}
    /\ UNCHANGED <<world, threads, pass, calls, events, failed>>

\* The interval: with a watcher armed it only asks for enrichment.
Tick ==
    /\ IF watched # {}
       THEN EnrichmentAsked /\ UNCHANGED <<watched, poll>>
       ELSE /\ poll.phase = "none"
            /\ PollStarts(TRUE, {}) /\ UNCHANGED pass
    /\ UNCHANGED <<world, threads, pending, debounce, calls, events, failed>>

\* POST /poll: the rows named are due again, then a full scan, or the one that runs.
OwnerPoll(ids) ==
    /\ Event
    /\ threads' = [t \in Thread |->
          IF t \in ids /\ threads[t].state # "done" THEN [threads[t] EXCEPT !.through = 0]
          ELSE threads[t]]
    /\ IF poll.phase = "none" THEN PollStarts(TRUE, {}) ELSE UNCHANGED <<watched, poll>>
    /\ UNCHANGED <<world, pending, debounce, pass, calls, failed>>

ReadTranscripts ==
    /\ poll.phase = "reading"
    /\ LET read == {t \in Thread : /\ disk[t].at # 0
                                   /\ poll.full \/ t \in poll.files}
       IN poll' = [poll EXCEPT !.phase = "recording", !.rows = [t \in read |-> disk[t]]]
    /\ UNCHANGED <<world, threads, watched, pending, debounce, pass, calls, events, failed>>

\* recordPoll, the enrichment it asks for, and the end of the poll.
RecordPoll ==
    /\ poll.phase = "recording"
    /\ threads' = [t \in Thread |->
          IF t \in DOMAIN poll.rows THEN Observed(threads[t], poll.rows[t]) ELSE threads[t]]
    /\ EnrichmentAsked
    /\ PollEnds
    /\ failed' = (failed /\ ~poll.full)
    /\ UNCHANGED <<world, watched, pending, calls, events>>

\* The scan throws: the files it was given are not noted again.
ScanFails ==
    /\ poll.phase = "reading" /\ Event
    /\ PollEnds
    /\ failed' = (failed \/ watched # {})
    /\ UNCHANGED <<world, threads, watched, pending, pass, calls>>

-----------------------------------------------------------------------------
(* Enrichment.                                                             *)

\* One snapshot of the candidates; a working one is taken again on its cadence.
CallsFor(selected) ==
    {[thread |-> t, at |-> threads[t].at, kids |-> kids[t].version,
      working |-> Working(threads[t], kids[t]), basis |-> 0] : t \in selected}

StartPass ==
    /\ pass.phase = "queued" \/ (pass.phase = "on" /\ calls = {} /\ pass.again)
    /\ pass' = [phase |-> "on", again |-> FALSE]
    /\ \E cadence \in BOOLEAN :
          calls' = CallsFor({t \in Thread :
             \/ Due(threads[t], kids[t])
             \/ cadence /\ Seen(t) /\ Working(threads[t], kids[t])})
    /\ UNCHANGED <<world, threads, watched, poll, pending, debounce, events, failed>>

\* The call reads the transcript as it is by now.
Sample(c) ==
    /\ c \in calls /\ c.basis = 0
    /\ calls' = (calls \ {c}) \cup {[c EXCEPT !.basis = disk[c.thread].at]}
    /\ UNCHANGED <<world, threads, watched, poll, pending, debounce, pass, events, failed>>

\* The answers arrive. A working candidate is not asked for its attention, and a
\* stopped one keeps its answer when no account comes with it.
Answer(c, attention, account) ==
    /\ c \in calls /\ c.basis # 0
    /\ c.working <=> attention = "none"
    /\ account \/ (~c.working /\ Event)
    /\ account => UNCHANGED events
    /\ calls' = calls \ {c}
    /\ LET row == threads[c.thread]
           k   == kids[c.thread]
       IN threads' = IF Accepts(row, k, c, attention)
                     THEN [threads EXCEPT ![c.thread] = Assessed(row, k, c, attention, account)]
                     ELSE threads
    /\ UNCHANGED <<world, watched, poll, pending, debounce, pass, failed>>

CallFails(c) ==
    /\ c \in calls /\ Event
    /\ calls' = calls \ {c}
    /\ UNCHANGED <<world, threads, watched, poll, pending, debounce, pass, failed>>

EndPass ==
    /\ pass.phase = "on" /\ calls = {} /\ ~pass.again
    /\ pass' = [pass EXCEPT !.phase = "off"]
    /\ UNCHANGED <<world, threads, watched, poll, pending, debounce, calls, events, failed>>

-----------------------------------------------------------------------------
(* The owner and the daemon.                                               *)

MarkDone(t) ==
    /\ Seen(t) /\ threads[t].state # "done" /\ Event
    /\ threads' = [threads EXCEPT ![t].state = "done", ![t].basis = threads[t].at]
    /\ UNCHANGED <<world, volatile>>

\* The daemon ends in any state, and the next one starts over from its rows. It
\* may be of a version that asks the owner for setup again.
Restart ==
    /\ Event
    /\ onboarded' \in {onboarded, FALSE}
    /\ Started(present, onboarded')
    /\ UNCHANGED <<disk, kids, present, threads>>

Changes ==
    \E t \in Thread :
       \/ \E mood \in Mood \ {"quiet"} : WriteMessage(t, mood) \/ ChangeTurn(t, mood)
       \/ GrowQuiet(t)
       \/ \E active \in BOOLEAN : ChangeChild(t, active)

Enrichment ==
    \/ StartPass \/ EndPass
    \/ \E c \in calls :
          \/ Sample(c) \/ CallFails(c)
          \/ \E attention \in {"none", "idle", "needs-you"}, account \in BOOLEAN :
                Answer(c, attention, account)

Next ==
    \/ Changes
    \/ (\E r \in Root : RootAppears(r)) \/ FinishSetup
    \/ Debounced \/ Tick \/ ReadTranscripts \/ RecordPoll \/ ScanFails
    \/ Enrichment
    \/ \E ids \in SUBSET {t \in Thread : Seen(t)} : OwnerPoll(ids)
    \/ \E t \in Thread : MarkDone(t)
    \/ Restart

\* Timers fire, scans and model calls return.
Fairness ==
    /\ WF_vars(Debounced) /\ WF_vars(ReadTranscripts) /\ WF_vars(RecordPoll)
    /\ WF_vars(Tick) /\ WF_vars(Enrichment)

Spec == Init /\ [][Next]_vars /\ Fairness

-----------------------------------------------------------------------------
(* Properties.                                                             *)

\* Rows, polls, passes and calls keep their types.
TypeOK ==
    /\ disk \in [Thread -> [at : 0..MaxMessages, mood : Mood]]
    /\ kids \in [Thread -> [version : 0..MaxEvents, active : BOOLEAN]]
    /\ present \subseteq Root /\ watched \subseteq present /\ onboarded \in BOOLEAN
    /\ threads \in [Thread -> [at : 0..MaxMessages,
                               state : {"working", "idle", "needs-you", "done"},
                               through : 0..MaxMessages, whileWorking : BOOLEAN,
                               kidsSeen : 0..MaxEvents, basis : 0..MaxMessages]]
    /\ poll.phase \in {"none", "reading", "recording"} /\ poll.files \subseteq Thread
    /\ pending \subseteq Thread /\ debounce \in BOOLEAN
    /\ pass \in [phase : {"off", "queued", "on"}, again : BOOLEAN]

\* What a row tells the owner of a stopped thread, that it needs them or does
\* not, never rests on fewer messages than the row itself has recorded, however
\* polls and model calls overlap (appendModelDetailsIfFresh).
AnswerIsCurrent ==
    TypeOK /\ \A t \in Thread : threads[t].basis >= threads[t].at

\* The owner's Done outlives every scan, pass and restart, until a message newer
\* than the thread's last is recorded (holdsDone).
DoneHolds ==
    [][\A t \in Thread :
          threads[t].state = "done" /\ threads'[t].state # "done" =>
             threads'[t].at > threads[t].at]_vars

\* Nothing asks for the transcript to be read: its store was created while
\* another was watched, so that it has no watcher, and the interval, which reads
\* every store when none is watched, only enriches. A restart or a poll of the
\* owner reads it.
Overlooked(t) == watched # {} /\ RootOf[t] \notin watched

\* Every message is recorded in the end, the ones written while a poll runs, while
\* the debounce waits, before setup, before the store is watched and across
\* restarts included. Excused: before setup, a scan that failed with a watcher
\* armed, and a store that is overlooked (poll, scheduleReconcile, start).
MessagesAreRecorded ==
    \A t \in Thread : \A n \in 1..MaxMessages :
       (disk[t].at >= n) ~> \/ threads[t].at >= n
                            \/ ~onboarded \/ failed \/ Overlooked(t)

\* A thread the owner has not closed is assessed, again and again, from its last
\* message and its children as they are, once setup is done (drainEnrichment,
\* enrichAgain).
ThreadsAreAssessed ==
    \A t \in Thread : []<>(Seen(t) /\ onboarded => ~Due(threads[t], kids[t]))

\* What is written is recorded and told of: no poll, pass or restart keeps a
\* message, or what it means for the owner, out of the rows for good.
RowsCatchUp == MessagesAreRecorded /\ ThreadsAreAssessed
=============================================================================
