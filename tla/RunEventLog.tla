----------------------------- MODULE RunEventLog -----------------------------
(***************************************************************************)
(* The event log of one delegated run, from State to the terminal of the   *)
(* owner who follows it: the numbered records SQLite keeps within a byte   *)
(* budget, the response the gateway streams them on until the socket       *)
(* pushes back, and the CLI, which reconnects after the last number it saw *)
(* (database.ts, state.ts, gateway/server.ts, gateway/client.ts,           *)
(* cli/operations/runs.ts).                                                *)
(*                                                                         *)
(* A record is appended and the stream is woken by a microtask, so one     *)
(* action writes the record and pumps it to the socket.                    *)
(***************************************************************************)
EXTENDS Integers, SequencesExt

CONSTANTS
    Budget,         \* bytes of events a run may keep
    Size,           \* the sizes an event may have
    ResultSize,     \* the size of a result record
    MaxSeq,         \* bound: records a run may be given
    MaxFailures     \* bound: failed writes, broken connections, daemons that end

ASSUME SizesAssumption ==
    /\ Budget \in Nat
    /\ Size \subseteq Nat \ {0}
    /\ ResultSize \in Nat \ {0}
    /\ MaxSeq \in Nat /\ MaxFailures \in Nat

VARIABLES
    server,     \* "down", "listening" (not yet recovered) or "up"
    status,     \* the run's row: "pending", "running" or "ended"
    log,        \* its agent_run_events rows, in order
    lastSeq,    \* its agent_run_event_sequences row, 0 when it has none
    cache,      \* eventLogBytes of this daemon, Unknown until counted
    stream,     \* the gateway's response, with what the socket still holds
    reader,     \* the CLI: its phase, its cursor, and whether it was told the result
    follow,     \* whether the CLI follows to the end of the run
    byAgent,    \* whether an agent calls it, which only connects
    failures    \* faults so far

store == <<status, log, lastSeq, cache>>
caller == <<follow, byAgent>>
logVars == <<server, status, log, lastSeq, cache, stream, reader, follow, byAgent, failures>>

Unknown == -1
Record(seq, bytes, result) == [seq |-> seq, bytes |-> bytes, result |-> result]
NoStream == [open |-> FALSE, after |-> 0, draining |-> FALSE, wire |-> <<>>]

Bytes(l) ==
    LET upTo[i \in 0..Len(l)] == IF i = 0 THEN 0 ELSE upTo[i - 1] + l[i].bytes
    IN upTo[Len(l)]
Highest(l) == IF l = <<>> THEN 0 ELSE Last(l).seq
Ended == status = "ended"

\* A run of this version; a run that ended before runs had logs; and a run an
\* older daemon left running, whose log has no counter of its own.
LogInit ==
    /\ server = "down"
    /\ \/ status = "pending" /\ log = <<>>
       \/ status = "ended" /\ log = <<>>
       \/ status = "running" /\ \E b \in Size : log = <<Record(2, b, FALSE)>>
    /\ lastSeq = 0 /\ cache = Unknown
    /\ stream = NoStream
    /\ reader = [phase |-> "away", cursor |-> 0, result |-> FALSE]
    /\ follow \in BOOLEAN /\ byAgent \in BOOLEAN
    /\ failures = 0

-----------------------------------------------------------------------------
(* The gateway's pump, at a given reading of the run.                      *)

\* SELECT ... WHERE seq > after ORDER BY seq.
Unread(l, after) ==
    LET first == CHOOSE i \in 1..(Len(l) + 1) :
                    \A j \in DOMAIN l : l[j].seq > after <=> j >= i
    IN SubSeq(l, first, Len(l))

\* (mutant) a run without a log ends its response without a result
UnloggedForgotten(s, k, l, seq, ended) ==
    LET unread == Unread(l, s.after)
        sent   == IF k = 0 THEN unread ELSE SubSeq(unread, 1, k)
        final  == sent # <<>> /\ Last(sent).result
    IN [open     |-> ~(final \/ (k = 0 /\ (ended \/ ~follow))),
        after    |-> IF sent = <<>> THEN s.after ELSE Last(sent).seq,
        draining |-> k # 0 /\ ~final,
        wire     |-> s.wire \o sent]

\* Writes the records after the stream's cursor up to the one at which the
\* socket pushes back (k, or 0 if it takes them all), and ends the response
\* after a result, at the end of an ended run's log, and at the end of the log
\* so far when the CLI does not follow.
Sent(s, k, l, seq, ended) ==
    LET unread == Unread(l, s.after)
        sent   == IF k = 0 THEN unread ELSE SubSeq(unread, 1, k)
        final  == sent # <<>> /\ Last(sent).result
        spent  == k = 0 /\ (ended \/ ~follow)
        extra  == IF spent /\ ~final /\ ended /\ seq = 0
                  THEN <<Record(0, ResultSize, TRUE)>> ELSE <<>>
    IN [open     |-> ~(final \/ spent),
        after    |-> IF sent = <<>> THEN s.after ELSE Last(sent).seq,
        draining |-> k # 0 /\ ~final,
        wire     |-> s.wire \o sent \o extra]

\* Where the socket may push back.
Pushback(s, l) == 0..Len(Unread(l, s.after))

\* What a wake-up of the log's listeners does to the stream.
Woken(l, seq, ended) ==
    IF stream.open /\ ~stream.draining
    THEN \E k \in Pushback(stream, l) : stream' = Sent(stream, k, l, seq, ended)
    ELSE UNCHANGED stream

-----------------------------------------------------------------------------
(* The log in State.                                                       *)

\* (mutant) the number is taken from the rows that are left
ReusedSeq(l, seq) == Highest(l) + 1

NextSeq(l, seq) == IF seq = 0 THEN Highest(l) + 1 ELSE seq + 1

\* The known byte count follows every record; an unknown one stays unknown.
Counted(bytes) == IF cache = Unknown THEN Unknown ELSE cache + bytes

\* (mutant) a log that just fits is cut as well
EvictedEarly(l, total) ==
    LET left(i) == total - Bytes(SubSeq(l, 1, i))
        through == CHOOSE i \in 0..Len(l) :
                      /\ left(i) < Budget \/ i = Len(l)
                      /\ \A j \in 0..(i - 1) : ~(left(j) < Budget)
    IN [rows |-> SubSeq(l, through + 1, Len(l)), total |-> left(through)]

\* Evicts from the oldest while the log is over the budget by the count it has.
Evicted(l, total) ==
    LET left(i) == total - Bytes(SubSeq(l, 1, i))
        through == CHOOSE i \in 0..Len(l) :
                      /\ left(i) <= Budget \/ i = Len(l)
                      /\ \A j \in 0..(i - 1) : ~(left(j) <= Budget)
    IN [rows |-> SubSeq(l, through + 1, Len(l)), total |-> left(through)]

AppendEvent(bytes) ==
    /\ server = "up" /\ status = "running" /\ NextSeq(log, lastSeq) < MaxSeq
    /\ LET seq   == NextSeq(log, lastSeq)
           added == Append(log, Record(seq, bytes, FALSE))
           total == IF cache = Unknown THEN Bytes(added) ELSE Counted(bytes)
           left  == Evicted(added, total)
       IN /\ lastSeq' = seq
          /\ log' = left.rows
          /\ cache' = left.total
          /\ Woken(left.rows, seq, FALSE)
    /\ UNCHANGED <<server, status, reader, caller, failures>>

\* The terminal status and its result record, in one savepoint.
Result ==
    LET seq   == NextSeq(log, lastSeq)
        added == Append(log, Record(seq, ResultSize, TRUE))
    IN /\ status' = "ended"
       /\ lastSeq' = seq
       /\ log' = added
       /\ cache' = Counted(ResultSize)
       /\ Woken(added, seq, TRUE)

ClaimRun ==
    /\ server = "up" /\ status = "pending"
    /\ status' = "running"
    /\ UNCHANGED <<server, log, lastSeq, cache, stream, reader, caller, failures>>

\* A pending run ends when it is cancelled.
FinishRun ==
    /\ server = "up" /\ ~Ended
    /\ Result
    /\ UNCHANGED <<server, reader, caller, failures>>

\* A statement of the savepoint fails after the record was counted: the rows are
\* rolled back, and so that the count cannot be ahead of them it is forgotten.
RolledBack(bytes) == Unknown

WriteFails(bytes) ==
    /\ server = "up" /\ status = "running" /\ failures < MaxFailures
    /\ failures' = failures + 1
    /\ cache' = RolledBack(bytes)
    /\ UNCHANGED <<server, status, log, lastSeq, stream, reader, caller>>

\* Opening State gives a log that has none a counter; then the gateway listens,
\* with a credential of its own: one a CLI has just read is no longer good.
StartDaemon ==
    /\ server = "down"
    /\ server' = "listening"
    /\ lastSeq' = IF lastSeq = 0 THEN Highest(log) ELSE lastSeq
    /\ cache' = Unknown
    /\ reader' = IF reader.phase = "found" THEN [reader EXCEPT !.phase = "stale"] ELSE reader
    /\ UNCHANGED <<status, log, stream, caller, failures>>

\* The executor starts: a row still running is interrupted, with its result.
Recover ==
    /\ server = "listening"
    /\ server' = "up"
    /\ IF status = "running" THEN Result ELSE UNCHANGED <<store, stream>>
    /\ UNCHANGED <<reader, caller, failures>>

\* An orderly end: every response is ended, and what it holds is still sent.
CloseDaemon ==
    /\ server = "up" /\ failures < MaxFailures
    /\ server' = "down" /\ failures' = failures + 1
    /\ stream' = [stream EXCEPT !.open = FALSE, !.draining = FALSE]
    /\ UNCHANGED <<store, reader, caller>>

-----------------------------------------------------------------------------
(* The CLI.                                                                *)

\* (mutant) a connection that breaks ends the CLI
BrokenOff == [reader EXCEPT !.phase = "failed"]

\* Where an attempt that fails without an answer leaves the CLI.
AfterDrop == [reader EXCEPT !.phase = IF follow THEN "away" ELSE "failed"]

\* The discovery file names a daemon, and its health and readiness are asked.
Discover ==
    /\ reader.phase = "away" /\ server = "up"
    /\ reader' = [reader EXCEPT !.phase = "found"]
    /\ UNCHANGED <<server, store, stream, caller, failures>>

\* An agent that finds none gives up: it never starts a daemon.
GiveUp ==
    /\ reader.phase = "away" /\ byAgent /\ server # "up"
    /\ reader' = [reader EXCEPT !.phase = "failed"]
    /\ UNCHANGED <<server, store, stream, caller, failures>>

Connect ==
    /\ reader.phase = "found" /\ server = "up"
    /\ reader' = [reader EXCEPT !.phase = "reading"]
    /\ LET opened == [NoStream EXCEPT !.after = reader.cursor]
       IN \E k \in Pushback(opened, log) : stream' = Sent(opened, k, log, lastSeq, Ended)
    /\ UNCHANGED <<server, store, caller, failures>>

\* The daemon it found is gone when the log is asked for.
ConnectFails ==
    /\ reader.phase \in {"found", "stale"} /\ server = "down"
    /\ reader' = AfterDrop
    /\ UNCHANGED <<server, store, stream, caller, failures>>

\* Another daemon answers in its place and refuses the credential: an answer
\* with a status ends the CLI, whether it follows or not.
Unauthorized ==
    /\ reader.phase = "stale" /\ server # "down"
    /\ reader' = [reader EXCEPT !.phase = "failed"]
    /\ UNCHANGED <<server, store, stream, caller, failures>>

\* The socket has taken what it held back: the pump goes on. What follows it on
\* the wire was not read yet, so a drain is no later than the last frame's read.
Drain ==
    /\ stream.open /\ stream.draining
    /\ LET s == [stream EXCEPT !.draining = FALSE]
       IN \E k \in Pushback(s, log) : stream' = Sent(s, k, log, lastSeq, Ended)
    /\ UNCHANGED <<server, store, reader, caller, failures>>

\* One frame is rendered. A result ends the CLI, whatever else was to come.
ReadFrame ==
    /\ reader.phase = "reading" /\ stream.wire # <<>>
    /\ LET e == Head(stream.wire)
       IN /\ reader' = [phase  |-> IF e.result THEN "returned" ELSE "reading",
                        cursor |-> IF e.seq = 0 THEN reader.cursor ELSE e.seq,
                        result |-> e.result]
          /\ stream' = IF e.result THEN NoStream ELSE [stream EXCEPT !.wire = Tail(@)]
    /\ UNCHANGED <<server, store, caller, failures>>

\* The response ended without a result: the log so far, or a daemon that closed.
ReadEnd ==
    /\ reader.phase = "reading" /\ stream.wire = <<>> /\ ~stream.open
    /\ reader' = [reader EXCEPT !.phase = IF follow THEN "away" ELSE "returned"]
    /\ stream' = NoStream
    /\ UNCHANGED <<server, store, caller, failures>>

\* The connection breaks, with the daemon or without it: what the socket held is
\* lost, and a CLI that does not follow reports the failure.
Break ==
    /\ reader.phase = "reading" /\ failures < MaxFailures
    /\ failures' = failures + 1
    /\ reader' = AfterDrop
    /\ stream' = NoStream
    /\ server' \in {server, "down"}
    /\ UNCHANGED <<store, caller>>

-----------------------------------------------------------------------------

LogNext ==
    \/ \E b \in Size : AppendEvent(b) \/ WriteFails(b)
    \/ ClaimRun \/ FinishRun
    \/ StartDaemon \/ Recover \/ CloseDaemon
    \/ Discover \/ GiveUp \/ Connect \/ ConnectFails \/ Unauthorized
    \/ Drain \/ ReadFrame \/ ReadEnd \/ Break

\* An owner's CLI starts the daemon it finds down; an agent's does not.
OwnerStarts == reader.phase = "away" /\ ~byAgent /\ StartDaemon

\* Turns end (the executor's deadline), a daemon that listens recovers in the
\* same turn of its loop, the CLI's requests are answered or fail, and sockets
\* deliver what they took.
LogFairness ==
    /\ WF_logVars(OwnerStarts) /\ WF_logVars(Recover)
    /\ WF_logVars(ClaimRun) /\ WF_logVars(FinishRun)
    /\ WF_logVars(Discover) /\ WF_logVars(GiveUp) /\ WF_logVars(Connect)
    /\ WF_logVars(ConnectFails) /\ WF_logVars(Unauthorized)
    /\ WF_logVars(Drain) /\ WF_logVars(ReadFrame) /\ WF_logVars(ReadEnd)

LogSpec == LogInit /\ [][LogNext]_logVars /\ LogFairness

-----------------------------------------------------------------------------
(* Properties.                                                             *)

\* The log, its counter, the stream and the CLI keep their types.
LogTypeOK ==
    /\ server \in {"down", "listening", "up"}
    /\ status \in {"pending", "running", "ended"}
    /\ \A i \in DOMAIN log :
          log[i] \in [seq : Nat, bytes : Nat, result : BOOLEAN]
    /\ lastSeq \in Nat /\ cache \in Nat \cup {Unknown}
    /\ stream.open \in BOOLEAN /\ stream.draining \in BOOLEAN /\ stream.after \in Nat
    /\ reader.phase \in {"away", "found", "stale", "reading", "returned", "failed"}
    /\ reader.cursor \in Nat /\ reader.result \in BOOLEAN
    /\ follow \in BOOLEAN /\ byAgent \in BOOLEAN /\ failures \in 0..MaxFailures

\* A row's number is higher than its predecessors', and none is above the counter.
Numbered ==
    /\ \A i, j \in DOMAIN log : i < j => log[i].seq < log[j].seq
    /\ \A i \in DOMAIN log : 0 < log[i].seq /\ (lastSeq # 0 => log[i].seq <= lastSeq)
    /\ server # "down" /\ log # <<>> => lastSeq # 0

\* Only the last row can be a result, and only an ended run has one.
ResultIsLast ==
    \A i \in DOMAIN log : log[i].result => Ended /\ i = Len(log)

\* What the socket holds continues what the CLI has rendered, up to the stream's
\* cursor, and skips nothing of the log.
FramesInOrder ==
    LET wire == stream.wire
    IN /\ \A i \in DOMAIN wire :
             IF wire[i].seq = 0
             THEN lastSeq = 0 /\ Ended /\ wire[i].result /\ i = 1 /\ Len(wire) = 1
             ELSE /\ reader.cursor < wire[i].seq /\ wire[i].seq <= stream.after
                  /\ wire[i].result => Ended /\ i = Len(wire)
       /\ \A i, j \in DOMAIN wire : i < j => wire[i].seq < wire[j].seq

\* The log stays in order, counted exactly, and what is on its way to the CLI is
\* the next part of it, whatever was rolled back, evicted or reconnected.
LogIsSound ==
    /\ LogTypeOK /\ Numbered /\ ResultIsLast /\ FramesInOrder
    /\ cache # Unknown => cache = Bytes(log)

Promise == INSTANCE RunLogPromise WITH
    issued <- IF lastSeq = 0 THEN Highest(log) ELSE lastSeq,
    kept   <- {log[i].seq : i \in DOMAIN log},
    cursor <- reader.cursor,
    closed <- reader.result

\* Evictions, restarts, broken connections and a socket that pushes back never
\* make the CLI's rendering repeat a record, swap two, skip one the log still
\* keeps, or go on after the result (agentRunLog, iterateAgentRunEvents).
FollowerSeesTheLog == Promise!Spec

\* Each event leaves the longest end of the log that fits the budget, whatever
\* was rolled back before it and whichever daemon counted (enforceEventLogBudget).
KeepsTheBudget ==
    [][(status' = "running" /\ lastSeq' > lastSeq /\ server = "up") =>
         /\ Bytes(log') <= Budget
         /\ log' # <<>> =>
               \A i \in DOMAIN log : log[i].seq < Head(log').seq =>
                  Bytes(SubSeq(log, i, Len(log))) + Last(log').bytes > Budget]_logVars

\* The log stays sound, whatever is dropped from it.
LogIsKept == []LogIsSound /\ KeepsTheBudget

\* A CLI that follows a run ends: it is told the run's result, through the
\* daemons and the connections that fail meanwhile, unless it fails; and no
\* daemon that ends or socket that breaks fails it by itself. An agent's fails
\* when it looks for a daemon that is not up, an owner's only when a daemon was
\* replaced between its discovery and its request (streamRunLog).
FollowerIsTold ==
    /\ follow ~> (reader.result \/ reader.phase = "failed")
    /\ [][(follow /\ reader.phase # "failed" /\ reader'.phase = "failed") =>
            \/ byAgent /\ server # "up" /\ reader.phase = "away"
            \/ reader.phase = "stale" /\ server # "down"]_logVars

=============================================================================
