----------------------------- MODULE SessionPanel -----------------------------
(***************************************************************************)
(* The desktop panel and the daemon's projection it renders: rows that     *)
(* sessions, delegated runs, the clock, the owner and other clients move   *)
(* (database.ts, state.ts, session-state.ts), the event stream that only   *)
(* says "read again" (event-bus.ts, server.ts), and the widget's client    *)
(* (DaemonClient.swift, Model.swift): one refresh loop that a poll, a      *)
(* frame and every write share, rows hidden while a write is in flight,    *)
(* and titles previewed until the daemon reports them.                     *)
(*                                                                         *)
(* The order of rows within a section is left out. The main actor runs the *)
(* client's code from one await to the next without interruption.          *)
(***************************************************************************)
EXTENDS Naturals, FiniteSets

CONSTANTS
    Session,     \* sessions
    Parent,      \* the session that delegated each, or None
    Title,       \* titles the owner types
    MaxOps,      \* bound: the owner's actions in the panel
    MaxNews,     \* bound: what sessions, runs, the clock and other clients change
    MaxTrouble   \* bound: crashes, lost requests and streams, ill-timed ticks

None == "none"
Op == 1 .. MaxOps
Untitled == ""

ASSUME PanelAssumption ==
    /\ Parent \in [Session -> Session \cup {None}] /\ None \notin Session
    /\ Untitled \notin Title /\ MaxOps \in Nat /\ MaxNews \in Nat /\ MaxTrouble \in Nat

VARIABLES
    row,       \* the threads table, and the latest state of thread_details
    active,    \* sessions with a delegated run under way
    rev,       \* (history) how many changes the daemon has announced
    up,        \* the daemon serves
    posts,     \* writes the daemon has yet to handle
    frame,     \* frames wait in the event stream
    stream,    \* startSSE: "off", "open" and unread, "leading" a refresh, "reading"
    loop,      \* refresh: "idle", "asked", or the "carried" payload is on its way
    carried,   \* that payload
    dirty,     \* refreshDirty
    last,      \* lastRows, with the rev they were read at; online
    writes,    \* pendingWrites: writes in flight, by session
    preview,   \* pendingRenames: [pending, title]
    op,        \* the owner's actions
    placed,    \* (history) the latest change by a write that has settled, by session
    news, trouble   \* bounded

daemon == <<row, active, rev, up>>
client == <<loop, carried, dirty, last, writes, preview, op, placed>>
bounds == <<news, trouble>>
panelVars == <<row, active, rev, up, posts, frame, stream, loop, carried, dirty, last,
               writes, preview, op, placed, news, trouble>>

Nothing  == [online |-> FALSE, rev |-> 0, rows |-> <<>>]
NoSnooze == [until |-> "never", stands |-> FALSE]
Unasked  == [at |-> "idle", does |-> None, thread |-> None, title |-> Untitled, rev |-> 0]
NoPreview == [pending |-> FALSE, title |-> Untitled]

PanelInit ==
    /\ row = [t \in Session |-> [state |-> "needs-you", aged |-> FALSE,
                                title |-> Untitled, snooze |-> NoSnooze]]
    /\ active = {} /\ rev = 0 /\ up = TRUE /\ posts = {}
    /\ frame = FALSE /\ stream = "off"
    /\ loop = "idle" /\ carried = Nothing /\ dirty = FALSE /\ last = Nothing
    /\ writes = [t \in Session |-> 0]
    /\ preview = [t \in Session |-> NoPreview]
    /\ op = [o \in Op |-> Unasked]
    /\ placed = [t \in Session |-> 0]
    /\ news = 0 /\ trouble = 0

-----------------------------------------------------------------------------
(* The daemon's projection                                                 *)

\* SNOOZE_HOLDS_SQL: no newer message, and the instant, if any, not reached.
Holds(t) == row[t].snooze.stands /\ row[t].snooze.until \in {"never", "ahead"}

Effective(t) ==
    IF row[t].state = "done" THEN "done"
    ELSE IF t \in active THEN "working" ELSE row[t].state

\* listCurrentSessionState: what has not aged out of the active window.
Visible ==
    {t \in Session : /\ Effective(t) # "done"
                    /\ \/ ~row[t].aged
                       \/ Effective(t) = "needs-you"
                       \/ t \in active
                       \/ Holds(t)
                       \/ row[t].snooze.until \in {"ahead", "recent"}}

\* arrangeSessionState: a child follows its parent, one level deeper.
Payload ==
    LET depth[t \in Session] == IF Parent[t] \in Visible THEN depth[Parent[t]] + 1 ELSE 0
        section[t \in Session] ==
            IF Parent[t] \in Visible THEN section[Parent[t]]
            ELSE IF Holds(t) THEN "snoozed" ELSE Effective(t)
    IN  [online |-> TRUE, rev |-> rev,
         rows |-> [t \in Visible |-> [section |-> section[t], depth |-> depth[t],
                                      title |-> row[t].title]]]

-----------------------------------------------------------------------------
(* What changes the projection                                             *)

\* The bus wakes the gateway, which writes a frame to every open stream.
Announce == rev' = rev + 1 /\ frame' = (stream # "off")

News == news < MaxNews /\ news' = news + 1

\* A scan finds a newer message, which ends Done and a snooze.
Message(t) ==
    /\ News /\ up
    /\ \E state \in {"needs-you", "working"} :
          row' = [row EXCEPT ![t].state = state, ![t].aged = FALSE, ![t].snooze.stands = FALSE]
    /\ Announce
    /\ UNCHANGED <<active, up, posts, stream, client, trouble>>

\* A scan finds the session quiet.
Quiet(t) ==
    /\ News /\ up /\ row[t].state \in {"needs-you", "working"}
    /\ row' = [row EXCEPT ![t].state = "idle"]
    /\ Announce
    /\ UNCHANGED <<active, up, posts, stream, client, trouble>>

\* A delegated run of the session starts or ends.
Delegate(t) ==
    /\ News /\ up
    /\ active' = IF t \in active THEN active \ {t} ELSE active \cup {t}
    /\ Announce
    /\ UNCHANGED <<row, up, posts, stream, client, trouble>>

\* Another client renames the session.
OtherRename(t) ==
    /\ News /\ up
    /\ \E title \in Title : row' = [row EXCEPT ![t].title = title]
    /\ Announce
    /\ UNCHANGED <<active, up, posts, stream, client, trouble>>

\* The clock writes nothing and announces nothing: it passes the end of a snooze,
\* the end of the window after it, or that of the session's last activity.
Passes(t) ==
    /\ News
    /\ \/ row[t].snooze.until = "ahead" /\ row' = [row EXCEPT ![t].snooze.until = "recent"]
       \/ row[t].snooze.until = "recent" /\ row' = [row EXCEPT ![t].snooze.until = "long ago"]
       \/ ~row[t].aged /\ row' = [row EXCEPT ![t].aged = TRUE]
    /\ UNCHANGED <<active, rev, up, posts, frame, stream, client, trouble>>

Trouble == trouble < MaxTrouble /\ trouble' = trouble + 1

Crash ==
    /\ Trouble /\ up
    /\ up' = FALSE /\ posts' = {} /\ stream' = "off" /\ frame' = FALSE
    /\ UNCHANGED <<row, active, rev, client, news>>

Start ==
    /\ ~up /\ up' = TRUE
    /\ UNCHANGED <<row, active, rev, posts, frame, stream, client, bounds>>

-----------------------------------------------------------------------------
(* The client's view of its last payload                                   *)

Ancestors(t, rows) ==
    LET up_[s \in Session] ==
            {s} \cup (IF Parent[s] \in DOMAIN rows THEN up_[Parent[s]] ELSE {})
    IN  up_[t]

\* buildSnapshot: a row with a write in flight is hidden with its subtree.
Shown == {t \in DOMAIN last.rows : \A s \in Ancestors(t, last.rows) : writes[s] = 0}

\* rebuild: a preview the daemon reports back is dropped.
Rebuilt(rows, previews) ==
    [t \in Session |-> IF t \in DOMAIN rows /\ previews[t].title = rows[t].title
                      THEN NoPreview ELSE previews[t]]

-----------------------------------------------------------------------------
(* refresh: one loop, which reads again when asked while it runs           *)

\* (mutant) a refresh that finds the loop running leaves it to its read
RefreshIgnored ==
    IF loop = "idle" THEN loop' = "asked" /\ UNCHANGED dirty ELSE UNCHANGED <<loop, dirty>>

Refresh ==
    IF loop = "idle" THEN loop' = "asked" /\ dirty' = FALSE ELSE dirty' = TRUE /\ UNCHANGED loop

\* (mutant) the loop's end resumes no waiter
EndsAlone ==
    /\ carried' = Nothing /\ dirty' = FALSE
    /\ loop' = IF dirty THEN "asked" ELSE "idle"
    /\ stream' = IF ~dirty /\ stream = "leading" THEN "reading" ELSE stream
    /\ UNCHANGED op

\* What a read's end does: another read, or the loop's end and its waiters' resumption.
Ends ==
    /\ carried' = Nothing /\ dirty' = FALSE
    /\ IF dirty
       THEN loop' = "asked" /\ UNCHANGED <<op, stream>>
       ELSE /\ loop' = "idle"
            /\ op' = [o \in Op |-> IF op[o].at = "waiting" THEN [op[o] EXCEPT !.at = "settling"]
                                   ELSE op[o]]
            /\ stream' = IF stream = "leading" THEN "reading" ELSE stream

\* The daemon answers /session-state.
Serve ==
    /\ loop = "asked" /\ up
    /\ loop' = "carried" /\ carried' = Payload
    /\ UNCHANGED <<daemon, posts, frame, stream, dirty, last, writes, preview, op, placed, bounds>>

Arrive ==
    /\ loop = "carried"
    /\ last' = carried /\ preview' = Rebuilt(carried.rows, preview)
    /\ Ends
    /\ UNCHANGED <<daemon, posts, frame, writes, placed, bounds>>

\* clearDisconnectedState: no daemon, or no answer in time.
Disconnect ==
    /\ loop # "idle"
    /\ IF up THEN Trouble ELSE UNCHANGED trouble
    /\ last' = Nothing /\ UNCHANGED preview
    /\ Ends
    /\ UNCHANGED <<daemon, posts, frame, writes, placed, news>>

\* The heartbeat. A tick into a running refresh only makes it read once more.
Poll ==
    /\ IF loop = "idle" THEN UNCHANGED trouble ELSE Trouble
    /\ Refresh
    /\ UNCHANGED <<daemon, posts, frame, stream, carried, last, writes, preview, op, placed, news>>

-----------------------------------------------------------------------------
(* startSSE                                                                *)

\* The daemon registers the stream, and frames wait in it;
Subscribe ==
    /\ stream = "off" /\ up
    /\ stream' = "open"
    /\ UNCHANGED <<daemon, posts, frame, client, bounds>>

\* the client refreshes before it reads, and between the frames it reads.
Reads ==
    /\ stream' = IF loop = "idle" THEN "leading" ELSE "reading"
    /\ Refresh
    /\ UNCHANGED <<daemon, posts, carried, last, writes, preview, op, placed, bounds>>

Connected == stream = "open" /\ Reads /\ UNCHANGED frame

Receive == stream = "reading" /\ frame /\ frame' = FALSE /\ Reads

Drop ==
    /\ Trouble /\ stream # "off"
    /\ stream' = "off" /\ frame' = FALSE
    /\ UNCHANGED <<daemon, posts, client, news>>

\* An action that is over is forgotten, but for a write the daemon has yet to handle.
Past == [Unasked EXCEPT !.at = "over"]
Over(o) == IF o \in posts THEN [op[o] EXCEPT !.at = "over"] ELSE Past

-----------------------------------------------------------------------------
(* The owner's actions                                                     *)

Hides(o) == op[o].does # "rename"

\* The row's menu: its section decides between snooze and wake; a child's row only renames.
Offers(t) ==
    {"rename"} \cup
    (IF last.rows[t].depth > 0 THEN {}
     ELSE {"done"} \cup (IF last.rows[t].section = "snoozed" THEN {"wake"} ELSE {"next", "until"}))

\* The title a row's editor starts from; leaving it as it was is no rename.
Titled(t) == IF preview[t].pending THEN preview[t].title ELSE last.rows[t].title

\* hideThenWrite and rename. A row that is fading out can be hit again.
Act(o) ==
    /\ op[o].at = "idle" /\ \A p \in 1 .. (o - 1) : op[p].at # "idle"
    /\ \E t \in DOMAIN last.rows, does \in {"done", "next", "until", "wake", "rename"},
          title \in Title \cup {Untitled} :
          /\ does \in Offers(t)
          /\ does # "rename" => title = Untitled
          /\ op' = [op EXCEPT ![o] = [at |-> "posting", does |-> does, thread |-> t,
                                      title |-> title, rev |-> 0]]
          /\ IF does = "rename"
             THEN /\ t \in Shown /\ title # Titled(t)
                  /\ preview' = Rebuilt(last.rows, [preview EXCEPT ![t] =
                                           [pending |-> TRUE, title |-> title]])
                  /\ UNCHANGED writes
             ELSE writes' = [writes EXCEPT ![t] = @ + 1] /\ UNCHANGED preview
    /\ posts' = IF up THEN posts \cup {o} ELSE posts
    /\ UNCHANGED <<daemon, frame, stream, loop, carried, dirty, last, placed, bounds>>

\* The watermark of a snooze is the newest message when the daemon handles the write.
Written(o) ==
    LET t == op[o].thread
    IN  CASE op[o].does = "done"   -> [row EXCEPT ![t].state = "done"]
          [] op[o].does = "next"   -> [row EXCEPT ![t].snooze = [until |-> "never", stands |-> TRUE]]
          [] op[o].does = "until"  -> [row EXCEPT ![t].snooze = [until |-> "ahead", stands |-> TRUE]]
          [] op[o].does = "wake"   -> [row EXCEPT ![t].snooze = NoSnooze]
          [] op[o].does = "rename" -> [row EXCEPT ![t].title = op[o].title]

\* /done, /snooze, /rename. The client may have given up; Done twice announces nothing.
Execute(o) ==
    /\ o \in posts /\ up
    /\ posts' = posts \ {o}
    /\ row' = Written(o)
    /\ IF op[o].does = "done" /\ row[op[o].thread].state = "done"
       THEN UNCHANGED <<rev, frame>> ELSE Announce
    /\ op' = IF op[o].at = "posting" THEN [op EXCEPT ![o].at = "answered", ![o].rev = rev']
             ELSE IF op[o].at = "over" THEN [op EXCEPT ![o] = Past] ELSE op
    /\ UNCHANGED <<active, up, stream, loop, carried, dirty, last, writes, preview, placed, bounds>>

\* snoozeThread: the instant passed before the daemon handled the write.
Refuse(o) ==
    /\ o \in posts /\ up /\ op[o].does = "until" /\ op[o].at = "posting"
    /\ Trouble
    /\ posts' = posts \ {o} /\ op' = [op EXCEPT ![o].at = "answered"]
    /\ UNCHANGED <<daemon, frame, stream, loop, carried, dirty, last, writes, preview, placed, news>>

\* (mutant) send waits for whatever read is in flight
RefetchesBlindly(o) ==
    /\ op' = [op EXCEPT ![o].at = "waiting"]
    /\ IF loop = "idle" THEN loop' = "asked" /\ dirty' = FALSE ELSE UNCHANGED <<loop, dirty>>

\* refetch: a read that starts after this call, and its end.
Refetches(o) ==
    /\ op' = [op EXCEPT ![o].at = "waiting"]
    /\ Refresh

\* A hidden row waits for a refetch, whether the write was applied or not.
Return(o) ==
    /\ Hides(o)
    /\ \/ op[o].at = "answered" /\ UNCHANGED trouble
       \/ op[o].at = "posting" /\ o \notin posts /\ UNCHANGED trouble
       \/ op[o].at \in {"posting", "answered"} /\ Trouble
    /\ Refetches(o)
    /\ UNCHANGED <<daemon, posts, frame, stream, carried, last, writes, preview, placed, news>>

\* (mutant) one write's end uncovers the row
Uncovered(t) == [writes EXCEPT ![t] = 0]

Settled(t) == [writes EXCEPT ![t] = @ - 1]

Settle(o) ==
    /\ op[o].at = "settling"
    /\ op' = [op EXCEPT ![o] = Over(o)]
    /\ writes' = Settled(op[o].thread)
    /\ preview' = Rebuilt(last.rows, preview)
    /\ placed' = IF op[o].rev > placed[op[o].thread]
                 THEN [placed EXCEPT ![op[o].thread] = op[o].rev] ELSE placed
    /\ UNCHANGED <<daemon, posts, frame, stream, loop, carried, dirty, last, bounds>>

\* postRename: a title that was stored is previewed until a read reports it,
Renamed(o) ==
    /\ op[o].at = "answered" /\ ~Hides(o)
    /\ op' = [op EXCEPT ![o] = Over(o)]
    /\ Refresh
    /\ UNCHANGED <<daemon, posts, frame, stream, carried, last, writes, preview, placed, bounds>>

\* one that was not is taken back, unless the owner has typed another since.
RenameFails(o) ==
    /\ ~Hides(o)
    /\ \/ op[o].at = "posting" /\ o \notin posts /\ UNCHANGED trouble
       \/ op[o].at \in {"posting", "answered"} /\ Trouble
    /\ op' = [op EXCEPT ![o] = Over(o)]
    /\ LET t == op[o].thread
           kept == IF preview[t].title = op[o].title THEN [preview EXCEPT ![t] = NoPreview] ELSE preview
       IN  preview' = Rebuilt(last.rows, kept)
    /\ UNCHANGED <<daemon, posts, frame, stream, loop, carried, dirty, last, writes, placed, news>>

-----------------------------------------------------------------------------
OwnerStep(o) == Execute(o) \/ Return(o) \/ Settle(o) \/ Renamed(o) \/ RenameFails(o)

PanelNext ==
    \/ \E t \in Session : Message(t) \/ Quiet(t) \/ Delegate(t) \/ OtherRename(t) \/ Passes(t)
    \/ Crash \/ Start
    \/ Serve \/ Arrive \/ Disconnect \/ Poll
    \/ Subscribe \/ Connected \/ Receive \/ Drop
    \/ \E o \in Op : Act(o) \/ Refuse(o) \/ OwnerStep(o)

PanelSpec == PanelInit /\ [][PanelNext]_panelVars

\* The heartbeat ticks; a read, and a write, is answered or fails.
FairSpec ==
    /\ PanelSpec
    /\ WF_panelVars(loop = "idle" /\ Poll)
    /\ WF_panelVars(Serve \/ Arrive \/ (~up /\ Disconnect))
    /\ \A o \in Op : WF_panelVars(OwnerStep(o))

-----------------------------------------------------------------------------
\* Safety. A row that is shown again after a write was read after the write: an owner never
\* sees the place it left come back (refetch's comment in DaemonClient.swift).
PlacedByTheDaemon == \A t \in Shown : last.rev >= placed[t]

\* Safety. A row stays hidden, with what was delegated from it, until the last of the
\* overlapping writes to it has settled (hide, send, buildSnapshot).
HiddenWhileWriting ==
    \A o \in Op : Hides(o) /\ op[o].at \in {"posting", "answered", "waiting", "settling"}
        => \A t \in Shown : op[o].thread \notin Ancestors(t, last.rows)

\* Safety. No row is shown where an action of the owner's has already taken it from.
ShownInPlace == PlacedByTheDaemon /\ HiddenWhileWriting

\* Safety. Once connected, a panel at rest shows what the daemon last announced, or a frame
\* that makes it read again is on its way: a frame that comes while a read is under way is
\* not lost with it (refreshDirty; the refresh of startSSE before its first frame).
ChangesAreSeen ==
    stream = "reading" /\ loop = "idle" /\ last.online /\ ~frame => last.rev = rev

\* Liveness. The panel ends with every row in the place the daemon gives it, whatever frames
\* were lost and even where nothing was announced, as when a timed snooze ends (the poll).
PanelCatchesUp ==
    <>[](/\ \A t \in Session : writes[t] = 0
         /\ IF up THEN last = Payload ELSE last = Nothing)
=============================================================================
