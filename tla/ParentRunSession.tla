--------------------------- MODULE ParentRunSession ---------------------------
(***************************************************************************)
(* How a parent conversation learns that its delegated children ended: the *)
(* Pi extension that opens a session over the Gateway, the session's view  *)
(* of its fleet, and the delivery of completions into Pi's transcript.     *)
(*                                                                         *)
(* Gateway events only say that something changed; a list is asked for and *)
(* answered later, and every one of those hops can be overtaken or lost.   *)
(* A reload of the extension starts a new session while an older one may   *)
(* still be starting; both then deliver into the one transcript.           *)
(*                                                                         *)
(* deliver() has no await and its continuations run before the next timer  *)
(* or answer, so a delivery is one step with the reconciliation behind it. *)
(***************************************************************************)
EXTENDS Integers, FiniteSets

CONSTANTS
    Child,
    Slots,          \* bound on sessions opened (model bound)
    MaxAttempts,    \* MAX_COMPLETION_DELIVERY_ATTEMPTS
    MaxControls,    \* bound on cancel, retry and resume requests (model bound)
    MaxFaults       \* bound on lost streams, failing lists, throwing sends (model bound)

ASSUME SessionAssumption ==
    /\ Slots \in Nat \ {0} /\ MaxAttempts \in Nat \ {0}
    /\ MaxControls \in Nat /\ MaxFaults \in Nat

VARIABLES
    outcome,    \* State: the rows of this parent
    copies,     \* transcript: persisted messages about each child
    waiting,    \* Pi: how often each message is in its follow-up queue
    queued,     \* queuedEventIdsByTranscript
    lost,       \* children whose queued message Pi dropped (for the properties)
    current,    \* the slot whose generation is the extension's, 0 for none
    session,    \* the ParentRunSession of each slot
    controls, faults

pi     == <<copies, waiting, queued, lost>>
counts == <<controls, faults>>
vars   == <<outcome, pi, current, session, counts>>

Slot    == 1..Slots
Status  == {"absent", "active", "completed", "failed"}
Ended   == {"completed", "failed"}      \* failed: every terminal status but completed
Fleet   == [Child -> Status]
Message == (SUBSET Child) \ {{}}         \* the children a message is about

\* A list in flight: asked, or answered with the rows as they were then.
NoList == [at |-> "none", rows |-> [c \in Child |-> "absent"]]
Asked  == [NoList EXCEPT !.at = "asked"]

Session == [phase    : {"unopened", "resolving", "waiting", "listing", "starting",
                        "open", "closing", "ended"},
            view     : Fleet,
            list     : [at : {"none", "asked", "answered"}, rows : Fleet],
            dirty    : BOOLEAN,
            settled  : SUBSET Child,
            attempts : [Child -> 0..MaxAttempts],
            batch    : SUBSET Child,        \* successBatch, its timer armed while not empty
            retry    : BOOLEAN,             \* completionRetryTimer is armed
            stream   : {"off", "connecting", "on"},
            event    : BOOLEAN,             \* an invalidation is on its way
            reply    : SUBSET (Child \X Status),    \* of a control, on its way
            missed   : BOOLEAN]             \* the last list failed (for the properties)

TypeOK ==
    /\ outcome \in Fleet
    /\ copies \in [Child -> Nat] /\ waiting \in [Message -> {0, 1}]
    /\ queued \subseteq Child /\ lost \subseteq Child
    /\ current \in 0..Slots
    /\ session \in [Slot -> Session]
    /\ controls \in 0..MaxControls /\ faults \in 0..MaxFaults

Blank(phase) ==
    [phase |-> phase, view |-> [c \in Child |-> "absent"], list |-> NoList,
     dirty |-> FALSE, settled |-> {}, attempts |-> [c \in Child |-> 0], batch |-> {},
     retry |-> FALSE, stream |-> "off", event |-> FALSE, reply |-> {}, missed |-> FALSE]

Init ==
    /\ outcome = [c \in Child |-> "absent"]
    /\ copies = [c \in Child |-> 0] /\ waiting = [m \in Message |-> 0]
    /\ queued = {} /\ lost = {}
    /\ current = 0
    /\ session = [g \in Slot |-> Blank("unopened")]
    /\ controls = 0 /\ faults = 0

Fault == faults < MaxFaults /\ faults' = faults + 1 /\ UNCHANGED controls

-----------------------------------------------------------------------------
(* The session: refetching, and reconciliation with a list.                *)

\* refresh: ask for a list, or mark the one in flight as too old.
Refreshed(s) ==
    IF s.list = NoList THEN [s EXCEPT !.list = Asked] ELSE [s EXCEPT !.dirty = TRUE]

\* The subscription's listener: an invalidation renews the retry budget.
Invalidated(s) ==
    Refreshed([s EXCEPT !.attempts = [c \in Child |-> 0], !.retry = FALSE])

\* acceptsTransition
Accepts(previous, incoming) == previous \in Ended => incoming = previous

Merged(view, rows) ==
    [c \in Child |-> IF rows[c] # "absent" /\ Accepts(view[c], rows[c])
                     THEN rows[c] ELSE view[c]]

\* A session is over once its phase is: nothing of it is used again.
Put(g, s) == session' = [session EXCEPT ![g] = IF s.phase = "ended" THEN Blank("ended") ELSE s]

\* (mutant) a session that was replaced while it was starting is adopted
IdleUnchecked(g, s) ==
    CASE s.phase = "starting" -> [s EXCEPT !.phase = "open"]
      [] s.phase = "closing"  -> [s EXCEPT !.phase = "ended"]
      [] OTHER                -> s

\* refresh ends: start() returns and the extension adopts the session if it is
\* still its own, or the awaited shutdown goes on.
Idle(g, s) ==
    CASE s.phase = "starting" -> [s EXCEPT !.phase = IF current = g THEN "open" ELSE "ended"]
      [] s.phase = "closing"  -> [s EXCEPT !.phase = "ended"]
      [] OTHER                -> s

\* The loop of refresh after a list: once more if an invalidation came meanwhile.
ListDone(g, s) ==
    IF s.dirty THEN [s EXCEPT !.dirty = FALSE, !.list = Asked]
               ELSE Idle(g, [s EXCEPT !.list = NoList])

\* The first list of start(): then the subscription, and a second list.
FirstListDone(s) ==
    [s EXCEPT !.phase = "starting", !.stream = "connecting", !.list = Asked]
-----------------------------------------------------------------------------
(* Delivery: PiParentCompletionAdapter.deliver and what dispatchCompletions *)
(* does with its result.                                                   *)

Persisted == {c \in Child : copies[c] > 0}

One(x, S) == IF x \in S THEN 1 ELSE 0

\* (mutant) a refused completion is counted, and no timer armed
RetriedLater(s, refused) ==
    [s EXCEPT !.attempts = [c \in Child |-> s.attempts[c] + One(c, refused)]]

\* scheduleCompletionRetry
Retried(s, refused) ==
    [s EXCEPT !.attempts = [c \in Child |-> s.attempts[c] + One(c, refused)],
              !.retry = @ \/ \E c \in refused : s.attempts[c] + 1 < MaxAttempts]

Confirmed(s, confirmed) ==
    [s EXCEPT !.settled = @ \cup confirmed,
              !.attempts = [c \in Child |-> IF c \in confirmed THEN 0 ELSE s.attempts[c]]]

\* (mutant) what Pi has queued but not persisted is sent again
FreshIgnoringQueue(E) == E \ Persisted

\* Neither in the transcript nor in Pi's queue.
Fresh(E) == (E \ Persisted) \ queued

\* Pi took the messages in `sent`, and those in `now` are in the transcript already.
\* A send may throw, also after Pi has persisted the message (`kept`): the children
\* it was for are refused.
Deliver(g, s, E, sent, now, kept, refused) ==
    LET confirmed == ((E \cap Persisted) \cup UNION now) \ refused IN
    /\ copies'  = [c \in Child |-> copies[c] + One(c, UNION (now \cup kept))]
    /\ waiting' = [m \in Message |-> waiting[m] + One(m, sent \ now)]
    /\ queued'  = (queued \ Persisted) \cup UNION (sent \ now)
    /\ lost'    = lost \ UNION (sent \cup kept)
    /\ Put(g, Retried(Confirmed(s, confirmed), refused))
    /\ IF refused = {} THEN UNCHANGED counts ELSE Fault

\* A batch is one message.
DeliverBatch(g, s, E) ==
    LET message == {Fresh(E)} \ {{}} IN
    \/ \E now \in SUBSET message : Deliver(g, s, E, message, now, {}, {})
    \/ message # {} /\ \E kept \in SUBSET message : Deliver(g, s, E, {}, {}, kept, E)

\* Failures go one by one, each with its own fate.
DeliverEach(g, s, E) ==
    LET messages == {{c} : c \in Fresh(E)} IN
    \E sent \in SUBSET messages : \E now \in SUBSET sent :
    \E kept \in SUBSET (messages \ sent) :
        Deliver(g, s, E, sent, now, kept, UNION (messages \ sent))

\* The children reconcileCompletions goes over.
Found(s) == {c \in Child : /\ s.view[c] \in Ended
                           /\ c \notin s.batch \cup s.settled
                           /\ s.attempts[c] < MaxAttempts}

\* What a list brings: s with the rows merged into its view, then reconcileCompletions.
\* (\E x \in {e} rather than LET: TLC evaluates e once.)
Reconcile(g, s) ==
    \E found \in {Found(s)} : \E success \in {{c \in found : s.view[c] = "completed"}} :
    \E batched \in {[s EXCEPT !.batch = @ \cup success]} :
        DeliverEach(g, batched, found \ success)

-----------------------------------------------------------------------------
(* Rows change in the daemon; sessions with a stream are told so.          *)

Announced == [g \in Slot |-> [session[g] EXCEPT !.event = @ \/ session[g].stream = "on"]]

Launch(c) ==
    /\ outcome[c] = "absent"
    /\ outcome' = [outcome EXCEPT ![c] = "active"]
    /\ session' = Announced
    /\ UNCHANGED <<pi, current, counts>>

Finish(c, status) ==
    /\ outcome[c] = "active"
    /\ outcome' = [outcome EXCEPT ![c] = status]
    /\ session' = Announced
    /\ UNCHANGED <<pi, current, counts>>

\* The session's controls: the daemon acts, and its reply carries one row.
Control(g, c, status) ==
    /\ session[g].phase = "open" /\ session[g].reply = {}
    /\ controls < MaxControls /\ controls' = controls + 1
    /\ outcome' = [outcome EXCEPT ![c] = status]
    /\ session' = [(IF status = outcome[c] THEN session ELSE Announced)
                      EXCEPT ![g].reply = {<<c, status>>}]
    /\ UNCHANGED <<pi, current, faults>>

\* A run that ended meanwhile is returned as it is; one whose turn takes too
\* long to abort is returned still active.
Cancel(g, c) ==
    /\ session[g].view[c] = "active"
    /\ Control(g, c, outcome[c]) \/ (outcome[c] = "active" /\ Control(g, c, "failed"))

\* retry and resume create a new row.
Continue(g, c, new) ==
    /\ session[g].view[c] \in Ended /\ outcome[new] = "absent"
    /\ Control(g, new, "active")

\* (mutant) the reply of a control replaces the row whatever it was
ReplyReplaces(g) ==
    /\ \E reply \in session[g].reply :
          Put(g, Refreshed([session[g] EXCEPT !.view[reply[1]] = reply[2], !.reply = {}]))
    /\ UNCHANGED <<outcome, pi, current, counts>>

\* reconcileOne, then refresh.
Reply(g) ==
    /\ \E reply \in session[g].reply :
          Put(g, Refreshed([session[g] EXCEPT
                    !.view[reply[1]] = IF Accepts(@, reply[2]) THEN reply[2] ELSE @,
                    !.reply = {}]))
    /\ UNCHANGED <<outcome, pi, current, counts>>
-----------------------------------------------------------------------------
(* The session over the Gateway.                                           *)

\* The daemon reads the rows; the answer is on its way.
Answer(g) ==
    /\ session[g].list = Asked
    /\ session' = [session EXCEPT ![g].list = [at |-> "answered", rows |-> outcome]]
    /\ UNCHANGED <<outcome, pi, current, counts>>

\* (mutant) invalidations that came during a list are forgotten
ReceiveOnce(g) ==
    /\ session[g].list.at = "answered"
    /\ \E s \in {[session[g] EXCEPT !.view = Merged(@, session[g].list.rows), !.missed = FALSE]} :
       \E done \in {IF s.phase = "listing" THEN FirstListDone(s)
                   ELSE ListDone(g, [s EXCEPT !.dirty = FALSE])} :
          Reconcile(g, done)
    /\ UNCHANGED <<outcome, current>>

Receive(g) ==
    /\ session[g].list.at = "answered"
    /\ \E s \in {[session[g] EXCEPT !.view = Merged(@, session[g].list.rows), !.missed = FALSE]} :
       \E done \in {IF s.phase = "listing" THEN FirstListDone(s) ELSE ListDone(g, s)} :
          Reconcile(g, done)
    /\ UNCHANGED <<outcome, current>>

\* The extension's catch: try again later, unless the session was replaced.
GivenUp(g) == Blank(IF current = g THEN "waiting" ELSE "ended")

\* A refresh only reports the error; the first list of start() throws it.
ListFails(g) ==
    /\ session[g].list # NoList /\ Fault
    /\ Put(g, IF session[g].phase = "listing" THEN GivenUp(g)
              ELSE ListDone(g, [session[g] EXCEPT !.missed = TRUE]))
    /\ UNCHANGED <<outcome, pi, current>>

\* (mutant) only events invalidate
ConnectSilently(g) ==
    /\ session[g].stream = "connecting"
    /\ Put(g, [session[g] EXCEPT !.stream = "on"])
    /\ UNCHANGED <<outcome, pi, current, counts>>

\* A first or a renewed connection invalidates: events may have been missed.
Connect(g) ==
    /\ session[g].stream = "connecting"
    /\ Put(g, Invalidated([session[g] EXCEPT !.stream = "on"]))
    /\ UNCHANGED <<outcome, pi, current, counts>>

StreamBreaks(g) ==
    /\ session[g].stream = "on" /\ Fault
    /\ Put(g, [session[g] EXCEPT !.stream = "connecting", !.event = FALSE])
    /\ UNCHANGED <<outcome, pi, current>>

Event(g) ==
    /\ session[g].event
    /\ Put(g, Invalidated([session[g] EXCEPT !.event = FALSE]))
    /\ UNCHANGED <<outcome, pi, current, counts>>

FlushBatch(g) ==
    /\ session[g].batch # {}
    /\ DeliverBatch(g, [session[g] EXCEPT !.batch = {}], session[g].batch)
    /\ UNCHANGED <<outcome, current>>

RetryDelivery(g) ==
    /\ session[g].retry
    /\ Put(g, Refreshed([session[g] EXCEPT !.retry = FALSE]))
    /\ UNCHANGED <<outcome, pi, current, counts>>

-----------------------------------------------------------------------------
(* The extension: one generation per session_start.                        *)

\* stopSession ends what the extension holds: an adopted session or a retry
\* timer. A session that is still starting is not held yet.
Stopped(s) == IF s.phase \in {"open", "waiting"} THEN Blank("ended") ELSE s

\* (mutant) the guard is kept by the session, not by the transcript
OpenForgetsQueue(g) ==
    /\ session[g].phase = "unopened" /\ \A h \in 1..(g - 1) : session[h].phase # "unopened"
    /\ \A h \in Slot : session[h].phase # "closing"
    /\ current' = g /\ queued' = {}
    /\ session' = [[h \in Slot |-> Stopped(session[h])] EXCEPT ![g] = Blank("resolving")]
    /\ UNCHANGED <<outcome, copies, waiting, lost, counts>>

Open(g) ==
    /\ session[g].phase = "unopened" /\ \A h \in 1..(g - 1) : session[h].phase # "unopened"
    /\ \A h \in Slot : session[h].phase # "closing"
    /\ current' = g
    /\ session' = [[h \in Slot |-> Stopped(session[h])] EXCEPT ![g] = Blank("resolving")]
    /\ UNCHANGED <<outcome, pi, counts>>

Resolve(g) ==
    /\ session[g].phase = "resolving"
    /\ Put(g, IF current = g THEN [Blank("listing") EXCEPT !.list = Asked]
              ELSE Blank("ended"))
    /\ UNCHANGED <<outcome, pi, current, counts>>

ResolveFails(g) ==
    /\ session[g].phase = "resolving" /\ Fault
    /\ Put(g, GivenUp(g))
    /\ UNCHANGED <<outcome, pi, current>>

RetryStart(g) ==
    /\ session[g].phase = "waiting"
    /\ Put(g, Blank("resolving"))
    /\ UNCHANGED <<outcome, pi, current, counts>>

\* session_shutdown waits for the refresh of the adopted session.
Shutdown ==
    /\ current # 0 /\ current' = 0
    /\ session' = [h \in Slot |->
          IF session[h].phase = "open" /\ session[h].list # NoList
          THEN [session[h] EXCEPT !.phase = "closing"] ELSE Stopped(session[h])]
    /\ UNCHANGED <<outcome, pi, counts>>

-----------------------------------------------------------------------------
(* Pi.                                                                     *)

\* A follow-up reaches the head of the queue and the transcript.
Persist(m) ==
    /\ waiting[m] > 0
    /\ waiting' = [waiting EXCEPT ![m] = @ - 1]
    /\ copies' = [c \in Child |-> copies[c] + One(c, m)]
    /\ UNCHANGED <<outcome, queued, lost, current, session, counts>>

Queue == {m \in Message : waiting[m] > 0}

\* agent_settled: nothing is queued any more.
AgentSettled ==
    /\ Queue = {}
    /\ queued # {} /\ queued' = {}
    /\ UNCHANGED <<outcome, copies, waiting, lost, current, session, counts>>

\* The queue is dropped, and Pi settles without having persisted it.
QueueDropped ==
    /\ Queue # {} /\ Fault
    /\ lost' = lost \cup UNION Queue
    /\ waiting' = [m \in Message |-> 0] /\ queued' = {}
    /\ UNCHANGED <<outcome, copies, current, session>>

\* The process ends; the transcript remains.
Quit ==
    /\ \E g \in Slot : session[g].phase \notin {"unopened", "ended"}
    /\ current' = 0
    /\ session' = [g \in Slot |-> IF session[g].phase = "unopened" THEN session[g]
                                  ELSE Blank("ended")]
    /\ waiting' = [m \in Message |-> 0] /\ queued' = {}
    /\ UNCHANGED <<outcome, copies, lost, counts>>

-----------------------------------------------------------------------------
Next ==
    \/ \E c \in Child : Launch(c) \/ \E status \in Ended : Finish(c, status)
    \/ \E m \in Message : Persist(m)
    \/ \E g \in Slot : \/ \E c \in Child : \/ Cancel(g, c)
                                           \/ \E new \in Child : Continue(g, c, new)
                       \/ Reply(g) \/ Answer(g) \/ Receive(g) \/ ListFails(g)
                       \/ Connect(g) \/ StreamBreaks(g) \/ Event(g)
                       \/ FlushBatch(g) \/ RetryDelivery(g)
                       \/ Open(g) \/ Resolve(g) \/ ResolveFails(g) \/ RetryStart(g)
    \/ Shutdown \/ AgentSettled \/ QueueDropped \/ Quit

Spec == Init /\ [][Next]_vars

\* What a session waits for: an answer, a timer, its stream.
Work(g) == \/ Event(g) \/ Connect(g) \/ Answer(g) \/ RetryDelivery(g) \/ Resolve(g)
           \/ RetryStart(g) \/ FlushBatch(g) \/ Receive(g)

\* Work goes on while there is any, in whatever order: the Gateway answers, timers
\* fire, the stream reconnects, Pi drains its queue.
Fairness == WF_vars((\E g \in Slot : Work(g)) \/ (\E m \in Message : Persist(m)))

FairSpec == Spec /\ Fairness
-----------------------------------------------------------------------------
(* Properties.                                                             *)

\* What the parent is promised: the transcript is told of a child only after it
\* ended, and once, over reloads, overlapping sessions, throwing sends, a queue
\* that was dropped, and a process that quits and reopens.
Promise == INSTANCE CompletionDelivery WITH
    finished <- {c \in Child : outcome[c] \in Ended}, told <- copies

ToldOnce == Promise!Spec

\* A session never shows an ended child as anything else, whichever of a list, a
\* reply and a later list arrives first.
ViewNeverRegresses ==
    [][\A g \in Slot : \A c \in Child :
          (session[g].view[c] \in Ended /\ session'[g].phase \notin {"ended", "waiting"})
              => session'[g].view[c] = session[g].view[c]]_vars

\* The session of a conversation that stays open.
Live == current # 0 /\ session[current].phase = "open"

\* A child whose completion the conversation has still to hear of, and for which
\* the session has not run out of attempts, lost its last list, or lost its
\* message in Pi: after those only an invalidation or a reopening helps.
Untold(c) ==
    /\ outcome[c] \in Ended /\ copies[c] = 0 /\ c \notin lost
    /\ session[current].attempts[c] < MaxAttempts /\ ~session[current].missed

\* Every completion reaches an open conversation, also one that ended while it
\* was closed, between two lists, or while a send was refused.
CompletionsArrive == \A c \in Child : []<>~(Live /\ Untold(c))

\* The view catches up with the rows once they stop changing: no event falls
\* between a list and the next, or between a list and the subscription.
ViewCatchesUp ==
    []<>~(Live /\ ~session[current].missed /\ session[current].view # outcome)

\* A session that was replaced while it was starting goes away.
ReplacedSessionsEnd ==
    \A g \in Slot : session[g].phase # "unopened" /\ current # g ~> session[g].phase = "ended"

\* An open conversation hears of every completion and shows every row as it is,
\* and what it replaced does not linger beside it.
SessionsCatchUp == CompletionsArrive /\ ViewCatchesUp /\ ReplacedSessionsEnd
=============================================================================
