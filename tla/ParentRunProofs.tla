---------------------------- MODULE ParentRunProofs ----------------------------
(***************************************************************************)
(* Proofs about ParentRunSession, for every value of its constants: its    *)
(* types, that it implements CompletionDelivery, and that a view never     *)
(* regresses.                                                              *)
(*                                                                         *)
(* Three facts carry the argument. What a session has heard of an ended    *)
(* child is true (Sane). What waits in Pi's queue is new to the transcript *)
(* and guarded by `queued`, each child in one message (QueueSound). And a  *)
(* message is only about children that are neither persisted nor guarded.  *)
(***************************************************************************)
EXTENDS ParentRunSession, TLAPS

Over == {c \in Child : outcome[c] \in Ended}

\* A session in itself: its type; a batched completion has attempts left; and every
\* end it has heard of, in a list, a reply or its view, has happened.
Sane(s, over) ==
    /\ s \in Session
    /\ \A c \in s.batch : s.attempts[c] < MaxAttempts /\ c \in over
    /\ \A c \in Child : s.view[c] \in Ended => c \in over
    /\ \A c \in Child : s.list.rows[c] \in Ended => c \in over
    /\ \A r \in s.reply : r[2] \in Ended => r[1] \in over

Sessions ==
    /\ session \in [Slot -> Session]
    /\ \A g \in Slot : Sane(session[g], Over)

Rest ==
    /\ outcome \in Fleet
    /\ lost \subseteq Child
    /\ current \in 0..Slots
    /\ controls \in 0..MaxControls /\ faults \in 0..MaxFaults

QueueSound ==
    /\ copies \in [Child -> {0, 1}] /\ waiting \in [Message -> {0, 1}]
    /\ queued \subseteq Child
    /\ Persisted \subseteq Over
    /\ \A m \in Message : waiting[m] = 1 => m \subseteq (queued \cap Over) \ Persisted
    /\ \A m, n \in Message : waiting[m] = 1 /\ waiting[n] = 1 /\ m # n => m \cap n = {}

Inv == Rest /\ Sessions /\ QueueSound

\* The transcript is told of the children in S, all new to it and ended.
Tells(S) ==
    /\ S \subseteq Over \ Persisted
    /\ copies' = [c \in Child |-> IF c \in S THEN 1 ELSE copies[c]]

-----------------------------------------------------------------------------
(* The session's operators.                                                *)

LEMMA BlankIsSane ==
    ASSUME NEW over, NEW p \in {"unopened", "resolving", "waiting", "listing", "ended"}
    PROVE  Sane(Blank(p), over)
  BY SessionAssumption DEF Sane, Blank, Session, Fleet, Status, Ended, NoList

\* The first list of start.
LEMMA ListingIsSane ==
    ASSUME NEW over
    PROVE  Sane([Blank("listing") EXCEPT !.list = Asked], over)
  <1>1. Sane(Blank("listing"), over)
    BY BlankIsSane
  <1>2. ASSUME NEW s, Sane(s, over) PROVE Sane([s EXCEPT !.list = Asked], over)
    BY <1>2 DEF Sane, Session, Fleet, Status, Ended, NoList, Asked
  <1> QED BY <1>1, <1>2

LEMMA SaneGrows ==
    ASSUME NEW s, NEW over, NEW more, Sane(s, over), over \subseteq more
    PROVE  Sane(s, more)
  BY DEF Sane

LEMMA RefreshedIsSane ==
    ASSUME NEW s, NEW over, Sane(s, over)
    PROVE  Sane(Refreshed(s), over)
  <1>1. CASE s.list = NoList
    BY <1>1 DEF Refreshed, Sane, Session, Fleet, Status, Ended, NoList, Asked
  <1>2. CASE s.list # NoList
    BY <1>2 DEF Refreshed, Sane, Session
  <1> QED BY <1>1, <1>2

LEMMA InvalidatedIsSane ==
    ASSUME NEW s, NEW over, Sane(s, over)
    PROVE  Sane(Invalidated(s), over)
  <1> DEFINE t == [s EXCEPT !.attempts = [c \in Child |-> 0], !.retry = FALSE]
  <1>1. Sane(t, over)
    <2> DEFINE none == [c \in Child |-> 0]
    <2>1. none \in [Child -> 0..MaxAttempts] /\ \A c \in Child : none[c] < MaxAttempts
      BY SessionAssumption
    <2> HIDE DEF none
    <2>2. Sane([s EXCEPT !.attempts = none, !.retry = FALSE], over)
      BY <2>1 DEF Sane, Session
    <2> QED BY <2>2 DEF none
  <1>2. Invalidated(s) = Refreshed(t)
    BY DEF Invalidated
  <1> HIDE DEF t
  <1> QED BY <1>1, <1>2, RefreshedIsSane

LEMMA IdleIsSane ==
    ASSUME NEW s, NEW over, NEW g \in Slot, Sane(s, over)
    PROVE  Sane(Idle(g, s), over)
  <1>1. CASE s.phase = "starting"
    BY <1>1 DEF Idle, Sane, Session
  <1>2. CASE s.phase = "closing"
    BY <1>2 DEF Idle, Sane, Session
  <1>3. CASE s.phase # "starting" /\ s.phase # "closing"
    <2>1. Idle(g, s) = s  BY <1>3 DEF Idle
    <2> QED BY <2>1
  <1> QED BY <1>1, <1>2, <1>3

LEMMA ListDoneIsSane ==
    ASSUME NEW s, NEW over, NEW g \in Slot, Sane(s, over)
    PROVE  Sane(ListDone(g, s), over)
  <1>1. CASE s.dirty
    BY <1>1 DEF ListDone, Sane, Session, Fleet, Status, Ended, NoList, Asked
  <1>2. CASE ~s.dirty
    <2> DEFINE t == [s EXCEPT !.list = NoList]
    <2>1. Sane(t, over)
      BY DEF Sane, Session, Fleet, Status, Ended, NoList
    <2>2. ListDone(g, s) = Idle(g, t)
      BY <1>2 DEF ListDone
    <2> HIDE DEF t
    <2> QED BY <2>1, <2>2, IdleIsSane
  <1> QED BY <1>1, <1>2

LEMMA FirstListDoneIsSane ==
    ASSUME NEW s, NEW over, Sane(s, over)
    PROVE  Sane(FirstListDone(s), over)
  BY DEF FirstListDone, Sane, Session, Fleet, Status, Ended, NoList, Asked

\* What a list or the reply of a control brings is as true as the list or the reply.
LEMMA ReceivedIsSane ==
    ASSUME NEW s, NEW over, Sane(s, over)
    PROVE  Sane([s EXCEPT !.view = Merged(@, s.list.rows), !.missed = FALSE], over)
  BY DEF Sane, Session, Merged, Fleet, Status, Ended

LEMMA RepliedIsSane ==
    ASSUME NEW s, NEW over, Sane(s, over), NEW r \in s.reply
    PROVE  Sane([s EXCEPT !.view[r[1]] = IF Accepts(@, r[2]) THEN r[2] ELSE @, !.reply = {}],
                over)
<1> DEFINE v == [s.view EXCEPT ![r[1]] = IF Accepts(@, r[2]) THEN r[2] ELSE @]
           t == [s EXCEPT !.view = v, !.reply = {}]
<1>1. s \in Session /\ r[1] \in Child /\ r[2] \in Status
  BY DEF Sane, Session
<1>2. s.view \in Fleet
  BY <1>1 DEF Session
<1>3. v \in Fleet
  BY <1>1, <1>2 DEF Fleet
<1>4. \A c \in Child : v[c] \in Ended => c \in over
  <2>1. r[2] \in Ended => r[1] \in over
    BY DEF Sane
  <2>2. \A c \in Child : s.view[c] \in Ended => c \in over
    BY DEF Sane
  <2> QED BY <1>2, <2>1, <2>2 DEF Fleet
<1> HIDE DEF v
<1>5. t \in Session
  BY <1>1, <1>3 DEF Session
<1>6. /\ t.batch = s.batch /\ t.attempts = s.attempts /\ t.view = v
      /\ t.list = s.list /\ t.reply = {}
  BY <1>1 DEF Session
<1> HIDE DEF t
<1>7. Sane(t, over)
  BY <1>4, <1>5, <1>6 DEF Sane
<1>8. t = [s EXCEPT !.view[r[1]] = IF Accepts(@, r[2]) THEN r[2] ELSE @, !.reply = {}]
  BY <1>1 DEF t, v, Session
<1> QED BY <1>7, <1>8

\* A result of deliver: only completions with attempts left are refused.
LEMMA ResultIsSane ==
    ASSUME NEW s, NEW over, Sane(s, over),
           NEW confirmed \in SUBSET Child, NEW refused \in SUBSET Child,
           \A c \in refused : s.attempts[c] < MaxAttempts /\ c \notin s.batch
    PROVE  Sane(Retried(Confirmed(s, confirmed), refused), over)
  <1>0. s \in Session /\ s.attempts \in [Child -> 0..MaxAttempts] /\ s.batch \subseteq Child
    BY DEF Sane, Session
  <1> DEFINE settled == [c \in Child |-> IF c \in confirmed THEN 0 ELSE s.attempts[c]]
             t       == Confirmed(s, confirmed)
  <1>1. /\ settled \in [Child -> 0..MaxAttempts]
        /\ \A c \in Child : s.attempts[c] < MaxAttempts => settled[c] < MaxAttempts
    BY <1>0, SessionAssumption
  <1>2. t = [s EXCEPT !.settled = @ \cup confirmed, !.attempts = settled]
    BY DEF Confirmed
  <1> HIDE DEF settled, t
  <1>3. Sane(t, over) /\ t.attempts = settled /\ t.batch = s.batch
    BY <1>0, <1>1, <1>2 DEF Sane, Session
  <1> DEFINE counted == [c \in Child |-> t.attempts[c] + One(c, refused)]
             armed   == t.retry \/ \E c \in refused : t.attempts[c] + 1 < MaxAttempts
  <1>4. /\ counted \in [Child -> 0..MaxAttempts]
        /\ \A c \in s.batch : counted[c] = settled[c]
    BY <1>0, <1>1, <1>3, SessionAssumption DEF One
  <1>5. Retried(t, refused) = [t EXCEPT !.attempts = counted, !.retry = armed]
    BY DEF Retried
  <1>6. armed \in BOOLEAN
    BY <1>3 DEF Sane, Session
  <1> HIDE DEF counted, armed
  <1>7. Sane([t EXCEPT !.attempts = counted, !.retry = armed], over)
    BY <1>0, <1>1, <1>3, <1>4, <1>6 DEF Sane, Session
  <1> QED BY <1>5, <1>7 DEF t

\* Storing a sane session, possibly as a session that is over.
LEMMA PutIsSane ==
    ASSUME Sessions, NEW g \in Slot, NEW s, Sane(s, Over), Put(g, s), outcome' = outcome
    PROVE  Sessions'
  <1> DEFINE t == IF s.phase = "ended" THEN Blank("ended") ELSE s
  <1>1. Sane(t, Over)
    BY BlankIsSane
  <1>2. session' = [session EXCEPT ![g] = t]
    BY DEF Put
  <1>3. Over' = Over
    BY DEF Over
  <1> HIDE DEF t
  <1>4. t \in Session
    BY <1>1 DEF Sane
  <1>5. session' \in [Slot -> Session]
    BY <1>2, <1>4 DEF Sessions
  <1>6. ASSUME NEW h \in Slot PROVE Sane(session'[h], Over)
    <2>1. session'[h] = IF h = g THEN t ELSE session[h]
      BY <1>2 DEF Sessions
    <2> QED BY <2>1, <1>1 DEF Sessions
  <1>7. ASSUME NEW h \in Slot PROVE Sane(session'[h], Over')
    BY <1>6, <1>3
  <1> QED BY <1>5, <1>7 DEF Sessions

-----------------------------------------------------------------------------
(* Deliveries.                                                             *)

\* Messages that deliver may send of the completions E: new to the transcript and
\* to the queue, and each child in one of them.
MessagesOf(E) ==
    {ms \in SUBSET Message : /\ \A m \in ms : m \subseteq Fresh(E)
                             /\ \A m, n \in ms : m # n => m \cap n = {}}

LEMMA DeliveredIsSane ==
    ASSUME Sessions, outcome' = outcome, NEW g \in Slot, NEW s, Sane(s, Over),
           NEW E \in SUBSET Child, NEW sent, NEW now \in SUBSET Message, NEW kept,
           NEW refused \in SUBSET Child,
           \A c \in refused : s.attempts[c] < MaxAttempts /\ c \notin s.batch,
           Deliver(g, s, E, sent, now, kept, refused)
    PROVE  Sessions'
  <1> DEFINE confirmed == ((E \cap Persisted) \cup UNION now) \ refused
             t         == Retried(Confirmed(s, confirmed), refused)
  <1>1. confirmed \in SUBSET Child
    BY DEF Message
  <1>2. Put(g, t)
    BY DEF Deliver
  <1> HIDE DEF confirmed
  <1>3. Sane(t, Over)
    BY <1>1, ResultIsSane
  <1> HIDE DEF t
  <1> QED BY <1>2, <1>3, PutIsSane

LEMMA DeliveredIsTold ==
    ASSUME QueueSound, outcome' = outcome, NEW g, NEW s, NEW refused,
           NEW E \in SUBSET Over, NEW ms \in MessagesOf(E),
           NEW sent \in SUBSET ms, NEW now \in SUBSET sent, NEW kept \in SUBSET (ms \ sent),
           Deliver(g, s, E, sent, now, kept, refused)
    PROVE  QueueSound' /\ Tells(UNION (now \cup kept))
  <1> DEFINE T == UNION (now \cup kept)
             Q == sent \ now
  <1>1. /\ copies'  = [c \in Child |-> copies[c] + One(c, T)]
        /\ waiting' = [m \in Message |-> waiting[m] + One(m, Q)]
        /\ queued'  = (queued \ Persisted) \cup UNION Q
    BY DEF Deliver
  <1>2. Over' = Over /\ Over \subseteq Child
    BY DEF Over
  <1>3. T \subseteq Fresh(E) /\ UNION Q \subseteq Fresh(E) /\ T \cap UNION Q = {}
    BY DEF MessagesOf
  <1>4. Fresh(E) \subseteq Over /\ Fresh(E) \cap Persisted = {} /\ Fresh(E) \cap queued = {}
    BY DEF Fresh
  <1>5. \A m \in Q : m \in Message /\ m # {} /\ m \subseteq UNION Q
    BY DEF MessagesOf, Message
  <1>6. \A m, n \in Q : m # n => m \cap n = {}
    BY DEF MessagesOf
  <1> HIDE DEF T, Q
  <1>7. copies' \in [Child -> {0, 1}] /\ Persisted' = Persisted \cup T /\ Tells(T)
    <2>1. \A c \in T : c \in Child /\ copies[c] = 0
      BY <1>2, <1>3, <1>4 DEF Persisted, QueueSound
    <2>2. \A c \in Child : copies'[c] = IF c \in T THEN 1 ELSE copies[c]
      BY <1>1, <2>1 DEF One, QueueSound
    <2>3. copies' = [c \in Child |-> IF c \in T THEN 1 ELSE copies[c]]
      BY <1>1, <2>2
    <2>4. copies' \in [Child -> {0, 1}]
      BY <2>3 DEF QueueSound
    <2>5. Persisted' = Persisted \cup T
      BY <2>1, <2>2, <2>4 DEF Persisted, QueueSound
    <2>6. Tells(T)
      BY <2>3, <1>3, <1>4 DEF Tells
    <2> QED BY <2>4, <2>5, <2>6
  <1>8. \A m \in Message : /\ waiting[m] = 1 => m \notin Q
                           /\ waiting'[m] = IF m \in Q THEN 1 ELSE waiting[m]
    <2> SUFFICES ASSUME NEW m \in Message
                 PROVE  /\ waiting[m] = 1 => m \notin Q
                        /\ waiting'[m] = IF m \in Q THEN 1 ELSE waiting[m]
      OBVIOUS
    <2>1. waiting[m] = 1 => m \notin Q
      BY <1>3, <1>4, <1>5 DEF QueueSound
    <2> QED BY <2>1, <1>1 DEF One, QueueSound
  <1>9. waiting' \in [Message -> {0, 1}]
    <2>1. \A m \in Message : waiting[m] \in {0, 1}
      BY DEF QueueSound
    <2>2. \A m \in Message : waiting'[m] \in {0, 1}
      BY <1>8, <2>1
    <2>3. waiting' = [m \in Message |-> waiting'[m]]
      BY <1>1
    <2> QED BY <2>2, <2>3
  <1>10. queued' \subseteq Child
    BY <1>1, <1>2, <1>3, <1>4 DEF QueueSound
  <1>11. Persisted' \subseteq Over
    BY <1>7, <1>3, <1>4 DEF QueueSound
  <1>12. ASSUME NEW m \in Message, waiting'[m] = 1
         PROVE  m \subseteq (queued' \cap Over) \ Persisted'
    <2>1. CASE m \in Q
      BY <2>1, <1>1, <1>3, <1>4, <1>5, <1>7
    <2>2. CASE m \notin Q
      <3>1. m \subseteq (queued \cap Over) \ Persisted
        <4>1. waiting[m] = 1  BY ONLY <2>2, <1>8, <1>12
        <4> QED BY <4>1 DEF QueueSound
      <3> QED BY <3>1, <1>1, <1>3, <1>4, <1>7
    <2> QED BY <2>1, <2>2
  <1>13. ASSUME NEW m \in Message, NEW n \in Message, waiting'[m] = 1, waiting'[n] = 1, m # n
         PROVE  m \cap n = {}
    <2>1. \A q \in Message : waiting[q] = 1 => q \cap UNION Q = {}
      BY <1>3, <1>4 DEF QueueSound
    <2>2. \A q \in {m, n} : q \in Q \/ waiting[q] = 1
      <3> SUFFICES ASSUME NEW q \in Message, waiting'[q] = 1
                   PROVE  q \in Q \/ waiting[q] = 1
        BY <1>13
      <3>1. waiting'[q] = IF q \in Q THEN 1 ELSE waiting[q]
        BY <1>8
      <3> QED BY <3>1
    <2>3. waiting[m] = 1 /\ waiting[n] = 1 => m \cap n = {}
      BY <1>13 DEF QueueSound
    <2> QED BY <2>1, <2>2, <2>3, <1>5, <1>6, <1>13
  <1> QED BY <1>2, <1>7, <1>9, <1>10, <1>11, <1>12, <1>13 DEF QueueSound, T

\* The two ways to deliver send messages that may be sent.
LEMMA BatchIsDelivered ==
    ASSUME Sessions, QueueSound, outcome' = outcome, NEW g \in Slot, NEW s, Sane(s, Over),
           NEW E \in SUBSET Over, \A c \in E : s.attempts[c] < MaxAttempts /\ c \notin s.batch,
           DeliverBatch(g, s, E)
    PROVE  Sessions' /\ QueueSound' /\ \E S \in SUBSET Child : Tells(S)
  <1> DEFINE ms == {Fresh(E)} \ {{}}
  <1>1. ms \in MessagesOf(E) /\ E \subseteq Child
    BY DEF MessagesOf, Message, Fresh, Over
  <1> HIDE DEF ms
  <1>2. ASSUME NEW sent \in SUBSET ms, NEW now \in SUBSET sent, NEW kept \in SUBSET (ms \ sent),
               NEW refused \in SUBSET E, Deliver(g, s, E, sent, now, kept, refused)
        PROVE  Sessions' /\ QueueSound' /\ \E S \in SUBSET Child : Tells(S)
    <2>1. now \in SUBSET Message /\ UNION (now \cup kept) \subseteq Child
      BY <1>1 DEF MessagesOf, Message
    <2>2. Sessions'
      BY <1>1, <1>2, <2>1, DeliveredIsSane
    <2>3. QueueSound' /\ Tells(UNION (now \cup kept))
      BY <1>1, <1>2, DeliveredIsTold
    <2> QED BY <2>1, <2>2, <2>3
  <1>3. \/ \E now \in SUBSET ms : Deliver(g, s, E, ms, now, {}, {})
        \/ \E kept \in SUBSET ms : Deliver(g, s, E, {}, {}, kept, E)
    BY DEF DeliverBatch, ms
  <1>4. CASE \E now \in SUBSET ms : Deliver(g, s, E, ms, now, {}, {})
    <2>1. PICK now \in SUBSET ms : Deliver(g, s, E, ms, now, {}, {})
      BY <1>4
    <2>2. ms \in SUBSET ms /\ {} \in SUBSET (ms \ ms) /\ {} \in SUBSET E
      OBVIOUS
    <2> QED BY <2>1, <2>2, <1>2
  <1>5. CASE \E kept \in SUBSET ms : Deliver(g, s, E, {}, {}, kept, E)
    <2>1. PICK kept \in SUBSET ms : Deliver(g, s, E, {}, {}, kept, E)
      BY <1>5
    <2>2. {} \in SUBSET ms /\ {} \in SUBSET {} /\ kept \in SUBSET (ms \ {}) /\ E \in SUBSET E
      OBVIOUS
    <2> QED BY <2>1, <2>2, <1>2
  <1> QED BY <1>3, <1>4, <1>5

LEMMA EachIsDelivered ==
    ASSUME Sessions, QueueSound, outcome' = outcome, NEW g \in Slot, NEW s, Sane(s, Over),
           NEW E \in SUBSET Over, \A c \in E : s.attempts[c] < MaxAttempts /\ c \notin s.batch,
           DeliverEach(g, s, E)
    PROVE  Sessions' /\ QueueSound' /\ \E S \in SUBSET Child : Tells(S)
  <1> DEFINE ms == {{c} : c \in Fresh(E)}
  <1>1. ms \in MessagesOf(E) /\ E \subseteq Child /\ UNION ms \subseteq E
    BY DEF MessagesOf, Message, Fresh, Over
  <1>0. \E sent \in SUBSET ms : \E now \in SUBSET sent : \E kept \in SUBSET (ms \ sent) :
            Deliver(g, s, E, sent, now, kept, UNION (ms \ sent))
    BY DEF DeliverEach
  <1> HIDE DEF ms
  <1>2. PICK sent \in SUBSET ms : \E now \in SUBSET sent : \E kept \in SUBSET (ms \ sent) :
            Deliver(g, s, E, sent, now, kept, UNION (ms \ sent))
    BY <1>0
  <1>21. PICK now \in SUBSET sent, kept \in SUBSET (ms \ sent) :
            Deliver(g, s, E, sent, now, kept, UNION (ms \ sent))
    BY <1>2
  <1>3. now \in SUBSET Message /\ UNION (now \cup kept) \subseteq Child
    BY <1>1 DEF MessagesOf, Message
  <1>4. UNION (ms \ sent) \in SUBSET Child /\ UNION (ms \ sent) \subseteq E
    BY <1>1
  <1>5. Sessions'
    BY <1>1, <1>21, <1>3, <1>4, DeliveredIsSane
  <1>6. QueueSound' /\ Tells(UNION (now \cup kept))
    BY <1>1, <1>21, DeliveredIsTold
  <1> QED BY <1>3, <1>5, <1>6

-----------------------------------------------------------------------------
(* Steps: each keeps the invariant, and is a step of the promise.          *)

Finishes == UNCHANGED copies /\ \E c \in Child \ Over : Over' = Over \cup {c}

Refines == UNCHANGED <<Over, copies>> \/ Finishes \/ (UNCHANGED Over /\ \E S \in SUBSET Child : Tells(S))

LEMMA AnnouncedIsSane ==
    ASSUME Sessions
    PROVE  Announced \in [Slot -> Session] /\ \A g \in Slot : Sane(Announced[g], Over)
  <1>1. ASSUME NEW g \in Slot
        PROVE  Sane([session[g] EXCEPT !.event = @ \/ session[g].stream = "on"], Over)
    <2> DEFINE s == session[g]
    <2>1. Sane(s, Over)  BY DEF Sessions
    <2> HIDE DEF s
    <2> DEFINE b == s.event \/ s.stream = "on"
    <2>2. b \in BOOLEAN  BY <2>1 DEF Sane, Session
    <2> HIDE DEF b
    <2>3. Sane([s EXCEPT !.event = b], Over)
      BY <2>1, <2>2 DEF Sane, Session
    <2> QED BY <2>3 DEF s, b
  <1> QED BY <1>1 DEF Announced, Sane

\* A row was created or ended, and the sessions may have been told.
LEMMA RowChangeIsSound ==
    ASSUME Inv, NEW c \in Child, NEW status \in Status,
           outcome' = [outcome EXCEPT ![c] = status], outcome[c] \in Ended => status = outcome[c],
           UNCHANGED <<pi, current, faults>>, controls' \in 0..MaxControls,
           session' \in [Slot -> Session], \A g \in Slot : Sane(session'[g], Over')
    PROVE  Inv' /\ Refines
  <1>1. outcome' \in Fleet /\ Over \subseteq Over'
    BY DEF Inv, Rest, Fleet, Over
  <1>2. Over' = Over \/ (c \notin Over /\ Over' = Over \cup {c})
    BY DEF Inv, Rest, Fleet, Over
  <1>3. Rest' /\ Sessions'
    BY <1>1 DEF Inv, Rest, Sessions, pi
  <1>4. QueueSound'
    <2>1. copies' = copies /\ waiting' = waiting /\ queued' = queued /\ Persisted' = Persisted
      BY DEF pi, Persisted
    <2> QED BY <2>1, <1>1 DEF Inv, QueueSound
  <1>5. Refines
    BY <1>2 DEF Refines, Finishes, pi
  <1> QED BY <1>3, <1>4, <1>5 DEF Inv

LEMMA LaunchAndFinishAreSound ==
    ASSUME Inv, NEW c \in Child, Launch(c) \/ \E status \in Ended : Finish(c, status)
    PROVE  Inv' /\ Refines
  <1>1. PICK status \in Status : /\ outcome' = [outcome EXCEPT ![c] = status]
                                /\ outcome[c] \notin Ended
    BY DEF Launch, Finish, Status, Ended
  <1>2. session' = Announced /\ UNCHANGED <<pi, current, counts>>
    BY DEF Launch, Finish
  <1>3. Over \subseteq Over'
    BY <1>1 DEF Over, Inv, Rest, Fleet
  <1>4. session' \in [Slot -> Session] /\ \A g \in Slot : Sane(session'[g], Over')
    BY <1>2, <1>3, AnnouncedIsSane, SaneGrows DEF Inv
  <1> QED BY <1>1, <1>2, <1>4, RowChangeIsSound DEF counts, Inv, Rest

LEMMA ControlIsSound ==
    ASSUME Inv, NEW g \in Slot, NEW c \in Child, NEW status \in Status, Control(g, c, status),
           outcome[c] \in Ended => status = outcome[c]
    PROVE  Inv' /\ Refines
  <1> DEFINE told == IF status = outcome[c] THEN session ELSE Announced
  <1>1. told \in [Slot -> Session] /\ \A h \in Slot : Sane(told[h], Over)
    BY AnnouncedIsSane DEF Inv, Sessions
  <1>2. session' = [told EXCEPT ![g].reply = {<<c, status>>}]
    BY DEF Control
  <1> HIDE DEF told
  <1>3. /\ outcome' = [outcome EXCEPT ![c] = status]
        /\ UNCHANGED <<pi, current, faults>> /\ controls' \in 0..MaxControls
    BY SessionAssumption DEF Control, Inv, Rest
  <1>4. Over \subseteq Over' /\ (status \in Ended => c \in Over')
    BY <1>3 DEF Over, Inv, Rest, Fleet
  <1>5. Sane([told[g] EXCEPT !.reply = {<<c, status>>}], Over')
    <2>1. Sane(told[g], Over')
      BY <1>1, <1>4, SaneGrows
    <2> QED BY <2>1, <1>4 DEF Sane, Session
  <1>6. session' = [told EXCEPT ![g] = [told[g] EXCEPT !.reply = {<<c, status>>}]]
    BY <1>2
  <1> DEFINE mine == [told[g] EXCEPT !.reply = {<<c, status>>}]
  <1> HIDE DEF mine
  <1>7. mine \in Session
    BY <1>5 DEF Sane, mine
  <1>8. session' \in [Slot -> Session] /\ \A h \in Slot : session'[h] = IF h = g THEN mine ELSE told[h]
    BY <1>1, <1>6, <1>7 DEF mine
  <1>9. \A h \in Slot : Sane(session'[h], Over')
    BY <1>1, <1>4, <1>5, <1>8, SaneGrows DEF mine
  <1> QED BY <1>3, <1>8, <1>9, RowChangeIsSound

LEMMA ControlsAreSound ==
    ASSUME Inv, NEW g \in Slot, NEW c \in Child,
           Cancel(g, c) \/ \E new \in Child : Continue(g, c, new)
    PROVE  Inv' /\ Refines
  <1>1. outcome[c] \in Status
    BY DEF Inv, Rest, Fleet
  <1>2. CASE Control(g, c, outcome[c])
    BY <1>1, <1>2, ControlIsSound
  <1>3. CASE outcome[c] = "active" /\ Control(g, c, "failed")
    <2>1. "failed" \in Status /\ outcome[c] \notin Ended
      BY <1>3 DEF Status, Ended
    <2> QED BY <1>3, <2>1, ControlIsSound
  <1>4. CASE \E new \in Child : Continue(g, c, new)
    <2>1. PICK new \in Child : outcome[new] = "absent" /\ Control(g, new, "active")
      BY <1>4 DEF Continue
    <2>2. "active" \in Status /\ outcome[new] \notin Ended
      BY <2>1 DEF Status, Ended
    <2> QED BY <2>1, <2>2, ControlIsSound
  <1> QED BY <1>2, <1>3, <1>4 DEF Cancel

\* A step of one session that neither the rows nor Pi notice.
LEMMA PutIsSound ==
    ASSUME Inv, NEW g \in Slot, NEW s, Sane(s, Over), Put(g, s),
           UNCHANGED <<outcome, pi, current, controls>>, faults' \in 0..MaxFaults
    PROVE  Inv' /\ Refines
  <1>1. Sessions'
    BY PutIsSane DEF Inv
  <1>2. Over' = Over /\ Persisted' = Persisted /\ UNCHANGED <<copies, waiting, queued, lost>>
    BY DEF Over, Persisted, pi
  <1>3. QueueSound'
    BY <1>2 DEF Inv, QueueSound
  <1>4. Rest'
    BY <1>2 DEF Inv, Rest
  <1> QED BY <1>1, <1>2, <1>3, <1>4 DEF Inv, Refines

LEMMA FaultIsBounded ==
    ASSUME Inv, Fault \/ UNCHANGED counts
    PROVE  faults' \in 0..MaxFaults /\ controls' = controls
  BY SessionAssumption DEF Inv, Rest, Fault, counts

\* Every action that stores one session and does not deliver.
LEMMA OwnStepsAreSound ==
    ASSUME Inv, NEW g \in Slot,
           \/ Reply(g) \/ Answer(g) \/ ListFails(g) \/ Connect(g) \/ StreamBreaks(g) \/ Event(g)
           \/ RetryDelivery(g) \/ Resolve(g) \/ ResolveFails(g) \/ RetryStart(g)
    PROVE  Inv' /\ Refines
  <1> DEFINE s == session[g]
  <1>1. Sane(s, Over) /\ session \in [Slot -> Session]
    BY DEF Inv, Sessions
  <1>2. Sane(GivenUp(g), Over) /\ Sane(Blank("resolving"), Over) /\ Sane(Blank("ended"), Over)
        /\ Sane([Blank("listing") EXCEPT !.list = Asked], Over)
    BY BlankIsSane, ListingIsSane DEF GivenUp
  <1>3. CASE Reply(g)
    <2>1. PICK r \in s.reply : Put(g, Refreshed([s EXCEPT
               !.view[r[1]] = IF Accepts(@, r[2]) THEN r[2] ELSE @, !.reply = {}]))
      BY <1>3 DEF Reply
    <2> DEFINE t == [s EXCEPT !.view[r[1]] = IF Accepts(@, r[2]) THEN r[2] ELSE @, !.reply = {}]
    <2>2. Sane(t, Over)
      BY <1>1, RepliedIsSane
    <2>3. Put(g, Refreshed(t))
      BY <2>1
    <2> HIDE DEF t
    <2> QED BY <1>3, <2>2, <2>3, RefreshedIsSane, FaultIsBounded, PutIsSound DEF Reply, counts
  <1>4. CASE Answer(g)
    <2> DEFINE t == [s EXCEPT !.list = [at |-> "answered", rows |-> outcome]]
    <2>1. Sane(t, Over)
      BY <1>1 DEF Sane, Session, Over, Inv, Rest
    <2>2. session' = [session EXCEPT ![g] = t]
      BY <1>4 DEF Answer
    <2>3. s.phase # "ended" => Put(g, t)
      BY <2>2 DEF Put
    <2>4. CASE s.phase # "ended"
      BY <1>4, <2>1, <2>3, <2>4, FaultIsBounded, PutIsSound DEF Answer, counts
    <2>5. CASE s.phase = "ended"
      <3> HIDE DEF t
      <3>1. t \in Session
        BY <2>1 DEF Sane
      <3>2. session' \in [Slot -> Session] /\ \A h \in Slot : session'[h] = IF h = g THEN t ELSE session[h]
        BY <1>1, <2>2, <3>1
      <3>3. Over' = Over /\ Persisted' = Persisted /\ UNCHANGED <<outcome, pi, current, counts>>
        BY <1>4 DEF Answer, Over, Persisted, pi
      <3>4. Sessions'
        <4>1. ASSUME NEW h \in Slot PROVE Sane(session'[h], Over)
          BY <2>1, <3>2 DEF Inv, Sessions
        <4> QED BY <3>2, <3>3, <4>1 DEF Sessions
      <3>5. Rest' /\ QueueSound'
        BY <3>3 DEF Inv, Rest, QueueSound, pi, counts
      <3> QED BY <3>3, <3>4, <3>5 DEF Inv, Refines, pi
    <2> QED BY <2>4, <2>5
  <1>5. CASE ListFails(g)
    <2>1. PICK b \in BOOLEAN : Put(g, IF b THEN GivenUp(g) ELSE ListDone(g, [s EXCEPT !.missed = TRUE]))
      <3>1. (s.phase = "listing") \in BOOLEAN
        OBVIOUS
      <3> QED BY <1>5, <3>1 DEF ListFails
    <2>2. Sane([s EXCEPT !.missed = TRUE], Over)
      BY <1>1 DEF Sane, Session
    <2>3. Sane(ListDone(g, [s EXCEPT !.missed = TRUE]), Over)
      BY <2>2, ListDoneIsSane
    <2>4. Sane(IF b THEN GivenUp(g) ELSE ListDone(g, [s EXCEPT !.missed = TRUE]), Over)
      BY <2>3, <1>2
    <2> QED BY <1>5, <2>1, <2>4, FaultIsBounded, PutIsSound DEF ListFails
  <1>6. CASE Connect(g)
    <2>1. Sane([s EXCEPT !.stream = "on"], Over)
      BY <1>1 DEF Sane, Session
    <2>2. Sane(Invalidated([s EXCEPT !.stream = "on"]), Over)
      BY <2>1, InvalidatedIsSane
    <2> QED BY <1>6, <2>2, FaultIsBounded, PutIsSound DEF Connect, counts
  <1>7. CASE StreamBreaks(g)
    <2>1. Sane([s EXCEPT !.stream = "connecting", !.event = FALSE], Over)
      BY <1>1 DEF Sane, Session
    <2> QED BY <1>7, <2>1, FaultIsBounded, PutIsSound DEF StreamBreaks
  <1>8. CASE Event(g)
    <2>1. Sane([s EXCEPT !.event = FALSE], Over)
      BY <1>1 DEF Sane, Session
    <2>2. Sane(Invalidated([s EXCEPT !.event = FALSE]), Over)
      BY <2>1, InvalidatedIsSane
    <2> QED BY <1>8, <2>2, FaultIsBounded, PutIsSound DEF Event, counts
  <1>9. CASE RetryDelivery(g)
    <2>1. Sane([s EXCEPT !.retry = FALSE], Over)
      BY <1>1 DEF Sane, Session
    <2>2. Sane(Refreshed([s EXCEPT !.retry = FALSE]), Over)
      BY <2>1, RefreshedIsSane
    <2> QED BY <1>9, <2>2, FaultIsBounded, PutIsSound DEF RetryDelivery, counts
  <1>10. CASE Resolve(g)
    <2>1. Sane(IF current = g THEN [Blank("listing") EXCEPT !.list = Asked] ELSE Blank("ended"), Over)
      BY <1>2
    <2> QED BY <1>10, <2>1, FaultIsBounded, PutIsSound DEF Resolve, counts
  <1>11. CASE ResolveFails(g)
    BY <1>11, <1>2, FaultIsBounded, PutIsSound DEF ResolveFails
  <1>12. CASE RetryStart(g)
    BY <1>12, <1>2, FaultIsBounded, PutIsSound DEF RetryStart, counts
  <1> QED BY <1>3, <1>4, <1>5, <1>6, <1>7, <1>8, <1>9, <1>10, <1>11, <1>12

LEMMA DeliveriesAreSound ==
    ASSUME Inv, NEW g \in Slot, Receive(g) \/ FlushBatch(g)
    PROVE  Inv' /\ Refines
  <1> DEFINE s == session[g]
  <1>1. Sane(s, Over) /\ UNCHANGED <<outcome, current>> /\ Over' = Over
    BY DEF Inv, Sessions, Receive, FlushBatch, Over
  <1>2. ASSUME Sessions' /\ QueueSound' /\ (\E S \in SUBSET Child : Tells(S)),
               lost' \subseteq Child, Fault \/ UNCHANGED counts
        PROVE  Inv' /\ Refines
    <2>1. Rest'
      BY <1>1, <1>2, FaultIsBounded DEF Inv, Rest
    <2> QED BY <1>1, <1>2, <2>1 DEF Inv, Refines
  <1>3. ASSUME NEW t, NEW E, NEW sent, NEW now, NEW kept, NEW refused,
               Deliver(g, t, E, sent, now, kept, refused)
        PROVE  lost' \subseteq Child /\ (Fault \/ UNCHANGED counts)
    BY <1>3 DEF Deliver, Inv, Rest
  <1>4. CASE FlushBatch(g)
    <2> DEFINE t == [s EXCEPT !.batch = {}]
    <2>1. /\ Sane(t, Over) /\ s.batch \in SUBSET Over
          /\ \A c \in s.batch : t.attempts[c] < MaxAttempts /\ c \notin t.batch
      BY <1>1 DEF Sane, Session
    <2>2. DeliverBatch(g, t, s.batch)
      BY <1>4 DEF FlushBatch
    <2> HIDE DEF t
    <2>3. Sessions' /\ QueueSound' /\ \E S \in SUBSET Child : Tells(S)
      BY <1>1, <2>1, <2>2, BatchIsDelivered DEF Inv
    <2>4. lost' \subseteq Child /\ (Fault \/ UNCHANGED counts)
      BY <2>2, <1>3 DEF DeliverBatch
    <2> QED BY <1>2, <2>3, <2>4
  <1>5. CASE Receive(g)
    <2> DEFINE t == [s EXCEPT !.view = Merged(@, s.list.rows), !.missed = FALSE]
               u == IF t.phase = "listing" THEN FirstListDone(t) ELSE ListDone(g, t)
               found   == Found(u)
               success == {c \in found : u.view[c] = "completed"}
               v == [u EXCEPT !.batch = @ \cup success]
    <2>1. Sane(t, Over)
      BY <1>1, ReceivedIsSane
    <2> HIDE DEF t
    <2>2. Sane(u, Over)
      BY <2>1, FirstListDoneIsSane, ListDoneIsSane
    <2> HIDE DEF u
    <2>3. /\ found \in SUBSET Over /\ success \in SUBSET found
          /\ \A c \in found : u.attempts[c] < MaxAttempts /\ c \notin u.batch
      BY <2>2 DEF Found, Sane, Over
    <2> HIDE DEF found, success
    <2>4. /\ Sane(v, Over) /\ found \ success \in SUBSET Over
          /\ \A c \in found \ success : v.attempts[c] < MaxAttempts /\ c \notin v.batch
      BY <2>2, <2>3 DEF Sane, Session, Over
    <2>5. DeliverEach(g, v, found \ success)
      <3>1. Reconcile(g, u)
        BY <1>5 DEF Receive, u, t
      <3> QED BY <3>1 DEF Reconcile, found, success
    <2> HIDE DEF v
    <2>6. Sessions' /\ QueueSound' /\ \E S \in SUBSET Child : Tells(S)
      BY <1>1, <2>4, <2>5, EachIsDelivered DEF Inv
    <2>7. lost' \subseteq Child /\ (Fault \/ UNCHANGED counts)
      BY <2>5, <1>3 DEF DeliverEach
    <2> QED BY <1>2, <2>6, <2>7
  <1> QED BY <1>4, <1>5

\* The extension's own steps, and the end of the process: sessions end or are kept.
LEMMA ExtensionIsSound ==
    ASSUME Inv, UNCHANGED <<outcome, controls, faults, copies, lost>>, current' \in 0..Slots,
           \/ UNCHANGED <<waiting, queued>>
           \/ waiting' = [m \in Message |-> 0] /\ queued' = {},
           session' \in [Slot -> Session], \A g \in Slot : Sane(session'[g], Over)
    PROVE  Inv' /\ Refines
  <1>1. Over' = Over /\ Persisted' = Persisted
    BY DEF Over, Persisted
  <1>2. Sessions' /\ Rest' /\ Refines
    BY <1>1 DEF Inv, Sessions, Rest, Refines
  <1>3. CASE UNCHANGED <<waiting, queued>>
    BY <1>1, <1>2, <1>3 DEF Inv, QueueSound
  <1>4. CASE waiting' = [m \in Message |-> 0] /\ queued' = {}
    <2>1. \A m \in Message : waiting'[m] = 0
      BY <1>4
    <2>2. waiting' \in [Message -> {0, 1}] /\ queued' \subseteq Child
      BY <1>4
    <2> QED BY <1>1, <1>2, <2>1, <2>2 DEF Inv, QueueSound
  <1> QED BY <1>3, <1>4

LEMMA LifecycleIsSound ==
    ASSUME Inv, Shutdown \/ Quit \/ \E g \in Slot : Open(g)
    PROVE  Inv' /\ Refines
  <1>1. \A g \in Slot : session[g] \in Session /\ Sane(session[g], Over)
    BY DEF Inv, Sessions
  <1>2. \A p \in {"resolving", "ended"} : Blank(p) \in Session /\ Sane(Blank(p), Over)
    BY BlankIsSane DEF Sane
  <1>3. \A g \in Slot : Sane(Stopped(session[g]), Over) /\ Stopped(session[g]) \in Session
    BY <1>1, <1>2 DEF Stopped
  <1>4. CASE \E g \in Slot : Open(g)
    <2>1. PICK g \in Slot : Open(g)
      BY <1>4
    <2>2. \A h \in Slot : session'[h] = IF h = g THEN Blank("resolving") ELSE Stopped(session[h])
      BY <2>1 DEF Open
    <2>3. session' \in [Slot -> Session]
      BY <2>1, <1>2, <1>3 DEF Open
    <2>4. \A h \in Slot : Sane(session'[h], Over)
      BY <2>2, <1>2, <1>3
    <2> QED BY <2>1, <2>3, <2>4, ExtensionIsSound DEF Open, pi, counts, Slot
  <1>5. CASE Shutdown
    <2> DEFINE closed(h) == IF session[h].phase = "open" /\ session[h].list # NoList
                            THEN [session[h] EXCEPT !.phase = "closing"] ELSE Stopped(session[h])
    <2>1. \A h \in Slot : Sane([session[h] EXCEPT !.phase = "closing"], Over)
      BY <1>1 DEF Sane, Session
    <2>2. \A h \in Slot : Sane(closed(h), Over) /\ closed(h) \in Session
      BY <2>1, <1>3 DEF Sane
    <2>3. session' = [h \in Slot |-> closed(h)]
      BY <1>5 DEF Shutdown
    <2> HIDE DEF closed
    <2>4. session' \in [Slot -> Session] /\ \A h \in Slot : Sane(session'[h], Over)
      BY <2>2, <2>3
    <2>5. current' \in 0..Slots
      BY <1>5, SessionAssumption DEF Shutdown
    <2> QED BY <1>5, <2>4, <2>5, ExtensionIsSound DEF Shutdown, pi, counts
  <1>6. CASE Quit
    <2>1. session' \in [Slot -> Session] /\ \A h \in Slot : Sane(session'[h], Over)
      BY <1>6, <1>1, <1>2 DEF Quit
    <2>2. current' \in 0..Slots
      BY <1>6, SessionAssumption DEF Quit
    <2> QED BY <1>6, <2>1, <2>2, ExtensionIsSound DEF Quit, counts
  <1> QED BY <1>4, <1>5, <1>6

LEMMA PersistIsSound ==
    ASSUME Inv, NEW m \in Message, Persist(m)
    PROVE  Inv' /\ Refines
  <1>1. waiting[m] = 1 /\ m \subseteq (queued \cap Over) \ Persisted /\ m \subseteq Child
    BY DEF Persist, Inv, QueueSound, Message
  <1>2. /\ copies' = [c \in Child |-> IF c \in m THEN 1 ELSE copies[c]]
        /\ copies' \in [Child -> {0, 1}] /\ Persisted' = Persisted \cup m
    <2>1. \A c \in Child : copies[c] + One(c, m) = IF c \in m THEN 1 ELSE copies[c]
      BY <1>1 DEF One, Persisted, Inv, QueueSound
    <2>2. copies' = [c \in Child |-> IF c \in m THEN 1 ELSE copies[c]]
      BY <2>1 DEF Persist
    <2> QED BY <1>1, <2>2 DEF Persisted, Inv, QueueSound
  <1>3. \A n \in Message : waiting'[n] = IF n = m THEN 0 ELSE waiting[n]
    BY <1>1 DEF Persist, Inv, QueueSound
  <1>4. waiting' \in [Message -> {0, 1}]
    BY <1>1 DEF Persist, Inv, QueueSound
  <1>5. Over' = Over /\ UNCHANGED <<outcome, queued, lost, current, session, counts>>
    BY DEF Persist, Over
  <1>6. Rest' /\ Sessions'
    BY <1>5 DEF Inv, Rest, Sessions, counts
  <1>7. ASSUME NEW n \in Message, waiting'[n] = 1
        PROVE  n # m /\ waiting[n] = 1
    BY <1>3, <1>7
  <1>8. ASSUME NEW n \in Message, waiting'[n] = 1
        PROVE  n \subseteq (queued' \cap Over') \ Persisted'
    <2>1. n \subseteq (queued \cap Over) \ Persisted /\ n \cap m = {}
      BY <1>1, <1>7, <1>8 DEF Inv, QueueSound
    <2> QED BY <2>1, <1>2, <1>5
  <1>9. ASSUME NEW n \in Message, NEW o \in Message, waiting'[n] = 1, waiting'[o] = 1, n # o
        PROVE  n \cap o = {}
    BY <1>7, <1>9 DEF Inv, QueueSound
  <1>10. QueueSound'
    BY <1>1, <1>2, <1>4, <1>5, <1>8, <1>9 DEF Inv, QueueSound
  <1>11. Tells(m)
    BY <1>1, <1>2 DEF Tells
  <1> QED BY <1>1, <1>5, <1>6, <1>10, <1>11 DEF Inv, Refines

LEMMA PiDropsAreSound ==
    ASSUME Inv, AgentSettled \/ QueueDropped
    PROVE  Inv' /\ Refines
  <1>1. Over' = Over /\ Persisted' = Persisted /\ UNCHANGED <<outcome, copies, current, session>>
    BY DEF AgentSettled, QueueDropped, Over, Persisted
  <1>2. Sessions' /\ Refines
    BY <1>1 DEF Inv, Sessions, Refines
  <1>3. Rest'
    <2>1. lost' \subseteq Child
      BY DEF AgentSettled, QueueDropped, Inv, Rest, Queue, Message
    <2>2. Fault \/ UNCHANGED counts
      BY DEF AgentSettled, QueueDropped
    <2> QED BY <1>1, <2>1, <2>2, FaultIsBounded DEF Inv, Rest
  <1>4. waiting' \in [Message -> {0, 1}] /\ (\A m \in Message : waiting'[m] = 0) /\ queued' = {}
    <2>1. CASE AgentSettled
      BY <2>1 DEF AgentSettled, Queue, Inv, QueueSound
    <2>2. CASE QueueDropped
      BY <2>2 DEF QueueDropped
    <2> QED BY <2>1, <2>2
  <1>5. QueueSound'
    BY <1>1, <1>4 DEF Inv, QueueSound
  <1> QED BY <1>2, <1>3, <1>5 DEF Inv

-----------------------------------------------------------------------------
(* The theorems.                                                           *)

LEMMA InitIsSound == Init => Inv /\ Promise!Init
  <1> SUFFICES ASSUME Init PROVE Inv /\ Promise!Init
    OBVIOUS
  <1>1. Over = {} /\ Persisted = {}
    BY DEF Init, Over, Persisted, Ended
  <1>2. Rest
    BY SessionAssumption DEF Init, Rest, Fleet, Status
  <1>3. Sessions
    <2>1. Sane(Blank("unopened"), Over)
      BY BlankIsSane
    <2>2. session = [g \in Slot |-> Blank("unopened")]
      BY DEF Init
    <2> DEFINE blank == Blank("unopened")
    <2>3. blank \in Session
      BY <2>1 DEF Sane
    <2> HIDE DEF blank
    <2>4. session \in [Slot -> Session] /\ \A g \in Slot : session[g] = blank
      BY <2>2, <2>3 DEF blank
    <2> QED BY <2>1, <2>4 DEF Sessions, blank
  <1>4. QueueSound
    BY <1>1 DEF Init, QueueSound
  <1>5. Promise!Init
    BY <1>1 DEF Promise!Init, Init, Over
  <1> QED BY <1>2, <1>3, <1>4, <1>5 DEF Inv

LEMMA NextIsSound == Inv /\ [Next]_vars => Inv' /\ Refines
  <1> SUFFICES ASSUME Inv, [Next]_vars PROVE Inv' /\ Refines
    OBVIOUS
  <1>1. CASE UNCHANGED vars
    <2>1. Over' = Over /\ Persisted' = Persisted
      BY <1>1 DEF vars, Over, Persisted, pi
    <2> QED BY <1>1, <2>1 DEF vars, pi, counts, Inv, Rest, Sessions, QueueSound, Refines
  <1>2. CASE Next
    <2>1. \/ \E c \in Child : Launch(c) \/ \E status \in Ended : Finish(c, status)
          \/ \E m \in Message : Persist(m)
          \/ \E g \in Slot : \E c \in Child : Cancel(g, c) \/ \E new \in Child : Continue(g, c, new)
          \/ \E g \in Slot : \/ Reply(g) \/ Answer(g) \/ ListFails(g) \/ Connect(g) \/ StreamBreaks(g)
                             \/ Event(g) \/ RetryDelivery(g) \/ Resolve(g) \/ ResolveFails(g)
                             \/ RetryStart(g)
          \/ \E g \in Slot : Receive(g) \/ FlushBatch(g)
          \/ Shutdown \/ Quit \/ \E g \in Slot : Open(g)
          \/ AgentSettled \/ QueueDropped
      BY <1>2 DEF Next
    <2> QED BY <2>1, LaunchAndFinishAreSound, PersistIsSound, ControlsAreSound, OwnStepsAreSound,
               DeliveriesAreSound, LifecycleIsSound, PiDropsAreSound
  <1> QED BY <1>1, <1>2

\* The session's state, the transcript and Pi's queue keep their types; in
\* particular a message is never in Pi's queue twice.
THEOREM SessionTypes == Spec => []TypeOK
  <1>1. Inv => TypeOK
    BY DEF Inv, Rest, Sessions, QueueSound, TypeOK
  <1> QED BY <1>1, InitIsSound, NextIsSound, PTL DEF Spec

\* However many sessions are opened, overlap and are replaced, whatever is lost,
\* thrown or dropped: deliver tells the transcript of a child only after its run
\* ended, and once.
THEOREM CompletionsToldOnce == Spec => ToldOnce
  <1>1. Inv /\ Refines => [Promise!Next]_<<Over, copies>>
    <2> SUFFICES ASSUME Inv, Refines, ~UNCHANGED <<Over, copies>> PROVE Promise!Next
      OBVIOUS
    <2>1. CASE Finishes
      <3>1. PICK c \in Child \ Over : Over' = Over \cup {c} /\ UNCHANGED copies
        BY <2>1 DEF Finishes
      <3>2. Promise!Finish(c)
        BY <3>1 DEF Promise!Finish, Over
      <3> QED BY <3>1, <3>2 DEF Promise!Next
    <2>2. CASE UNCHANGED Over /\ \E S \in SUBSET Child : Tells(S)
      <3>1. PICK S \in SUBSET Child : Tells(S)
        BY <2>2
      <3>2. S # {}
        <4> SUFFICES ASSUME S = {} PROVE FALSE
          OBVIOUS
        <4>1. copies' = copies
          BY <3>1 DEF Tells, Inv, QueueSound
        <4> QED BY <4>1, <2>2
      <3>3. \A c \in S : copies[c] = 0
        BY <3>1 DEF Tells, Persisted, Inv, QueueSound
      <3>4. Promise!Tell(S)
        BY <2>2, <3>1, <3>2, <3>3 DEF Promise!Tell, Tells, Over
      <3> QED BY <3>1, <3>4 DEF Promise!Next
    <2> QED BY <2>1, <2>2 DEF Refines
  <1>2. Inv /\ [Next]_vars => [Promise!Next]_<<{c \in Child : outcome[c] \in Ended}, copies>>
    BY <1>1, NextIsSound DEF Over
  <1> QED BY <1>2, InitIsSound, NextIsSound, PTL DEF Spec, ToldOnce, Promise!Spec

-----------------------------------------------------------------------------
(* Views.                                                                  *)

Asleep == {"unopened", "resolving", "waiting"}

\* A session that has not begun to list holds nothing yet.
Untouched(s) == s.phase \in Asleep => s = Blank(s.phase)

Keeps(old, new) ==
    new.phase \notin {"ended", "waiting"} =>
        \A c \in Child : old.view[c] \in Ended => new.view[c] = old.view[c]

ViewInv == Inv /\ \A g \in Slot : Untouched(session[g])

ViewStep == \A g \in Slot : Untouched(session[g])' /\ Keeps(session[g], session'[g])

\* t is s with the same view, and under way.
Under(s, t) == t.view = s.view /\ t.phase \notin Asleep

LEMMA UnderKeeps ==
    ASSUME NEW s, NEW t, Under(s, t)
    PROVE  Untouched(t) /\ Keeps(s, t)
  BY DEF Under, Untouched, Keeps

\* What holds something is under way.
LEMMA Awake ==
    ASSUME NEW s \in Session, Untouched(s),
           \/ s.list # NoList \/ s.reply # {} \/ s.stream # "off" \/ s.event = TRUE
           \/ s.batch # {} \/ s.retry = TRUE \/ s.phase \notin Asleep
    PROVE  s.phase \notin Asleep
  BY DEF Untouched, Blank, Asleep

LEMMA RefreshedKeeps ==
    ASSUME NEW s \in Session, s.phase \notin Asleep
    PROVE  Under(s, Refreshed(s))
  <1>1. CASE s.list = NoList  BY <1>1 DEF Refreshed, Under, Session
  <1>2. CASE s.list # NoList  BY <1>2 DEF Refreshed, Under, Session
  <1> QED BY <1>1, <1>2

LEMMA InvalidatedKeeps ==
    ASSUME NEW s \in Session, s.phase \notin Asleep
    PROVE  Under(s, Invalidated(s))
  <1> DEFINE none == [c \in Child |-> 0]
  <1>1. none \in [Child -> 0..MaxAttempts]
    BY SessionAssumption
  <1>2. Invalidated(s) = Refreshed([s EXCEPT !.attempts = none, !.retry = FALSE])
    BY DEF Invalidated
  <1> HIDE DEF none
  <1> DEFINE t == [s EXCEPT !.attempts = none, !.retry = FALSE]
  <1>3. t \in Session /\ t.view = s.view /\ t.phase = s.phase
    BY <1>1 DEF Session
  <1> HIDE DEF t
  <1>4. Under(t, Refreshed(t))
    BY <1>3, RefreshedKeeps
  <1> QED BY <1>2, <1>3, <1>4 DEF Under, t

LEMMA ListDoneKeeps ==
    ASSUME NEW s \in Session, s.phase \notin Asleep, NEW g
    PROVE  Under(s, ListDone(g, s)) /\ Under(s, FirstListDone(s))
  <1>1. Under(s, FirstListDone(s))
    BY DEF FirstListDone, Under, Session, Asleep
  <1>2. CASE s.dirty
    <2>1. ListDone(g, s) = [s EXCEPT !.dirty = FALSE, !.list = Asked]
      BY <1>2 DEF ListDone
    <2>2. Under(s, [s EXCEPT !.dirty = FALSE, !.list = Asked])
      BY DEF Under, Session
    <2> QED BY <1>1, <2>1, <2>2
  <1>3. CASE ~s.dirty
    <2> DEFINE t == [s EXCEPT !.list = NoList]
    <2>1. ListDone(g, s) = Idle(g, t) /\ t.view = s.view /\ t.phase = s.phase
      BY <1>3 DEF ListDone, Session
    <2>2. Under(t, Idle(g, t))
      <3>1. CASE t.phase = "starting"
        BY <3>1 DEF Idle, Under, Session, Asleep
      <3>2. CASE t.phase = "closing"
        BY <3>2 DEF Idle, Under, Session, Asleep
      <3>3. CASE t.phase # "starting" /\ t.phase # "closing"
        <4>1. Idle(g, t) = t  BY <3>3 DEF Idle
        <4> QED BY <4>1, <2>1 DEF Under
      <3> QED BY <3>1, <3>2, <3>3
    <2> HIDE DEF t
    <2> QED BY <1>1, <2>1, <2>2 DEF Under
  <1> QED BY <1>1, <1>2, <1>3

LEMMA PutKeeps ==
    ASSUME ViewInv, NEW g \in Slot, NEW s, Put(g, s), Untouched(s), Keeps(session[g], s)
    PROVE  ViewStep
  <1> DEFINE t == IF s.phase = "ended" THEN Blank("ended") ELSE s
  <1>1. \A h \in Slot : session'[h] = IF h = g THEN t ELSE session[h]
    BY DEF Put, ViewInv, Inv, Sessions
  <1>2. Untouched(t) /\ Keeps(session[g], t)
    <2>1. CASE s.phase = "ended"
      BY <2>1 DEF Untouched, Keeps, Blank, Asleep
    <2>2. CASE s.phase # "ended"
      BY <2>2
    <2> QED BY <2>1, <2>2
  <1> HIDE DEF t
  <1>3. ASSUME NEW h \in Slot PROVE Untouched(session[h])' /\ Keeps(session[h], session'[h])
    <2>1. CASE h = g
      BY <2>1, <1>1, <1>2
    <2>2. CASE h # g
      <3>1. session'[h] = session[h]
        BY <2>2, <1>1
      <3> QED BY <3>1 DEF ViewInv, Keeps
    <2> QED BY <2>1, <2>2
  <1> QED BY <1>3 DEF ViewStep

\* A delivery stores the session it was given, but for what it counts.
LEMMA DeliverKeeps ==
    ASSUME ViewInv, NEW g \in Slot, NEW s \in Session, s.phase \notin Asleep,
           Keeps(session[g], s), NEW E, NEW sent, NEW now, NEW kept, NEW refused,
           Deliver(g, s, E, sent, now, kept, refused)
    PROVE  ViewStep
  <1>1. PICK confirmed : Put(g, Retried(Confirmed(s, confirmed), refused))
    BY DEF Deliver
  <1> DEFINE t == Retried(Confirmed(s, confirmed), refused)
  <1>2. t.view = s.view /\ t.phase = s.phase
    BY DEF Retried, Confirmed, Session
  <1> HIDE DEF t
  <1>3. Untouched(t) /\ Keeps(session[g], t)
    BY <1>2 DEF Untouched, Keeps
  <1> QED BY <1>1, <1>3, PutKeeps DEF t

LEMMA OwnStepsKeep ==
    ASSUME ViewInv, NEW g \in Slot,
           \/ Reply(g) \/ Answer(g) \/ ListFails(g) \/ Connect(g) \/ StreamBreaks(g) \/ Event(g)
           \/ RetryDelivery(g) \/ Resolve(g) \/ ResolveFails(g) \/ RetryStart(g)
    PROVE  ViewStep
  <1> DEFINE s == session[g]
  <1>1. s \in Session /\ Untouched(s) /\ session \in [Slot -> Session]
    BY DEF ViewInv, Inv, Sessions
  <1>2. \A p \in {"waiting", "ended"} : Untouched(Blank(p)) /\ Keeps(s, Blank(p))
    BY DEF Untouched, Keeps, Blank, Asleep
  <1>3. ASSUME NEW t, Under(s, t), Put(g, t) PROVE ViewStep
    BY <1>3, UnderKeeps, PutKeeps
  <1>4. CASE Reply(g)
    <2>1. PICK r \in s.reply : Put(g, Refreshed([s EXCEPT
               !.view[r[1]] = IF Accepts(@, r[2]) THEN r[2] ELSE @, !.reply = {}]))
      BY <1>4 DEF Reply
    <2> DEFINE t == [s EXCEPT !.view[r[1]] = IF Accepts(@, r[2]) THEN r[2] ELSE @, !.reply = {}]
    <2>2. s.phase \notin Asleep
      BY <1>1, Awake
    <2>3. /\ t \in Session /\ t.phase = s.phase
          /\ \A c \in Child : s.view[c] \in Ended => t.view[c] = s.view[c]
      BY <1>1 DEF Session, Fleet, Accepts
    <2>4. Put(g, Refreshed(t))
      BY <2>1
    <2> HIDE DEF t
    <2>5. Under(t, Refreshed(t))
      BY <2>2, <2>3, RefreshedKeeps
    <2>6. Untouched(Refreshed(t)) /\ Keeps(s, Refreshed(t))
      BY <2>3, <2>5 DEF Under, Untouched, Keeps
    <2> QED BY <2>4, <2>6, PutKeeps
  <1>5. CASE Answer(g)
    <2> DEFINE t == [s EXCEPT !.list = [at |-> "answered", rows |-> outcome]]
    <2>1. session' = [session EXCEPT ![g] = t]
      BY <1>5 DEF Answer
    <2>2. s.phase \notin Asleep
      <3>1. Asked.at = "asked" /\ NoList.at = "none"
        BY DEF Asked, NoList
      <3>2. s.list # NoList
        BY <1>5, <3>1 DEF Answer
      <3> QED BY <1>1, <3>2, Awake
    <2>3. Under(s, t)
      BY <1>1, <2>2 DEF Under, Session
    <2> HIDE DEF t
    <2>4. Untouched(t) /\ Keeps(s, t)
      BY <2>3, UnderKeeps
    <2>5. \A h \in Slot : session'[h] = IF h = g THEN t ELSE session[h]
      BY <1>1, <2>1
    <2>6. ASSUME NEW h \in Slot PROVE Untouched(session[h])' /\ Keeps(session[h], session'[h])
      <3>1. CASE h = g
        BY <3>1, <2>4, <2>5
      <3>2. CASE h # g
        <4>1. session'[h] = session[h]
          BY <3>2, <2>5
        <4> QED BY <4>1 DEF ViewInv, Keeps
      <3> QED BY <3>1, <3>2
    <2> QED BY <2>6 DEF ViewStep
  <1>6. CASE ListFails(g)
    <2>1. s.phase \notin Asleep
      BY <1>1, <1>6, Awake DEF ListFails
    <2> DEFINE t == [s EXCEPT !.missed = TRUE]
    <2>2. t \in Session /\ t.phase = s.phase /\ t.view = s.view
      BY <1>1 DEF Session
    <2>3. Put(g, GivenUp(g)) \/ Put(g, ListDone(g, t))
      BY <1>6 DEF ListFails
    <2> HIDE DEF t
    <2>4. CASE Put(g, GivenUp(g))
      BY <2>4, <1>2, PutKeeps DEF GivenUp
    <2>5. CASE Put(g, ListDone(g, t))
      <3>1. Under(s, ListDone(g, t))
        BY <2>1, <2>2, ListDoneKeeps DEF Under
      <3> QED BY <2>5, <3>1, <1>3
    <2> QED BY <2>3, <2>4, <2>5
  <1>7. CASE Connect(g)
    <2> DEFINE t == [s EXCEPT !.stream = "on"]
    <2>1. s.phase \notin Asleep
      BY <1>1, <1>7, Awake DEF Connect
    <2>2. t \in Session /\ t.phase = s.phase /\ t.view = s.view /\ Put(g, Invalidated(t))
      BY <1>1, <1>7 DEF Session, Connect
    <2> HIDE DEF t
    <2>3. Under(s, Invalidated(t))
      BY <2>1, <2>2, InvalidatedKeeps DEF Under
    <2> QED BY <2>2, <2>3, <1>3
  <1>8. CASE StreamBreaks(g)
    <2> DEFINE t == [s EXCEPT !.stream = "connecting", !.event = FALSE]
    <2>1. s.phase \notin Asleep
      BY <1>1, <1>8, Awake DEF StreamBreaks
    <2>2. t.phase = s.phase /\ t.view = s.view /\ Put(g, t)
      BY <1>1, <1>8 DEF Session, StreamBreaks
    <2> HIDE DEF t
    <2> QED BY <2>1, <2>2, <1>3 DEF Under
  <1>9. CASE Event(g)
    <2> DEFINE t == [s EXCEPT !.event = FALSE]
    <2>1. s.phase \notin Asleep
      <3>1. s.event = TRUE
        BY <1>1, <1>9 DEF Event, Session
      <3> QED BY <1>1, <3>1, Awake
    <2>2. t \in Session /\ t.phase = s.phase /\ t.view = s.view /\ Put(g, Invalidated(t))
      BY <1>1, <1>9 DEF Session, Event
    <2> HIDE DEF t
    <2>3. Under(s, Invalidated(t))
      BY <2>1, <2>2, InvalidatedKeeps DEF Under
    <2> QED BY <2>2, <2>3, <1>3
  <1>10. CASE RetryDelivery(g)
    <2> DEFINE t == [s EXCEPT !.retry = FALSE]
    <2>1. s.phase \notin Asleep
      <3>1. s.retry = TRUE
        BY <1>1, <1>10 DEF RetryDelivery, Session
      <3> QED BY <1>1, <3>1, Awake
    <2>2. t \in Session /\ t.phase = s.phase /\ t.view = s.view /\ Put(g, Refreshed(t))
      BY <1>1, <1>10 DEF Session, RetryDelivery
    <2> HIDE DEF t
    <2>3. Under(s, Refreshed(t))
      BY <2>1, <2>2, RefreshedKeeps DEF Under
    <2> QED BY <2>2, <2>3, <1>3
  <1>11. s.phase \in Asleep => \A c \in Child : s.view[c] \notin Ended
    BY <1>1 DEF Untouched, Blank, Ended
  <1>12. CASE Resolve(g)
    <2> DEFINE t == IF current = g THEN [Blank("listing") EXCEPT !.list = Asked] ELSE Blank("ended")
    <2>1. Untouched(t)
      BY DEF Untouched, Blank, Asleep
    <2>2. Keeps(s, t)
      BY <1>11, <1>12 DEF Keeps, Resolve, Asleep
    <2> QED BY <1>12, <2>1, <2>2, PutKeeps DEF Resolve
  <1>13. CASE ResolveFails(g)
    BY <1>2, <1>13, PutKeeps DEF ResolveFails, GivenUp
  <1>14. CASE RetryStart(g)
    <2>1. Untouched(Blank("resolving"))
      BY DEF Untouched, Blank
    <2>2. Keeps(s, Blank("resolving"))
      BY <1>11, <1>14 DEF Keeps, RetryStart, Asleep
    <2> QED BY <1>14, <2>1, <2>2, PutKeeps DEF RetryStart
  <1> QED BY <1>4, <1>5, <1>6, <1>7, <1>8, <1>9, <1>10, <1>12, <1>13, <1>14

LEMMA DeliveriesKeep ==
    ASSUME ViewInv, NEW g \in Slot, Receive(g) \/ FlushBatch(g)
    PROVE  ViewStep
  <1> DEFINE s == session[g]
  <1>1. s \in Session /\ Untouched(s)
    BY DEF ViewInv, Inv, Sessions
  <1>2. CASE FlushBatch(g)
    <2> DEFINE t == [s EXCEPT !.batch = {}]
    <2>1. s.phase \notin Asleep
      BY <1>1, <1>2, Awake DEF FlushBatch
    <2>2. t \in Session /\ t.phase = s.phase /\ t.view = s.view
      BY <1>1 DEF Session
    <2>3. DeliverBatch(g, t, s.batch)
      BY <1>2 DEF FlushBatch
    <2> HIDE DEF t
    <2>4. Keeps(s, t)
      BY <2>2 DEF Keeps
    <2> QED BY <2>1, <2>2, <2>3, <2>4, DeliverKeeps DEF DeliverBatch
  <1>3. CASE Receive(g)
    <2> DEFINE t == [s EXCEPT !.view = Merged(@, s.list.rows), !.missed = FALSE]
               u == IF t.phase = "listing" THEN FirstListDone(t) ELSE ListDone(g, t)
               success == {c \in Found(u) : u.view[c] = "completed"}
               v == [u EXCEPT !.batch = @ \cup success]
    <2>1. s.phase \notin Asleep
      <3>1. s.list # NoList
        BY <1>3 DEF Receive, NoList
      <3> QED BY <1>1, <3>1, Awake
    <2>2. /\ Sane(t, Over) /\ t \in Session /\ t.phase = s.phase
          /\ \A c \in Child : s.view[c] \in Ended => t.view[c] = s.view[c]
      <3>1. Sane(t, Over)
        BY ReceivedIsSane DEF ViewInv, Inv, Sessions
      <3>2. t.phase = s.phase /\ t.view = Merged(s.view, s.list.rows)
        BY <1>1 DEF Session
      <3>3. \A c \in Child : s.view[c] \in Ended => Merged(s.view, s.list.rows)[c] = s.view[c]
        BY DEF Merged, Accepts
      <3> QED BY <3>1, <3>2, <3>3 DEF Sane
    <2>3. Reconcile(g, u)
      BY <1>3 DEF Receive
    <2> HIDE DEF t
    <2>4. Under(t, u) /\ Sane(u, Over)
      BY <2>1, <2>2, ListDoneKeeps, ListDoneIsSane, FirstListDoneIsSane
    <2> HIDE DEF u
    <2>5. v \in Session /\ Under(u, v)
      <3>1. success \subseteq Child
        BY DEF Found
      <3> HIDE DEF success
      <3> QED BY <2>4, <3>1 DEF Under, Sane, Session
    <2>6. DeliverEach(g, v, Found(u) \ success)
      BY <2>3 DEF Reconcile
    <2> HIDE DEF v, success
    <2>7. Keeps(s, v) /\ v.phase \notin Asleep
      BY <2>2, <2>4, <2>5 DEF Keeps, Under
    <2> QED BY <2>5, <2>6, <2>7, DeliverKeeps DEF DeliverEach
  <1> QED BY <1>2, <1>3

\* Every other step keeps the views of the sessions it does not end.
LEMMA OtherStepsKeep ==
    ASSUME ViewInv,
           \/ UNCHANGED session \/ session' = Announced
           \/ \E g \in Slot, c \in Child, status \in Status : Control(g, c, status)
           \/ Shutdown \/ Quit \/ \E g \in Slot : Open(g)
    PROVE  ViewStep
  <1>1. session \in [Slot -> Session] /\ \A g \in Slot : session[g] \in Session /\ Untouched(session[g])
    BY DEF ViewInv, Inv, Sessions
  <1>2. CASE UNCHANGED session
    BY <1>2 DEF ViewStep, Keeps, ViewInv
  <1>3. \A g \in Slot : /\ Announced[g] \in Session /\ Announced[g].view = session[g].view
                        /\ Announced[g].phase = session[g].phase /\ Untouched(Announced[g])
    <2> SUFFICES ASSUME NEW g \in Slot
                 PROVE  /\ Announced[g] \in Session /\ Announced[g].view = session[g].view
                        /\ Announced[g].phase = session[g].phase /\ Untouched(Announced[g])
      OBVIOUS
    <2> DEFINE s == session[g]
               b == s.event \/ s.stream = "on"
    <2>1. Announced[g] = [s EXCEPT !.event = b]
      BY DEF Announced
    <2>2. b \in BOOLEAN
      BY <1>1 DEF Session
    <2>3. s \in Session /\ Untouched(s)
      BY <1>1
    <2>4. s.phase \in Asleep => b = s.event
      <3>1. s.phase \in Asleep => s.event = FALSE /\ s.stream = "off"
        BY <2>3 DEF Untouched, Blank
      <3>2. s.event = FALSE /\ s.stream = "off" => b = FALSE
        OBVIOUS
      <3> HIDE DEF s, b
      <3> QED BY <3>1, <3>2
    <2> HIDE DEF s, b
    <2>5. s.phase \in Asleep => [s EXCEPT !.event = b] = s
      BY <2>3, <2>4 DEF Session
    <2>6. /\ [s EXCEPT !.event = b] \in Session
          /\ [s EXCEPT !.event = b].view = s.view /\ [s EXCEPT !.event = b].phase = s.phase
      BY <2>2, <2>3 DEF Session
    <2>7. Untouched([s EXCEPT !.event = b])
      BY <2>3, <2>5, <2>6 DEF Untouched
    <2> QED BY <2>1, <2>6, <2>7 DEF s
  <1>4. CASE session' = Announced
    BY <1>3, <1>4 DEF ViewStep, Keeps
  <1>5. ASSUME NEW g \in Slot, NEW c \in Child, NEW status \in Status, Control(g, c, status)
        PROVE  ViewStep
    <2> DEFINE told == IF status = outcome[c] THEN session ELSE Announced
               mine == [told[g] EXCEPT !.reply = {<<c, status>>}]
    <2>1. told \in [Slot -> Session]
      BY <1>1, AnnouncedIsSane DEF ViewInv, Inv
    <2>2. \A h \in Slot : /\ told[h].view = session[h].view /\ told[h].phase = session[h].phase
                          /\ Untouched(told[h])
      BY <1>1, <1>3
    <2>3. session' = [told EXCEPT ![g] = mine]
      BY <1>5 DEF Control
    <2>4. session[g].phase = "open"
      BY <1>5 DEF Control
    <2> HIDE DEF told
    <2>5. Untouched(mine) /\ mine.view = session[g].view
      BY <2>1, <2>2, <2>4 DEF Untouched, Asleep, Session
    <2> HIDE DEF mine
    <2>6. \A h \in Slot : session'[h] = IF h = g THEN mine ELSE told[h]
      BY <2>1, <2>3
    <2>7. ASSUME NEW h \in Slot PROVE Untouched(session[h])' /\ Keeps(session[h], session'[h])
      <3>1. CASE h = g
        BY <3>1, <2>5, <2>6 DEF Keeps
      <3>2. CASE h # g
        <4>1. session'[h] = told[h]
          BY <3>2, <2>6
        <4> QED BY <4>1, <2>2 DEF Keeps
      <3> QED BY <3>1, <3>2
    <2> QED BY <2>7 DEF ViewStep
  <1>6. \A p \in {"ended", "resolving"} : Untouched(Blank(p)) /\ Blank(p).phase = p
    BY DEF Untouched, Blank
  <1>7. \A g \in Slot : Untouched(Stopped(session[g])) /\ Keeps(session[g], Stopped(session[g]))
    BY <1>1, <1>6 DEF Stopped, Keeps
  <1>8. CASE \E g \in Slot : Open(g)
    <2>1. PICK g \in Slot : Open(g)
      BY <1>8
    <2>2. \A h \in Slot : session'[h] = IF h = g THEN Blank("resolving") ELSE Stopped(session[h])
      BY <2>1 DEF Open
    <2>3. Keeps(session[g], Blank("resolving"))
      BY <1>1, <2>1 DEF Open, Keeps, Untouched, Blank, Asleep, Ended
    <2>4. ASSUME NEW h \in Slot PROVE Untouched(session[h])' /\ Keeps(session[h], session'[h])
      <3>1. CASE h = g
        BY <3>1, <2>2, <2>3, <1>6
      <3>2. CASE h # g
        <4>1. session'[h] = Stopped(session[h])
          BY <3>2, <2>2
        <4> QED BY <4>1, <1>7
      <3> QED BY <3>1, <3>2
    <2> QED BY <2>4 DEF ViewStep
  <1>9. CASE Shutdown
    <2>1. ASSUME NEW h \in Slot PROVE Untouched(session[h])' /\ Keeps(session[h], session'[h])
      <3> DEFINE t == [session[h] EXCEPT !.phase = "closing"]
      <3>1. Untouched(t) /\ Keeps(session[h], t)
        BY <1>1 DEF Untouched, Asleep, Keeps, Session
      <3>2. session'[h] = t \/ session'[h] = Stopped(session[h])
        BY <1>9 DEF Shutdown
      <3> HIDE DEF t
      <3> QED BY <3>1, <3>2, <1>7
    <2> QED BY <2>1 DEF ViewStep
  <1>10. CASE Quit
    <2>1. ASSUME NEW h \in Slot PROVE Untouched(session[h])' /\ Keeps(session[h], session'[h])
      <3>1. session'[h] = session[h] \/ session'[h] = Blank("ended")
        BY <1>10 DEF Quit
      <3>2. Keeps(session[h], Blank("ended")) /\ Keeps(session[h], session[h])
        BY <1>6 DEF Keeps
      <3> QED BY <3>1, <3>2, <1>1, <1>6
    <2> QED BY <2>1 DEF ViewStep
  <1> QED BY <1>2, <1>4, <1>5, <1>8, <1>9, <1>10

LEMMA NextKeepsViews == ViewInv /\ [Next]_vars => ViewStep
  <1> SUFFICES ASSUME ViewInv, [Next]_vars PROVE ViewStep
    OBVIOUS
  <1>1. CASE UNCHANGED vars
    BY <1>1, OtherStepsKeep DEF vars
  <1>2. CASE Next
    <2>1. \A c \in Child : outcome[c] \in Status
      BY DEF ViewInv, Inv, Rest, Fleet
    <2>2. \/ \E c \in Child : Launch(c) \/ \E status \in Ended : Finish(c, status)
          \/ \E g \in Slot, c \in Child : Cancel(g, c) \/ \E new \in Child : Continue(g, c, new)
          \/ \E g \in Slot : \/ Reply(g) \/ Answer(g) \/ ListFails(g) \/ Connect(g) \/ StreamBreaks(g)
                             \/ Event(g) \/ RetryDelivery(g) \/ Resolve(g) \/ ResolveFails(g)
                             \/ RetryStart(g)
          \/ \E g \in Slot : Receive(g) \/ FlushBatch(g)
          \/ Shutdown \/ Quit \/ \E g \in Slot : Open(g)
          \/ AgentSettled \/ QueueDropped \/ \E m \in Message : Persist(m)
      BY <1>2 DEF Next
    <2>3. CASE \E c \in Child : Launch(c) \/ \E status \in Ended : Finish(c, status)
      BY <2>3, OtherStepsKeep DEF Launch, Finish
    <2>4. CASE \E g \in Slot, c \in Child : Cancel(g, c) \/ \E new \in Child : Continue(g, c, new)
      <3>1. \E g \in Slot, c \in Child, status \in Status : Control(g, c, status)
        BY <2>1, <2>4 DEF Cancel, Continue, Status
      <3> QED BY <3>1, OtherStepsKeep
    <2>5. CASE AgentSettled \/ QueueDropped \/ \E m \in Message : Persist(m)
      BY <2>5, OtherStepsKeep DEF AgentSettled, QueueDropped, Persist
    <2> QED BY <2>2, <2>3, <2>4, <2>5, OwnStepsKeep, DeliveriesKeep, OtherStepsKeep
  <1> QED BY <1>1, <1>2

\* A child a session has seen end is never shown as anything else by it, in
\* whatever order lists, replies and events arrive (reconcile, acceptsTransition).
THEOREM ViewsNeverRegress == Spec => ViewNeverRegresses
  <1>1. Init => ViewInv
    <2>1. Init => \A g \in Slot : session[g] = Blank("unopened")
      BY DEF Init
    <2>2. Blank("unopened").phase = "unopened"
      BY DEF Blank
    <2> QED BY <2>1, <2>2, InitIsSound DEF ViewInv, Untouched
  <1>2. ViewInv /\ [Next]_vars => ViewInv'
    BY NextIsSound, NextKeepsViews DEF ViewInv, ViewStep
  <1>3. ViewInv /\ [Next]_vars =>
          [\A g \in Slot : \A c \in Child :
              (session[g].view[c] \in Ended /\ session'[g].phase \notin {"ended", "waiting"})
                  => session'[g].view[c] = session[g].view[c]]_vars
    BY NextKeepsViews DEF ViewStep, Keeps
  <1> QED BY <1>1, <1>2, <1>3, PTL DEF Spec, ViewNeverRegresses
=============================================================================
