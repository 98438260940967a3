---------------------------- MODULE MonitorProofs ----------------------------
(***************************************************************************)
(* What holds of SessionMonitor for every set of stores and of sessions,   *)
(* every transcript length and every number of events, and of the panel    *)
(* that shows the owner what it found (SessionPanel), for every number of  *)
(* actions, changes and failures.                                          *)
(*                                                                         *)
(* Of each part first the facts about its operators, then the inductive    *)
(* invariant and the steps that preserve it.                               *)
(***************************************************************************)
EXTENDS SessionMonitor, SessionPanel, FiniteSetTheorems, TLAPS

Reading == [at : 0..MaxMessages, mood : Mood]
KidsOf  == [version : 0..MaxEvents, active : BOOLEAN]
RowOf   == [at : 0..MaxMessages, state : {"working", "idle", "needs-you", "done"},
            through : 0..MaxMessages, whileWorking : BOOLEAN,
            kidsSeen : 0..MaxEvents, basis : 0..MaxMessages]
Call    == [thread : Thread, at : 0..MaxMessages, kids : 0..MaxEvents,
            working : BOOLEAN, basis : 0..MaxMessages]

-----------------------------------------------------------------------------
(* The rules of a row.                                                     *)

\* An observation resolves a row from at least what it says it has seen, and lets go
\* of Done only for a newer message.
LEMMA ObservedRow ==
    ASSUME NEW had \in RowOf, NEW seen \in Reading, had.at <= had.basis
    PROVE  /\ Observed(had, seen) \in RowOf
           /\ Observed(had, seen).at <= Observed(had, seen).basis
           /\ Observed(had, seen).at \in {had.at, seen.at}
           /\ had.state = "done" /\ Observed(had, seen).state # "done" =>
                 Observed(had, seen).at > had.at
<1>1. had.at \in Nat /\ seen.at \in 0..MaxMessages /\ had.at \in 0..MaxMessages
  BY MonitorAssumption DEF RowOf, Reading
<1>2. CASE had.at > seen.at
  BY <1>1, <1>2 DEF Observed
<1>3. CASE ~(had.at > seen.at)
  <2> DEFINE state == IF Kept(had, seen) THEN had.state ELSE Resolved(had, seen)
             basis == IF state = had.state /\ seen.at = had.at THEN had.basis ELSE seen.at
  <2>1. Observed(had, seen) = [had EXCEPT !.at = seen.at, !.state = state, !.basis = basis]
    BY <1>3 DEF Observed
  <2>2. state \in {"working", "idle", "needs-you", "done"}
    BY DEF RowOf, Resolved, Derived
  <2>3. basis \in 0..MaxMessages /\ seen.at <= basis
    BY <1>1 DEF RowOf
  <2>4. had.state = "done" /\ state # "done" => seen.at > had.at
    BY <1>1, <1>3 DEF Resolved, Reading
  <2> HIDE DEF state, basis
  <2>5. /\ Observed(had, seen) \in RowOf /\ Observed(had, seen).at = seen.at
        /\ Observed(had, seen).state = state /\ Observed(had, seen).basis = basis
    BY <1>1, <2>1, <2>2, <2>3 DEF RowOf
  <2> QED BY <2>3, <2>4, <2>5
<1> QED BY <1>2, <1>3

\* An answer that is accepted rests on at least what its row has recorded, and never
\* moves a row that is done.
LEMMA AssessedRow ==
    ASSUME NEW had \in RowOf, NEW k \in KidsOf, NEW call \in Call,
           NEW attention \in {"none", "idle", "needs-you"}, NEW account \in BOOLEAN,
           Accepts(had, k, call, attention), had.at <= had.basis, call.at <= call.basis
    PROVE  /\ Assessed(had, k, call, attention, account) \in RowOf
           /\ Assessed(had, k, call, attention, account).at = had.at
           /\ had.at <= Assessed(had, k, call, attention, account).basis
           /\ had.state # "done"
<1>1. had.at = call.at /\ had.state # "done" /\ (Working(had, k) \/ attention # "none")
  BY DEF Accepts
<1> DEFINE moved == IF Working(had, k) THEN had
                    ELSE [had EXCEPT !.state = attention, !.basis = call.basis]
<1>2. moved \in RowOf /\ moved.at = had.at /\ had.at <= moved.basis
  BY <1>1 DEF RowOf, Call
<1>3. PICK working \in BOOLEAN : working = Working(had, k)
  BY DEF Working, KidsOf
<1>4. Assessed(had, k, call, attention, account) =
         IF ~account THEN moved
         ELSE [moved EXCEPT !.through = call.at, !.kidsSeen = k.version, !.whileWorking = working]
  BY <1>3 DEF Assessed
<1>5. k.version \in 0..MaxEvents /\ call.at \in 0..MaxMessages
  BY DEF KidsOf, Call
<1> HIDE DEF moved
<1>6. CASE ~account
  BY <1>1, <1>2, <1>4, <1>6
<1>7. CASE account
  BY <1>1, <1>2, <1>4, <1>5, <1>7 DEF RowOf
<1> QED BY <1>6, <1>7

-----------------------------------------------------------------------------
(* The inductive invariant.                                                *)

\* The world, and what the monitor watches and waits for.
WorldOk ==
    /\ disk \in [Thread -> Reading] /\ kids \in [Thread -> KidsOf]
    /\ events \in 0..MaxEvents /\ \A t \in Thread : kids[t].version <= events
    /\ present \subseteq Root /\ watched \subseteq present /\ onboarded \in BOOLEAN
    /\ pending \subseteq Thread /\ debounce \in BOOLEAN
    /\ pass \in [phase : {"off", "queued", "on"}, again : BOOLEAN]

\* A row has seen no more than there is, and rests on what it has seen.
RowsRest ==
    /\ threads \in [Thread -> RowOf]
    /\ \A t \in Thread : threads[t].at <= disk[t].at /\ threads[t].at <= threads[t].basis

\* A poll holds readings of what is there.
PollReads ==
    /\ DOMAIN poll = {"phase", "full", "files", "rows"}
    /\ poll.phase \in {"none", "reading", "recording"} /\ poll.files \subseteq Thread
    /\ \A t \in DOMAIN poll.rows :
          t \in Thread /\ poll.rows[t] \in Reading /\ poll.rows[t].at <= disk[t].at

\* A call is about a message that is there; once it has read the transcript it rests on
\* that message at least.
CallsRest ==
    /\ calls \subseteq Call
    /\ \A c \in calls : c.at <= disk[c.thread].at /\ (c.basis # 0 => c.at <= c.basis)

MonitorInv == WorldOk /\ RowsRest /\ PollReads /\ CallsRest

\* What a step may do to a row that is done.
DoneKept ==
    \A t \in Thread :
       threads[t].state = "done" /\ threads'[t].state # "done" => threads'[t].at > threads[t].at

LEMMA InitHolds == Init => MonitorInv
<1> SUFFICES ASSUME Init PROVE MonitorInv
  OBVIOUS
<1>1. 0 \in 0..MaxMessages /\ 0 \in 0..MaxEvents
  BY MonitorAssumption
<1>2. WorldOk
  <2>1. disk \in [Thread -> Reading]
    BY <1>1 DEF Init, Reading, Mood
  <2>2. kids \in [Thread -> KidsOf] /\ \A t \in Thread : kids[t].version <= events
    BY <1>1 DEF Init, KidsOf
  <2>3. present \subseteq Root /\ watched \subseteq present /\ onboarded \in BOOLEAN
    BY DEF Init
  <2>4. /\ pending \subseteq Thread /\ debounce \in BOOLEAN /\ events \in 0..MaxEvents
        /\ pass \in [phase : {"off", "queued", "on"}, again : BOOLEAN]
    BY <1>1 DEF Init
  <2> QED BY <2>1, <2>2, <2>3, <2>4 DEF WorldOk
<1>3. RowsRest
  BY <1>1 DEF Init, RowsRest, NoRow, RowOf
<1>4. PollReads
  BY DEF Init, Scan, PollReads
<1>5. CallsRest
  BY DEF Init, CallsRest
<1> QED BY <1>2, <1>3, <1>4, <1>5 DEF MonitorInv

-----------------------------------------------------------------------------
(* The world.                                                              *)

\* Whatever changes a transcript, its messages stay.
LEMMA DiskGrows ==
    ASSUME MonitorInv, NEW t \in Thread, NEW seen \in Reading, disk[t].at <= seen.at,
           disk' = [disk EXCEPT ![t] = seen],
           UNCHANGED <<threads, poll, calls>>
    PROVE  /\ disk' \in [Thread -> Reading]
           /\ RowsRest' /\ PollReads' /\ CallsRest' /\ DoneKept
<1>1. /\ disk' \in [Thread -> Reading]
      /\ \A u \in Thread : disk[u].at <= disk'[u].at
  BY MonitorAssumption DEF MonitorInv, WorldOk, Reading
<1>2. \A u \in Thread : disk[u].at \in Nat /\ disk'[u].at \in Nat
  BY <1>1, MonitorAssumption DEF MonitorInv, WorldOk, Reading
<1>3. RowsRest'
  <2>1. \A u \in Thread : threads[u].at \in Nat /\ threads[u].at <= disk[u].at
    BY MonitorAssumption DEF MonitorInv, RowsRest, RowOf
  <2> QED BY <1>1, <1>2, <2>1 DEF MonitorInv, RowsRest
<1>4. PollReads'
  <2>1. \A u \in DOMAIN poll.rows : u \in Thread /\ poll.rows[u].at \in Nat
                                    /\ poll.rows[u].at <= disk[u].at
    BY MonitorAssumption DEF MonitorInv, PollReads, Reading
  <2> QED BY <1>1, <1>2, <2>1 DEF MonitorInv, PollReads
<1>5. CallsRest'
  <2>1. \A c \in calls : c.thread \in Thread /\ c.at \in Nat /\ c.at <= disk[c.thread].at
    BY MonitorAssumption DEF MonitorInv, CallsRest, Call
  <2> QED BY <1>1, <1>2, <2>1 DEF MonitorInv, CallsRest
<1>6. DoneKept
  BY DEF DoneKept
<1> QED BY <1>1, <1>3, <1>4, <1>5, <1>6

LEMMA NoticedOk ==
    ASSUME WorldOk, NEW t \in Thread, Noticed(t)
    PROVE  pending' \subseteq Thread /\ debounce' \in BOOLEAN
BY DEF WorldOk, Noticed

LEMMA WriteMessageStep ==
    ASSUME MonitorInv, NEW t \in Thread, NEW mood \in Mood, WriteMessage(t, mood)
    PROVE  MonitorInv' /\ DoneKept
<1> DEFINE seen == [at |-> disk[t].at + 1, mood |-> mood]
<1>1. /\ disk' = [disk EXCEPT ![t] = seen] /\ disk[t].at < MaxMessages
      /\ Noticed(t) /\ UNCHANGED <<kids, present, onboarded, threads, watched, poll, pass, calls, events>>
  BY DEF WriteMessage
<1>2. seen \in Reading /\ disk[t].at <= seen.at
  <2>1. disk[t].at \in 0..MaxMessages
    BY DEF MonitorInv, WorldOk, Reading
  <2> QED BY <1>1, <2>1, MonitorAssumption DEF Reading
<1> HIDE DEF seen
<1>3. disk' \in [Thread -> Reading] /\ RowsRest' /\ PollReads' /\ CallsRest' /\ DoneKept
  BY <1>1, <1>2, DiskGrows
<1>4. pending' \subseteq Thread /\ debounce' \in BOOLEAN
  BY <1>1, NoticedOk DEF MonitorInv
<1> QED BY <1>1, <1>3, <1>4 DEF MonitorInv, WorldOk

LEMMA EventCounts ==
    ASSUME WorldOk, Event
    PROVE  events' \in 0..MaxEvents /\ events' = events + 1 /\ events \in Nat
BY MonitorAssumption DEF WorldOk, Event

LEMMA ChangeTurnStep ==
    ASSUME MonitorInv, NEW t \in Thread, NEW mood \in Mood, ChangeTurn(t, mood)
    PROVE  MonitorInv' /\ DoneKept
<1> DEFINE seen == [at |-> disk[t].at, mood |-> mood]
<1>1. /\ disk' = [disk EXCEPT ![t] = seen] /\ Event
      /\ Noticed(t) /\ UNCHANGED <<kids, present, onboarded, threads, watched, poll, pass, calls>>
  <2>1. disk[t] \in Reading
    BY DEF MonitorInv, WorldOk
  <2>2. [disk[t] EXCEPT !.mood = mood] = seen
    BY <2>1 DEF Reading
  <2>3. disk' = [disk EXCEPT ![t] = [disk[t] EXCEPT !.mood = mood]]
    BY DEF ChangeTurn
  <2> HIDE DEF seen
  <2> QED BY <2>2, <2>3 DEF ChangeTurn
<1>2. seen \in Reading /\ disk[t].at <= seen.at
  BY MonitorAssumption DEF MonitorInv, WorldOk, Reading
<1> HIDE DEF seen
<1>3. disk' \in [Thread -> Reading] /\ RowsRest' /\ PollReads' /\ CallsRest' /\ DoneKept
  BY <1>1, <1>2, DiskGrows
<1>4. pending' \subseteq Thread /\ debounce' \in BOOLEAN
  BY <1>1, NoticedOk DEF MonitorInv
<1>5. events' \in 0..MaxEvents /\ \A u \in Thread : kids'[u].version <= events'
  <2>1. \A u \in Thread : kids[u].version \in Nat /\ kids[u].version <= events
    BY MonitorAssumption DEF MonitorInv, WorldOk, KidsOf
  <2> QED BY <1>1, <2>1, EventCounts DEF MonitorInv
<1> QED BY <1>1, <1>3, <1>4, <1>5 DEF MonitorInv, WorldOk

LEMMA GrowQuietStep ==
    ASSUME MonitorInv, NEW t \in Thread, GrowQuiet(t)
    PROVE  MonitorInv' /\ DoneKept
<1> DEFINE seen == [at |-> disk[t].at, mood |-> "quiet"]
<1>1. /\ disk' = [disk EXCEPT ![t] = seen]
      /\ UNCHANGED <<kids, present, onboarded, threads, watched, poll, pending, debounce, pass, calls, events>>
  <2>1. disk[t] \in Reading
    BY DEF MonitorInv, WorldOk
  <2>2. [disk[t] EXCEPT !.mood = "quiet"] = seen
    BY <2>1 DEF Reading
  <2>3. disk' = [disk EXCEPT ![t] = [disk[t] EXCEPT !.mood = "quiet"]]
    BY DEF GrowQuiet
  <2> HIDE DEF seen
  <2> QED BY <2>2, <2>3 DEF GrowQuiet, volatile
<1>2. seen \in Reading /\ disk[t].at <= seen.at
  BY MonitorAssumption DEF MonitorInv, WorldOk, Reading, Mood
<1> HIDE DEF seen
<1>3. disk' \in [Thread -> Reading] /\ RowsRest' /\ PollReads' /\ CallsRest' /\ DoneKept
  BY <1>1, <1>2, DiskGrows
<1> QED BY <1>1, <1>3 DEF MonitorInv, WorldOk

\* What no step but the polls and the answers touches.
LEMMA RowsLeftAlone ==
    ASSUME MonitorInv, UNCHANGED <<disk, threads>>
    PROVE  RowsRest' /\ DoneKept
BY DEF MonitorInv, RowsRest, DoneKept

LEMMA PollLeftAlone ==
    ASSUME MonitorInv, UNCHANGED <<disk, poll>> PROVE PollReads'
BY DEF MonitorInv, PollReads

LEMMA CallsLeftAlone ==
    ASSUME MonitorInv, UNCHANGED disk, calls' \subseteq calls PROVE CallsRest'
BY DEF MonitorInv, CallsRest

LEMMA EventInWorld ==
    ASSUME WorldOk, Event, UNCHANGED kids
    PROVE  events' \in 0..MaxEvents /\ \A t \in Thread : kids'[t].version <= events'
<1>1. \A t \in Thread : kids[t].version \in Nat /\ kids[t].version <= events
  BY MonitorAssumption DEF WorldOk, KidsOf
<1> QED BY <1>1, EventCounts

LEMMA RootAppearsStep ==
    ASSUME MonitorInv, NEW r \in Root, RootAppears(r)
    PROVE  MonitorInv' /\ DoneKept
<1>1. /\ UNCHANGED <<disk, kids, onboarded, threads, watched, poll, pending, debounce, pass, calls, events>>
      /\ present' = present \cup {r}
  BY DEF RootAppears, volatile
<1>2. RowsRest' /\ DoneKept /\ PollReads' /\ CallsRest'
  BY <1>1, RowsLeftAlone, PollLeftAlone, CallsLeftAlone
<1> QED BY <1>1, <1>2 DEF MonitorInv, WorldOk

LEMMA FinishSetupStep ==
    ASSUME MonitorInv, FinishSetup
    PROVE  MonitorInv' /\ DoneKept
<1>1. /\ UNCHANGED <<disk, kids, present, threads, watched, poll, pending, debounce, pass, calls, events>>
      /\ onboarded' = TRUE
  BY DEF FinishSetup, volatile
<1>2. RowsRest' /\ DoneKept /\ PollReads' /\ CallsRest'
  BY <1>1, RowsLeftAlone, PollLeftAlone, CallsLeftAlone
<1> QED BY <1>1, <1>2 DEF MonitorInv, WorldOk

LEMMA ChangeChildStep ==
    ASSUME MonitorInv, NEW t \in Thread, NEW busy \in BOOLEAN, ChangeChild(t, busy)
    PROVE  MonitorInv' /\ DoneKept
<1>1. /\ UNCHANGED <<disk, present, onboarded, threads, watched, poll, pending, debounce, pass, calls>>
      /\ Event /\ kids' = [kids EXCEPT ![t] = [version |-> kids[t].version + 1, active |-> busy]]
  BY DEF ChangeChild, volatile, MonitorInv, WorldOk
<1>2. RowsRest' /\ DoneKept /\ PollReads' /\ CallsRest'
  BY <1>1, RowsLeftAlone, PollLeftAlone, CallsLeftAlone
<1>3. /\ events' \in 0..MaxEvents /\ events' = events + 1 /\ events \in Nat
      /\ \A u \in Thread : kids[u] \in KidsOf /\ kids[u].version \in Nat /\ kids[u].version <= events
  BY <1>1, EventCounts, MonitorAssumption DEF MonitorInv, WorldOk, KidsOf
<1>4. kids[t].version + 1 \in 0..MaxEvents
  BY <1>3, MonitorAssumption
<1>5. kids' \in [Thread -> KidsOf] /\ \A u \in Thread : kids'[u].version <= events'
  BY <1>1, <1>3, <1>4 DEF MonitorInv, WorldOk, KidsOf
<1> QED BY <1>1, <1>2, <1>3, <1>5 DEF MonitorInv, WorldOk

-----------------------------------------------------------------------------
(* Polls.                                                                  *)

LEMMA PollStartsOk ==
    ASSUME MonitorInv, NEW full \in BOOLEAN, NEW files \in SUBSET Thread,
           PollStarts(full, files), UNCHANGED <<disk, present>>
    PROVE  PollReads' /\ watched' \subseteq present'
BY DEF MonitorInv, PollReads, PollStarts, Scan, WorldOk, Armed

LEMMA EnrichmentAskedOk ==
    ASSUME WorldOk, EnrichmentAsked
    PROVE  pass' \in [phase : {"off", "queued", "on"}, again : BOOLEAN]
BY DEF WorldOk, EnrichmentAsked

LEMMA DebouncedStep ==
    ASSUME MonitorInv, Debounced
    PROVE  MonitorInv' /\ DoneKept
<1>1. /\ debounce' = FALSE /\ UNCHANGED <<disk, kids, present, onboarded, threads, pass, calls, events>>
      /\ IF poll.phase # "none" THEN UNCHANGED <<watched, poll, pending>>
         ELSE PollStarts(pending = {}, pending) /\ pending' = {}
  BY DEF Debounced, world
<1>2. RowsRest' /\ DoneKept /\ CallsRest'
  BY <1>1, RowsLeftAlone, CallsLeftAlone
<1>3. PollReads' /\ watched' \subseteq present' /\ pending' \subseteq Thread
  <2>1. CASE poll.phase # "none"
    BY <1>1, <2>1, PollLeftAlone DEF MonitorInv, WorldOk
  <2>2. CASE poll.phase = "none"
    <3>1. PICK full \in BOOLEAN : full = (pending = {})
      OBVIOUS
    <3>2. PollStarts(full, pending) /\ pending' = {}
      BY <1>1, <2>2, <3>1
    <3> QED BY <1>1, <3>2, PollStartsOk DEF MonitorInv, WorldOk
  <2> QED BY <2>1, <2>2
<1> QED BY <1>1, <1>2, <1>3 DEF MonitorInv, WorldOk

LEMMA TickStep ==
    ASSUME MonitorInv, Tick
    PROVE  MonitorInv' /\ DoneKept
<1>1. /\ UNCHANGED <<disk, kids, present, onboarded, threads, pending, debounce, calls, events>>
      /\ \/ EnrichmentAsked /\ UNCHANGED <<watched, poll>>
         \/ PollStarts(TRUE, {}) /\ UNCHANGED pass
  BY DEF Tick, world
<1>2. RowsRest' /\ DoneKept /\ CallsRest'
  BY <1>1, RowsLeftAlone, CallsLeftAlone
<1>3. /\ PollReads' /\ watched' \subseteq present'
      /\ pass' \in [phase : {"off", "queued", "on"}, again : BOOLEAN]
  <2>1. CASE EnrichmentAsked /\ UNCHANGED <<watched, poll>>
    BY <1>1, <2>1, PollLeftAlone, EnrichmentAskedOk DEF MonitorInv, WorldOk
  <2>2. CASE PollStarts(TRUE, {}) /\ UNCHANGED pass
    BY <1>1, <2>2, PollStartsOk DEF MonitorInv, WorldOk
  <2> QED BY <1>1, <2>1, <2>2
<1> QED BY <1>1, <1>2, <1>3 DEF MonitorInv, WorldOk

LEMMA OwnerPollStep ==
    ASSUME MonitorInv, NEW ids, OwnerPoll(ids)
    PROVE  MonitorInv' /\ DoneKept
<1>1. /\ UNCHANGED <<disk, kids, present, onboarded, pending, debounce, pass, calls>> /\ Event
      /\ threads' = [t \in Thread |->
            IF t \in ids /\ threads[t].state # "done" THEN [threads[t] EXCEPT !.through = 0]
            ELSE threads[t]]
      /\ IF poll.phase = "none" THEN PollStarts(TRUE, {}) ELSE UNCHANGED <<watched, poll>>
  BY DEF OwnerPoll, world
<1>2. RowsRest' /\ DoneKept
  <2>1. SUFFICES ASSUME NEW t \in Thread
                 PROVE  /\ threads'[t] \in RowOf /\ threads'[t].at = threads[t].at
                        /\ threads'[t].basis = threads[t].basis
                        /\ threads'[t].state = threads[t].state
    BY <1>1 DEF RowsRest, DoneKept, MonitorInv
  <2>2. threads[t] \in RowOf /\ 0 \in 0..MaxMessages
    BY MonitorAssumption DEF MonitorInv, RowsRest
  <2>3. [threads[t] EXCEPT !.through = 0] \in RowOf
    BY <2>2 DEF RowOf
  <2> QED BY <1>1, <2>2, <2>3 DEF RowOf
<1>3. PollReads' /\ watched' \subseteq present'
  <2>1. CASE poll.phase = "none"
    BY <1>1, <2>1, PollStartsOk
  <2>2. CASE poll.phase # "none"
    BY <1>1, <2>2, PollLeftAlone DEF MonitorInv, WorldOk
  <2> QED BY <2>1, <2>2
<1>4. CallsRest'
  BY <1>1, CallsLeftAlone
<1>5. events' \in 0..MaxEvents /\ \A t \in Thread : kids'[t].version <= events'
  BY <1>1, EventInWorld DEF MonitorInv
<1> QED BY <1>1, <1>2, <1>3, <1>4, <1>5 DEF MonitorInv, WorldOk

LEMMA ReadTranscriptsStep ==
    ASSUME MonitorInv, ReadTranscripts
    PROVE  MonitorInv' /\ DoneKept
<1> DEFINE read == {t \in Thread : disk[t].at # 0 /\ (poll.full \/ t \in poll.files)}
<1>1. /\ UNCHANGED <<disk, kids, present, onboarded, threads, watched, pending, debounce, pass, calls, events>>
      /\ poll' = [poll EXCEPT !.phase = "recording", !.rows = [t \in read |-> disk[t]]]
  BY DEF ReadTranscripts, world
<1>2. RowsRest' /\ DoneKept /\ CallsRest'
  BY <1>1, RowsLeftAlone, CallsLeftAlone
<1>3. PollReads'
  <2>1. PICK rows : rows = [t \in read |-> disk[t]]
    OBVIOUS
  <2>2. \A t \in DOMAIN rows : t \in Thread /\ rows[t] \in Reading /\ rows[t].at <= disk[t].at
    BY <2>1, MonitorAssumption DEF MonitorInv, WorldOk, Reading
  <2>3. poll' = [poll EXCEPT !.phase = "recording", !.rows = rows]
    BY <1>1, <2>1
  <2>4. /\ DOMAIN poll' = {"phase", "full", "files", "rows"} /\ poll'.phase = "recording"
        /\ poll'.files = poll.files /\ poll'.rows = rows
    BY <2>3 DEF MonitorInv, PollReads
  <2> QED BY <1>1, <2>2, <2>4 DEF MonitorInv, PollReads
<1> QED BY <1>1, <1>2, <1>3 DEF MonitorInv, WorldOk

LEMMA RecordPollStep ==
    ASSUME MonitorInv, RecordPoll
    PROVE  MonitorInv' /\ DoneKept
<1>1. /\ UNCHANGED <<disk, kids, present, onboarded, watched, pending, calls, events>>
      /\ threads' = [t \in Thread |->
            IF t \in DOMAIN poll.rows THEN Observed(threads[t], poll.rows[t]) ELSE threads[t]]
      /\ EnrichmentAsked /\ poll' = Idle /\ debounce' = (debounce \/ Reschedules(pending))
  BY DEF RecordPoll, PollEnds, world
<1>2. ASSUME NEW t \in Thread
      PROVE  /\ threads'[t] \in RowOf /\ threads'[t].at <= threads'[t].basis
             /\ threads'[t].at <= disk'[t].at
             /\ threads[t].state = "done" /\ threads'[t].state # "done" =>
                   threads'[t].at > threads[t].at
  <2>1. /\ threads[t] \in RowOf /\ threads[t].at <= disk[t].at
        /\ threads[t].at <= threads[t].basis
    BY DEF MonitorInv, RowsRest
  <2>2. CASE t \in DOMAIN poll.rows
    <3>1. PICK seen \in Reading : seen = poll.rows[t] /\ seen.at <= disk[t].at
      BY <2>2 DEF MonitorInv, PollReads
    <3>2. threads'[t] = Observed(threads[t], seen)
      BY <1>1, <2>2, <3>1
    <3> QED BY <1>1, <2>1, <3>1, <3>2, ObservedRow
  <2>3. CASE t \notin DOMAIN poll.rows
    BY <1>1, <2>1, <2>3
  <2> QED BY <2>2, <2>3
<1>3. RowsRest' /\ DoneKept
  BY <1>1, <1>2 DEF RowsRest, DoneKept
<1>4. PollReads'
  BY <1>1 DEF PollReads, Idle
<1>5. CallsRest'
  BY <1>1, CallsLeftAlone
<1>6. pass' \in [phase : {"off", "queued", "on"}, again : BOOLEAN]
  BY <1>1, EnrichmentAskedOk DEF MonitorInv
<1> QED BY <1>1, <1>3, <1>4, <1>5, <1>6 DEF MonitorInv, WorldOk

LEMMA ScanFailsStep ==
    ASSUME MonitorInv, ScanFails
    PROVE  MonitorInv' /\ DoneKept
<1>1. /\ UNCHANGED <<disk, kids, present, onboarded, threads, watched, pending, pass, calls>> /\ Event
      /\ poll' = Idle /\ debounce' = (debounce \/ Reschedules(pending))
  BY DEF ScanFails, PollEnds, world
<1>2. RowsRest' /\ DoneKept /\ CallsRest'
  BY <1>1, RowsLeftAlone, CallsLeftAlone
<1>3. PollReads'
  BY <1>1 DEF PollReads, Idle
<1>4. events' \in 0..MaxEvents /\ \A t \in Thread : kids'[t].version <= events'
  BY <1>1, EventInWorld DEF MonitorInv
<1> QED BY <1>1, <1>2, <1>3, <1>4 DEF MonitorInv, WorldOk

-----------------------------------------------------------------------------
(* Enrichment.                                                             *)

LEMMA StartPassStep ==
    ASSUME MonitorInv, StartPass
    PROVE  MonitorInv' /\ DoneKept
<1>1. PICK selected \in SUBSET Thread :
         /\ UNCHANGED <<disk, kids, present, onboarded, threads, watched, poll, pending, debounce, events>>
         /\ pass' = [phase |-> "on", again |-> FALSE] /\ calls' = CallsFor(selected)
  BY DEF StartPass, world
<1>2. RowsRest' /\ DoneKept /\ PollReads'
  BY <1>1, RowsLeftAlone, PollLeftAlone
<1>3. ASSUME NEW t \in Thread
      PROVE  LET c == [thread |-> t, at |-> threads[t].at, kids |-> kids[t].version,
                       working |-> Working(threads[t], kids[t]), basis |-> 0]
             IN  c \in Call /\ c.at <= disk[t].at
  <2>1. /\ threads[t] \in RowOf /\ kids[t] \in KidsOf /\ threads[t].at <= disk[t].at
        /\ 0 \in 0..MaxMessages
    BY MonitorAssumption DEF MonitorInv, WorldOk, RowsRest
  <2>2. Working(threads[t], kids[t]) \in BOOLEAN
    BY <2>1 DEF Working, KidsOf
  <2>3. threads[t].at \in 0..MaxMessages /\ kids[t].version \in 0..MaxEvents
    BY <2>1 DEF RowOf, KidsOf
  <2> QED BY <2>1, <2>2, <2>3 DEF Call
<1>4. CallsRest'
  <2>1. ASSUME NEW c \in calls'
        PROVE  c \in Call /\ c.at <= disk'[c.thread].at /\ c.basis = 0
    <3>1. PICK t \in Thread :
             c = [thread |-> t, at |-> threads[t].at, kids |-> kids[t].version,
                  working |-> Working(threads[t], kids[t]), basis |-> 0]
      BY <1>1, <2>1 DEF CallsFor
    <3> QED BY <1>1, <1>3, <3>1
  <2> QED BY <2>1 DEF CallsRest
<1> QED BY <1>1, <1>2, <1>4 DEF MonitorInv, WorldOk

LEMMA SampleStep ==
    ASSUME MonitorInv, NEW c \in calls, Sample(c)
    PROVE  MonitorInv' /\ DoneKept
<1> DEFINE sampled == [c EXCEPT !.basis = disk[c.thread].at]
<1>1. /\ UNCHANGED <<disk, kids, present, onboarded, threads, watched, poll, pending, debounce, pass, events>>
      /\ calls' = (calls \ {c}) \cup {sampled}
  BY DEF Sample, world
<1>2. RowsRest' /\ DoneKept /\ PollReads'
  BY <1>1, RowsLeftAlone, PollLeftAlone
<1>3. /\ sampled \in Call /\ sampled.at <= disk[sampled.thread].at
      /\ sampled.at <= sampled.basis
  <2>1. c \in Call /\ c.at <= disk[c.thread].at
    BY DEF MonitorInv, CallsRest
  <2>2. disk[c.thread].at \in 0..MaxMessages
    BY <2>1 DEF MonitorInv, WorldOk, Reading, Call
  <2>3. /\ sampled \in Call /\ sampled.thread = c.thread /\ sampled.at = c.at
        /\ sampled.basis = disk[c.thread].at
    BY <2>1, <2>2 DEF Call
  <2> HIDE DEF sampled
  <2> QED BY <2>1, <2>3
<1> HIDE DEF sampled
<1>4. CallsRest'
  BY <1>1, <1>3 DEF MonitorInv, CallsRest
<1> QED BY <1>1, <1>2, <1>4 DEF MonitorInv, WorldOk

LEMMA AnswerStep ==
    ASSUME MonitorInv, NEW c \in calls, NEW attention \in {"none", "idle", "needs-you"},
           NEW account \in BOOLEAN, Answer(c, attention, account)
    PROVE  MonitorInv' /\ DoneKept
<1>1. /\ UNCHANGED <<disk, kids, present, onboarded, watched, poll, pending, debounce, pass>>
      /\ Event \/ UNCHANGED events
      /\ c.basis # 0 /\ calls' = calls \ {c}
  BY DEF Answer, world
<1>2. /\ c \in Call /\ c.thread \in Thread /\ c.at <= c.basis
      /\ threads[c.thread] \in RowOf /\ kids[c.thread] \in KidsOf
      /\ threads[c.thread].at <= threads[c.thread].basis
      /\ threads \in [Thread -> RowOf] /\ threads[c.thread].at <= disk[c.thread].at
  BY <1>1 DEF MonitorInv, WorldOk, RowsRest, CallsRest, Call
<1>3. RowsRest' /\ DoneKept
  <2>1. CASE Accepts(threads[c.thread], kids[c.thread], c, attention)
    <3>1. PICK had : had = Assessed(threads[c.thread], kids[c.thread], c, attention, account)
      OBVIOUS
    <3>2. /\ had \in RowOf /\ had.at = threads[c.thread].at
          /\ threads[c.thread].at <= had.basis /\ threads[c.thread].state # "done"
      BY <1>2, <2>1, <3>1, AssessedRow
    <3>3. threads' = [threads EXCEPT ![c.thread] = had]
      BY <2>1, <3>1 DEF Answer
    <3> QED BY <1>1, <1>2, <3>2, <3>3 DEF MonitorInv, RowsRest, DoneKept
  <2>2. CASE ~Accepts(threads[c.thread], kids[c.thread], c, attention)
    <3>1. UNCHANGED <<disk, threads>>
      BY <1>1, <2>2 DEF Answer
    <3> QED BY <3>1, RowsLeftAlone
  <2> QED BY <2>1, <2>2
<1>4. PollReads' /\ CallsRest'
  BY <1>1, PollLeftAlone, CallsLeftAlone
<1>5. events' \in 0..MaxEvents /\ \A t \in Thread : kids'[t].version <= events'
  BY <1>1, EventInWorld DEF MonitorInv, WorldOk
<1> QED BY <1>1, <1>3, <1>4, <1>5 DEF MonitorInv, WorldOk

LEMMA CallFailsStep ==
    ASSUME MonitorInv, NEW c \in calls, CallFails(c)
    PROVE  MonitorInv' /\ DoneKept
<1>1. /\ UNCHANGED <<disk, kids, present, onboarded, threads, watched, poll, pending, debounce, pass>>
      /\ Event /\ calls' = calls \ {c}
  BY DEF CallFails, world
<1>2. RowsRest' /\ DoneKept /\ PollReads' /\ CallsRest'
  BY <1>1, RowsLeftAlone, PollLeftAlone, CallsLeftAlone
<1>3. events' \in 0..MaxEvents /\ \A t \in Thread : kids'[t].version <= events'
  BY <1>1, EventInWorld DEF MonitorInv
<1> QED BY <1>1, <1>2, <1>3 DEF MonitorInv, WorldOk

LEMMA EndPassStep ==
    ASSUME MonitorInv, EndPass
    PROVE  MonitorInv' /\ DoneKept
<1>1. /\ UNCHANGED <<disk, kids, present, onboarded, threads, watched, poll, pending, debounce, calls, events>>
      /\ pass' = [pass EXCEPT !.phase = "off"]
  BY DEF EndPass, world
<1>2. RowsRest' /\ DoneKept /\ PollReads' /\ CallsRest'
  BY <1>1, RowsLeftAlone, PollLeftAlone, CallsLeftAlone
<1> QED BY <1>1, <1>2 DEF MonitorInv, WorldOk

-----------------------------------------------------------------------------
(* The owner and the daemon.                                               *)

LEMMA MarkDoneStep ==
    ASSUME MonitorInv, NEW t \in Thread, MarkDone(t)
    PROVE  MonitorInv' /\ DoneKept
<1>1. /\ UNCHANGED <<disk, kids, present, onboarded, watched, poll, pending, debounce, pass, calls>> /\ Event
      /\ threads' = [threads EXCEPT ![t].state = "done", ![t].basis = threads[t].at]
      /\ threads[t].state # "done"
  BY DEF MarkDone, world, volatile
<1>2. /\ threads \in [Thread -> RowOf] /\ threads[t] \in RowOf
      /\ threads[t].at \in 0..MaxMessages /\ threads[t].at <= threads[t].at
  BY MonitorAssumption DEF MonitorInv, RowsRest, RowOf
<1>3. /\ threads' \in [Thread -> RowOf] /\ threads'[t].at = threads[t].at
      /\ threads'[t].basis = threads[t].at
      /\ \A u \in Thread \ {t} : threads'[u] = threads[u]
  BY <1>1, <1>2 DEF RowOf
<1>4. RowsRest' /\ DoneKept
  BY <1>1, <1>2, <1>3 DEF MonitorInv, RowsRest, DoneKept
<1>5. PollReads' /\ CallsRest'
  BY <1>1, PollLeftAlone, CallsLeftAlone
<1>6. events' \in 0..MaxEvents /\ \A u \in Thread : kids'[u].version <= events'
  BY <1>1, EventInWorld DEF MonitorInv
<1> QED BY <1>1, <1>4, <1>5, <1>6 DEF MonitorInv, WorldOk, RowsRest

LEMMA RestartStep ==
    ASSUME MonitorInv, Restart
    PROVE  MonitorInv' /\ DoneKept
<1>1. /\ UNCHANGED <<disk, kids, present, threads>> /\ Event
      /\ onboarded' \in {onboarded, FALSE} /\ watched' \in {present, {}}
      /\ \E phase \in {"reading", "recording"} :
            poll' = [phase |-> phase, full |-> TRUE, files |-> {}, rows |-> <<>>]
      /\ pending' = {} /\ debounce' = FALSE
      /\ pass' = [phase |-> "off", again |-> FALSE] /\ calls' = {}
  BY DEF Restart, Started, Scan
<1>2. RowsRest' /\ DoneKept /\ CallsRest'
  BY <1>1, RowsLeftAlone, CallsLeftAlone
<1>3. PollReads'
  BY <1>1 DEF PollReads
<1>4. events' \in 0..MaxEvents /\ \A t \in Thread : kids'[t].version <= events'
  BY <1>1, EventInWorld DEF MonitorInv
<1> QED BY <1>1, <1>2, <1>3, <1>4 DEF MonitorInv, WorldOk

-----------------------------------------------------------------------------
(* Steps of the monitor, and the theorems.                                 *)

LEMMA StepHolds == MonitorInv /\ [Next]_vars => MonitorInv' /\ DoneKept
<1> SUFFICES ASSUME MonitorInv, [Next]_vars PROVE MonitorInv' /\ DoneKept
  OBVIOUS
<1>1. CASE UNCHANGED vars
  BY <1>1 DEF vars, MonitorInv, WorldOk, RowsRest, PollReads, CallsRest, DoneKept
<1>2. CASE Changes
  BY <1>2, WriteMessageStep, ChangeTurnStep, GrowQuietStep, ChangeChildStep DEF Changes
<1>3. CASE (\E r \in Root : RootAppears(r)) \/ FinishSetup
  BY <1>3, RootAppearsStep, FinishSetupStep
<1>4. CASE Debounced \/ Tick \/ ReadTranscripts \/ RecordPoll \/ ScanFails
  BY <1>4, DebouncedStep, TickStep, ReadTranscriptsStep, RecordPollStep, ScanFailsStep
<1>5. CASE Enrichment
  BY <1>5, StartPassStep, EndPassStep, SampleStep, CallFailsStep, AnswerStep DEF Enrichment
<1>6. CASE \E ids \in SUBSET {t \in Thread : Seen(t)} : OwnerPoll(ids)
  BY <1>6, OwnerPollStep
<1>7. CASE \E t \in Thread : MarkDone(t)
  BY <1>7, MarkDoneStep
<1>8. CASE Restart
  BY <1>8, RestartStep
<1> QED BY <1>1, <1>2, <1>3, <1>4, <1>5, <1>6, <1>7, <1>8 DEF Next

LEMMA InvShows == MonitorInv => AnswerIsCurrent
<1> SUFFICES ASSUME MonitorInv PROVE AnswerIsCurrent
  OBVIOUS
<1>1. TypeOK
  BY DEF MonitorInv, WorldOk, RowsRest, PollReads, TypeOK, Reading, KidsOf, RowOf
<1>2. ASSUME NEW t \in Thread PROVE threads[t].basis >= threads[t].at
  <2>1. threads[t].at <= threads[t].basis
    BY DEF MonitorInv, RowsRest
  <2> QED BY <2>1
<1> QED BY <1>1, <1>2 DEF AnswerIsCurrent

\* However polls, model calls, Done and restarts overlap, what a row says of a stopped
\* thread rests on every message the row has recorded (appendModelDetailsIfFresh).
THEOREM AnswersStayCurrent == Spec => []AnswerIsCurrent
<1>1. MonitorInv /\ [Next]_vars => MonitorInv'
  BY StepHolds
<1> QED BY <1>1, InitHolds, InvShows, PTL DEF Spec

\* The owner's Done holds until a message newer than the thread's last is recorded
\* (holdsDone, appendModelDetailsIfFresh).
THEOREM DoneStays == Spec => DoneHolds
<1>1. MonitorInv /\ [Next]_vars => MonitorInv'
  BY StepHolds
<1>2. MonitorInv /\ [Next]_vars =>
         [\A t \in Thread :
            threads[t].state = "done" /\ threads'[t].state # "done" =>
               threads'[t].at > threads[t].at]_vars
  BY StepHolds DEF DoneKept
<1> QED BY <1>1, <1>2, InitHolds, PTL DEF Spec, DoneHolds

-----------------------------------------------------------------------------
(* The panel. Its rows come back in place because a read that ends a       *)
(* write's wait began after the write (PlacesHold), and stay hidden until  *)
(* then because every write in flight is counted (HidesHold).              *)

Does == {None, "done", "next", "until", "wake", "rename"}
OpOf == [at : {"idle", "posting", "answered", "waiting", "settling", "over"}, does : Does,
         thread : Session \cup {None}, title : Title \cup {Untitled}, rev : Nat]

PanelTypes ==
    /\ rev \in Nat /\ loop \in {"idle", "asked", "carried"} /\ dirty \in BOOLEAN
    /\ op \in [Op -> OpOf]
    /\ writes \in [Session -> Nat] /\ placed \in [Session -> Nat]
    /\ last.rev \in Nat /\ DOMAIN last.rows \subseteq Session
    /\ carried.rev \in Nat /\ DOMAIN carried.rows \subseteq Session

Moving(o)   == op[o].at \in {"posting", "answered", "waiting", "settling"}
InFlight(t) == {o \in Op : Hides(o) /\ Moving(o) /\ op[o].thread = t}

\* A row's writes in flight are what it counts.
HidesHold ==
    /\ \A t \in Session : writes[t] = Cardinality(InFlight(t))
    /\ \A o \in Op : Moving(o) => op[o].thread \in Session
    /\ \A o \in Op : op[o].at \in {"waiting", "settling"} => Hides(o)

\* The rows on the screen, and those on their way, were read at r or later.
Shows(r)    == DOMAIN last.rows # {} => r <= last.rev
Carries(r)  == loop = "carried" => r <= carried.rev

PlacesHold ==
    /\ \A t \in Session : placed[t] <= rev /\ Shows(placed[t]) /\ Carries(placed[t])
    /\ \A o \in Op :
          /\ op[o].rev <= rev
          /\ op[o].at = "waiting" => loop # "idle" /\ (dirty \/ Carries(op[o].rev))
          /\ op[o].at = "settling" => Shows(op[o].rev) /\ Carries(op[o].rev)

\* What a client that reads frames is about to show is current, or a frame waits for it.
SeenHolds ==
    /\ stream = "leading" => loop # "idle"
    /\ stream \in {"leading", "reading"} /\ loop = "carried" /\ ~dirty /\ ~frame =>
          carried.rev = rev
    /\ ChangesAreSeen

PanelInv == PanelTypes /\ HidesHold /\ PlacesHold /\ SeenHolds

LEMMA OpsAreFinite == IsFiniteSet(Op)
BY PanelAssumption, FS_Interval DEF Op

LEMMA Finite ==
    ASSUME NEW t
    PROVE  IsFiniteSet(InFlight(t))
BY OpsAreFinite, FS_Subset DEF InFlight

\* What the daemon answers says when it was read.
LEMMA PayloadIsDated == Payload.rev = rev /\ DOMAIN Payload.rows \subseteq Session
<1>1. Payload.rev = rev
  BY DEF Payload
<1>2. DOMAIN Payload.rows = Visible
  BY DEF Payload
<1> QED BY <1>1, <1>2 DEF Visible

LEMMA NothingIsEmpty ==
    Nothing.rev = 0 /\ DOMAIN Nothing.rows = {} /\ ~Nothing.online
<1>1. DOMAIN <<>> = {}
  BY DEF Nothing
<1> QED BY <1>1 DEF Nothing

LEMMA PanelInvInit == PanelInit => PanelInv
<1> SUFFICES ASSUME PanelInit PROVE PanelInv
  OBVIOUS
<1>1. /\ rev = 0 /\ loop = "idle" /\ dirty = FALSE /\ stream = "off" /\ frame = FALSE
      /\ op = [o \in Op |-> Unasked] /\ writes = [t \in Session |-> 0]
      /\ placed = [t \in Session |-> 0] /\ last = Nothing /\ carried = Nothing
  BY DEF PanelInit
<1>2. Unasked \in OpOf /\ Unasked.at = "idle" /\ Unasked.rev = 0
  BY DEF Unasked, OpOf, Does
<1>3. PanelTypes
  <2>1. 0 \in Nat /\ FALSE \in BOOLEAN /\ loop \in {"idle", "asked", "carried"}
    BY <1>1
  <2>2. op \in [Op -> OpOf] /\ writes \in [Session -> Nat] /\ placed \in [Session -> Nat]
    BY <1>1, <1>2, <2>1
  <2> QED BY <1>1, <2>1, <2>2, NothingIsEmpty DEF PanelTypes
<1>4. HidesHold
  <2>1. \A o \in Op : op[o].at = "idle"
    BY <1>1, <1>2
  <2>2. \A t \in Session : InFlight(t) = {}
    BY <2>1 DEF InFlight, Moving
  <2> QED BY <1>1, <2>1, <2>2, FS_EmptySet DEF HidesHold, Moving
<1>5. PlacesHold
  BY <1>1, <1>2, NothingIsEmpty DEF PlacesHold, Shows, Carries
<1>6. SeenHolds
  BY <1>1 DEF SeenHolds, ChangesAreSeen
<1> QED BY <1>3, <1>4, <1>5, <1>6 DEF PanelInv

-----------------------------------------------------------------------------
(* What a step of the panel leaves alone.                                  *)

\* The same writes are in flight when only those that hide nothing come to an end.
LEMMA SameWrites ==
    ASSUME HidesHold, UNCHANGED writes,
           \A o \in Op :
              /\ Moving(o)' => /\ Moving(o) /\ op'[o].does = op[o].does
                               /\ op'[o].thread = op[o].thread
              /\ Moving(o) /\ Hides(o) => Moving(o)'
              /\ op'[o].at \in {"waiting", "settling"} =>
                    op[o].at \in {"waiting", "settling"} \/ Hides(o)
    PROVE  HidesHold'
<1>1. \A o \in Op : op'[o].at \in {"waiting", "settling"} => Moving(o)'
  BY DEF Moving
<1>2. \A o \in Op : op'[o].does = op[o].does => (Hides(o)' <=> Hides(o))
  BY DEF Hides
<1>3. ASSUME NEW t PROVE InFlight(t)' = InFlight(t)
  BY <1>2 DEF InFlight
<1>4. \A t \in Session : writes'[t] = Cardinality(InFlight(t)')
  BY <1>3 DEF HidesHold
<1>5. \A o \in Op : Moving(o)' => op'[o].thread \in Session
  BY DEF HidesHold
<1>6. \A o \in Op : op'[o].at \in {"waiting", "settling"} => Hides(o)'
  BY <1>1, <1>2 DEF HidesHold
<1> QED BY <1>4, <1>5, <1>6 DEF HidesHold

\* The daemon goes on by itself, with a frame for each change or no stream.
LEMMA TheDaemonGoesOn ==
    ASSUME PanelInv, UNCHANGED client,
           \/ Announce /\ UNCHANGED stream
           \/ /\ UNCHANGED rev
              /\ stream' \in {"off", "open"} \/ UNCHANGED <<stream, frame>>
    PROVE  PanelInv'
<1>1. UNCHANGED <<loop, carried, dirty, last, writes, op, placed>>
  BY DEF client
<1>2. rev' \in Nat /\ rev \in Nat /\ rev <= rev'
  BY DEF PanelInv, PanelTypes, Announce
<1>3. PanelTypes'
  BY <1>1, <1>2 DEF PanelInv, PanelTypes
<1>4. HidesHold'
  <2>1. \A o \in Op : Moving(o)' <=> Moving(o)
    BY <1>1 DEF Moving
  <2> QED BY <1>1, <2>1, SameWrites DEF PanelInv
<1>5. PlacesHold'
  <2>1. ASSUME NEW r \in Nat, r <= rev PROVE r <= rev'
    BY <1>2, <2>1
  <2>2. \A t \in Session : placed[t] \in Nat
    BY DEF PanelInv, PanelTypes
  <2>3. \A o \in Op : op[o].rev \in Nat
    BY DEF PanelInv, PanelTypes, OpOf
  <2> QED BY <1>1, <2>1, <2>2, <2>3 DEF PanelInv, PlacesHold, Shows, Carries
<1>6. SeenHolds'
  <2>1. CASE Announce /\ UNCHANGED stream
    <3>1. frame' = (stream # "off")
      BY <2>1 DEF Announce
    <3> QED BY <1>1, <2>1, <3>1 DEF PanelInv, SeenHolds, ChangesAreSeen
  <2>2. CASE UNCHANGED rev /\ stream' \in {"off", "open"}
    BY <2>2 DEF SeenHolds, ChangesAreSeen
  <2>3. CASE UNCHANGED <<rev, stream, frame>>
    BY <1>1, <2>3 DEF PanelInv, SeenHolds, ChangesAreSeen
  <2> QED BY <2>1, <2>2, <2>3
<1> QED BY <1>3, <1>4, <1>5, <1>6 DEF PanelInv

LEMMA TheWorldMoves ==
    ASSUME PanelInv,
           \/ \E t \in Session : Message(t) \/ Quiet(t) \/ Delegate(t) \/ OtherRename(t)
                                \/ Passes(t)
           \/ Crash \/ Start \/ Subscribe \/ Drop
    PROVE  PanelInv'
<1>1. ASSUME NEW t \in Session, Message(t) \/ Quiet(t) \/ Delegate(t) \/ OtherRename(t)
      PROVE  PanelInv'
  BY <1>1, TheDaemonGoesOn DEF Message, Quiet, Delegate, OtherRename
<1>2. ASSUME NEW t \in Session, Passes(t) PROVE PanelInv'
  BY <1>2, TheDaemonGoesOn DEF Passes
<1>3. CASE Crash
  BY <1>3, TheDaemonGoesOn DEF Crash
<1>4. CASE Start
  BY <1>4, TheDaemonGoesOn DEF Start
<1>5. CASE Subscribe
  BY <1>5, TheDaemonGoesOn DEF Subscribe, daemon
<1>6. CASE Drop
  BY <1>6, TheDaemonGoesOn DEF Drop, daemon
<1> QED BY <1>1, <1>2, <1>3, <1>4, <1>5, <1>6

-----------------------------------------------------------------------------
(* The refresh loop.                                                       *)

\* Whoever asks for a refresh gets a read that has not begun.
LEMMA RefreshHolds ==
    ASSUME PanelInv, Refresh, UNCHANGED <<rev, carried, last, writes, placed>>,
           op' \in [Op -> OpOf],
           \A o \in Op :
              /\ op'[o].rev \in {0, op[o].rev}
              /\ op'[o].at = "settling" => op'[o] = op[o]
              /\ op'[o].at = "waiting" => op[o].at = "waiting" \/ Hides(o)
              /\ Moving(o)' => /\ Moving(o) /\ op'[o].does = op[o].does
                               /\ op'[o].thread = op[o].thread
              /\ Moving(o) /\ Hides(o) => Moving(o)'
    PROVE  PanelInv'
<1>1. /\ loop' \in {"asked", "carried"} /\ dirty' \in BOOLEAN
      /\ loop' = "carried" => loop = "carried" /\ dirty'
  BY DEF Refresh, PanelInv, PanelTypes
<1>2. PanelTypes'
  BY <1>1 DEF PanelInv, PanelTypes
<1>3. HidesHold'
  <2>1. \A o \in Op : op'[o].at \in {"waiting", "settling"} =>
                          op[o].at \in {"waiting", "settling"} \/ Hides(o)
    OBVIOUS
  <2> QED BY <2>1, SameWrites DEF PanelInv
<1>4. PlacesHold'
  <2>1. \A t \in Session : /\ placed'[t] <= rev' /\ Shows(placed[t])' /\ Carries(placed[t])'
    BY <1>1 DEF PanelInv, PlacesHold, Shows, Carries
  <2>2. ASSUME NEW o \in Op PROVE op'[o].rev <= rev'
    BY DEF PanelInv, PanelTypes, PlacesHold
  <2>3. ASSUME NEW o \in Op, op'[o].at = "waiting"
        PROVE  loop' # "idle" /\ (dirty' \/ Carries(op[o].rev)')
    BY <1>1 DEF Carries
  <2>4. ASSUME NEW o \in Op, op'[o].at = "settling"
        PROVE  Shows(op[o].rev)' /\ Carries(op[o].rev)'
    BY <1>1, <2>4 DEF PanelInv, PlacesHold, Shows, Carries
  <2> QED BY <2>1, <2>2, <2>3, <2>4 DEF PlacesHold
<1>5. SeenHolds'
  BY <1>1 DEF SeenHolds, ChangesAreSeen
<1> QED BY <1>2, <1>3, <1>4, <1>5 DEF PanelInv

LEMMA PanelReads ==
    ASSUME PanelInv, Poll \/ Connected \/ Receive
    PROVE  PanelInv'
<1>1. Refresh /\ UNCHANGED <<rev, carried, last, writes, placed>> /\ UNCHANGED op
  BY DEF Poll, Connected, Receive, Reads, daemon
<1>2. \A o \in Op : Moving(o)' <=> Moving(o)
  BY <1>1 DEF Moving
<1>3. op' \in [Op -> OpOf]
  BY <1>1 DEF PanelInv, PanelTypes
<1> QED BY <1>1, <1>2, <1>3, RefreshHolds

LEMMA ServeHolds ==
    ASSUME PanelInv, Serve
    PROVE  PanelInv'
<1>1. /\ loop = "asked" /\ loop' = "carried" /\ carried' = Payload
      /\ UNCHANGED <<rev, frame, stream, dirty, last, writes, op, placed>>
  BY DEF Serve, daemon
<1>2. carried'.rev = rev /\ DOMAIN carried'.rows \subseteq Session
  BY <1>1, PayloadIsDated
<1>3. PanelTypes'
  BY <1>1, <1>2 DEF PanelInv, PanelTypes
<1>4. HidesHold'
  <2>1. \A o \in Op : Moving(o)' <=> Moving(o)
    BY <1>1 DEF Moving
  <2> QED BY <1>1, <2>1, SameWrites DEF PanelInv
<1>5. PlacesHold'
  BY <1>1, <1>2 DEF PanelInv, PlacesHold, Shows, Carries
<1>6. SeenHolds'
  BY <1>1, <1>2 DEF PanelInv, SeenHolds, ChangesAreSeen
<1> QED BY <1>3, <1>4, <1>5, <1>6 DEF PanelInv

\* What a read ends with was read after whoever waited for it had asked.
LEMMA EndsHold ==
    ASSUME PanelInv, Ends, UNCHANGED <<rev, frame, writes, placed>>, loop # "idle",
           \/ loop = "carried" /\ last' = carried
           \/ last' = Nothing
    PROVE  PanelInv'
<1>1. /\ carried' = Nothing /\ dirty' = FALSE
      /\ \/ dirty /\ loop' = "asked" /\ UNCHANGED <<op, stream>>
         \/ /\ ~dirty /\ loop' = "idle"
            /\ op' = [o \in Op |-> IF op[o].at = "waiting" THEN [op[o] EXCEPT !.at = "settling"]
                                   ELSE op[o]]
            /\ stream' = IF stream = "leading" THEN "reading" ELSE stream
  BY DEF Ends, PanelInv, PanelTypes
<1>2. op \in [Op -> OpOf]
  BY DEF PanelInv, PanelTypes
<1>3. ASSUME NEW o \in Op
      PROVE  /\ op'[o] \in OpOf
             /\ op'[o].does = op[o].does /\ op'[o].thread = op[o].thread
             /\ op'[o].rev = op[o].rev
             /\ \/ op'[o].at = op[o].at /\ (op'[o].at = "waiting" => dirty)
                \/ op[o].at = "waiting" /\ op'[o].at = "settling" /\ ~dirty
  <2>1. op[o] \in OpOf
    BY <1>2
  <2>2. CASE dirty
    BY <1>1, <2>1, <2>2
  <2>3. CASE ~dirty /\ op[o].at = "waiting"
    <3>1. op'[o] = [op[o] EXCEPT !.at = "settling"]
      BY <1>1, <2>3
    <3> QED BY <2>1, <2>3, <3>1 DEF OpOf
  <2>4. CASE ~dirty /\ op[o].at # "waiting"
    BY <1>1, <2>1, <2>4
  <2> QED BY <2>2, <2>3, <2>4
<1>4. op' \in [Op -> OpOf]
  <2>1. op' = [o \in Op |-> op'[o]]
    BY <1>1, <1>2
  <2> QED BY <1>3, <2>1
<1>5. PanelTypes'
  <2>1. Nothing.rev \in Nat /\ DOMAIN Nothing.rows \subseteq Session
    BY NothingIsEmpty
  <2>2. last'.rev \in Nat /\ DOMAIN last'.rows \subseteq Session
    BY <2>1 DEF PanelInv, PanelTypes
  <2>3. carried'.rev \in Nat /\ DOMAIN carried'.rows \subseteq Session
    BY <1>1, <2>1
  <2>4. loop' \in {"idle", "asked", "carried"} /\ dirty' \in BOOLEAN
    BY <1>1
  <2> QED BY <1>4, <2>2, <2>3, <2>4 DEF PanelInv, PanelTypes
<1>6. HidesHold'
  <2>1. \A o \in Op : Moving(o)' <=> Moving(o)
    BY <1>3 DEF Moving
  <2>2. \A o \in Op : op'[o].at \in {"waiting", "settling"} =>
                          op[o].at \in {"waiting", "settling"}
    BY <1>3
  <2> QED BY <1>3, <2>1, <2>2, SameWrites DEF PanelInv
<1>7. loop' # "carried"
  BY <1>1
<1>8. ASSUME NEW r, Carries(r) PROVE Shows(r)'
  BY <1>8, NothingIsEmpty DEF Carries, Shows
<1>9. PlacesHold'
  <2>1. \A t \in Session : placed'[t] <= rev' /\ Shows(placed[t])' /\ Carries(placed[t])'
    <3>1. \A t \in Session : Carries(placed[t])
      BY DEF PanelInv, PlacesHold
    <3>2. \A t \in Session : Shows(placed[t])'
      BY <3>1, <1>8 DEF Shows
    <3> QED BY <1>7, <3>2 DEF PanelInv, PlacesHold, Carries
  <2>2. \A o \in Op : op'[o].rev <= rev'
    BY <1>3 DEF PanelInv, PlacesHold
  <2>3. ASSUME NEW o \in Op, op'[o].at = "waiting" PROVE loop' # "idle"
    BY <1>1, <1>3, <2>3
  <2>4. ASSUME NEW o \in Op, op'[o].at = "settling" PROVE Shows(op[o].rev)'
    <3>1. Carries(op[o].rev)
      BY <1>3, <2>4 DEF PanelInv, PlacesHold
    <3>2. PICK r : r = op[o].rev
      OBVIOUS
    <3>3. Shows(r)'
      BY <1>8, <3>1, <3>2
    <3> QED BY <1>3, <3>2, <3>3 DEF Shows
  <2> QED BY <1>7, <2>1, <2>2, <2>3, <2>4 DEF PlacesHold, Carries
<1>10. SeenHolds'
  <2>1. CASE dirty
    BY <1>1, <2>1 DEF SeenHolds, ChangesAreSeen
  <2>2. CASE ~dirty
    <3>1. stream' # "leading" /\ (stream' = "reading" => stream \in {"leading", "reading"})
      BY <1>1, <2>2
    <3>2. ChangesAreSeen'
      BY <2>2, <3>1, NothingIsEmpty DEF PanelInv, SeenHolds, ChangesAreSeen
    <3> QED BY <1>7, <3>1, <3>2 DEF SeenHolds
  <2> QED BY <2>1, <2>2
<1> QED BY <1>5, <1>6, <1>9, <1>10 DEF PanelInv

LEMMA AnswersHold ==
    ASSUME PanelInv, Arrive \/ Disconnect
    PROVE  PanelInv'
BY EndsHold DEF Arrive, Disconnect, daemon

-----------------------------------------------------------------------------
(* The owner's actions.                                                    *)

\* What becomes of an action that is over.
LEMMA OverIsOver ==
    ASSUME PanelInv, NEW o \in Op
    PROVE  Over(o) \in OpOf /\ Over(o).at = "over" /\ Over(o).rev \in {0, op[o].rev}
<1>1. op[o] \in OpOf
  BY DEF PanelInv, PanelTypes
<1>2. Past \in OpOf /\ Past.at = "over" /\ Past.rev = 0
  BY DEF Past, Unasked, OpOf, Does
<1> QED BY <1>1, <1>2 DEF Over, OpOf

\* One action moves on.
LEMMA OneActs ==
    ASSUME PanelInv, NEW o \in Op, NEW to \in OpOf, op' = [op EXCEPT ![o] = to]
    PROVE  /\ op' \in [Op -> OpOf] /\ op'[o] = to
           /\ \A p \in Op \ {o} : op'[p] = op[p]
BY DEF PanelInv, PanelTypes

\* An action moves on, and what is read and shown stays.
LEMMA ActionHolds ==
    ASSUME PanelInv, NEW o \in Op, NEW to \in OpOf, op' = [op EXCEPT ![o] = to],
           UNCHANGED <<loop, carried, dirty, last, placed>>, HidesHold',
           writes' \in [Session -> Nat],
           to.at \notin {"waiting", "settling"} \/ to = op[o],
           \/ UNCHANGED <<rev, stream, frame>> /\ to.rev <= rev
           \/ Announce /\ UNCHANGED stream /\ to.rev <= rev'
    PROVE  PanelInv'
<1>1. /\ op' \in [Op -> OpOf] /\ op'[o] = to
      /\ \A p \in Op \ {o} : op'[p] = op[p]
  BY OneActs
<1>2. rev' \in Nat /\ rev \in Nat /\ rev <= rev'
  BY DEF PanelInv, PanelTypes, Announce
<1>3. PanelTypes'
  BY <1>1, <1>2 DEF PanelInv, PanelTypes
<1>4. PlacesHold'
  <2>1. ASSUME NEW r \in Nat, r <= rev PROVE r <= rev'
    BY <1>2, <2>1
  <2>2. \A t \in Session : placed[t] \in Nat
    BY DEF PanelInv, PanelTypes
  <2>3. \A t \in Session : /\ placed'[t] <= rev' /\ Shows(placed[t])' /\ Carries(placed[t])'
    BY <2>1, <2>2 DEF PanelInv, PlacesHold, Shows, Carries
  <2>4. ASSUME NEW p \in Op
        PROVE  /\ op'[p].rev <= rev'
               /\ op'[p].at = "waiting" => loop' # "idle" /\ (dirty' \/ Carries(op[p].rev)')
               /\ op'[p].at = "settling" => Shows(op[p].rev)' /\ Carries(op[p].rev)'
    <3>1. CASE op'[p] = op[p]
      <4>1. op[p].rev \in Nat
        BY DEF PanelInv, PanelTypes, OpOf
      <4> QED BY <2>1, <3>1, <4>1 DEF PanelInv, PlacesHold, Shows, Carries
    <3>2. CASE p = o /\ to # op[o]
      BY <1>1, <1>2, <3>2
    <3> QED BY <1>1, <3>1, <3>2
  <2> QED BY <2>3, <2>4 DEF PlacesHold
<1>5. SeenHolds'
  <2>1. CASE Announce /\ UNCHANGED stream
    <3>1. frame' = (stream # "off")
      BY <2>1 DEF Announce
    <3> QED BY <2>1, <3>1 DEF PanelInv, SeenHolds, ChangesAreSeen
  <2>2. CASE UNCHANGED <<rev, stream, frame>>
    BY <2>2 DEF PanelInv, SeenHolds, ChangesAreSeen
  <2> QED BY <2>1, <2>2
<1> QED BY <1>3, <1>4, <1>5 DEF PanelInv

LEMMA ActHolds ==
    ASSUME PanelInv, NEW o \in Op, Act(o)
    PROVE  PanelInv'
<1>1. PICK t \in DOMAIN last.rows, does \in {"done", "next", "until", "wake", "rename"},
           title \in Title \cup {Untitled} :
         /\ op' = [op EXCEPT ![o] = [at |-> "posting", does |-> does, thread |-> t,
                                     title |-> title, rev |-> 0]]
         /\ IF does = "rename" THEN UNCHANGED writes ELSE writes' = [writes EXCEPT ![t] = @ + 1]
  BY DEF Act
<1>2. /\ op[o].at = "idle"
      /\ UNCHANGED <<rev, frame, stream, loop, carried, dirty, last, placed>>
  BY DEF Act, daemon
<1>3. PICK to : to = [at |-> "posting", does |-> does, thread |-> t, title |-> title, rev |-> 0]
  OBVIOUS
<1>4. /\ t \in Session /\ to \in OpOf /\ to.at = "posting" /\ to.does = does
      /\ to.thread = t /\ to.rev = 0
  BY <1>3 DEF PanelInv, PanelTypes, OpOf, Does
<1>5. /\ op' = [op EXCEPT ![o] = to] /\ op'[o] = to
      /\ \A p \in Op \ {o} : op'[p] = op[p]
  BY <1>1, <1>3, <1>4, OneActs
<1>6. writes \in [Session -> Nat] /\ writes' \in [Session -> Nat]
  <2>1. writes \in [Session -> Nat]
    BY DEF PanelInv, PanelTypes
  <2>2. writes[t] + 1 \in Nat
    BY <1>4, <2>1
  <2> QED BY <1>1, <2>1, <2>2
<1>7. HidesHold'
  <2>1. \A s : o \notin InFlight(s)
    BY <1>2 DEF InFlight, Moving
  <2>2. /\ Moving(o)' /\ (Hides(o)' <=> does # "rename")
        /\ \A p \in Op \ {o} : (Moving(p)' <=> Moving(p)) /\ (Hides(p)' <=> Hides(p))
    BY <1>4, <1>5 DEF Moving, Hides
  <2>3. \A s : does = "rename" \/ s # t => InFlight(s)' = InFlight(s)
    BY <1>4, <1>5, <2>1, <2>2 DEF InFlight
  <2>4. does # "rename" => InFlight(t)' = InFlight(t) \cup {o}
    BY <1>4, <1>5, <2>2 DEF InFlight
  <2>5. ASSUME NEW s \in Session PROVE writes'[s] = Cardinality(InFlight(s)')
    <3>1. writes[s] = Cardinality(InFlight(s))
      BY DEF PanelInv, HidesHold
    <3>2. CASE does = "rename" \/ s # t
      BY <1>1, <1>4, <1>6, <2>3, <3>1, <3>2
    <3>3. CASE does # "rename" /\ s = t
      <4>1. Cardinality(InFlight(t) \cup {o}) = Cardinality(InFlight(t)) + 1
        BY <2>1, Finite, FS_AddElement
      <4> QED BY <1>1, <1>6, <2>4, <3>1, <3>3, <4>1
    <3> QED BY <3>2, <3>3
  <2>6. \A p \in Op : Moving(p)' => op'[p].thread \in Session
    BY <1>4, <1>5, <2>2 DEF PanelInv, HidesHold
  <2>7. \A p \in Op : op'[p].at \in {"waiting", "settling"} => Hides(p)'
    BY <1>4, <1>5, <2>2 DEF PanelInv, HidesHold
  <2> QED BY <2>5, <2>6, <2>7 DEF HidesHold
<1>8. to.rev <= rev
  BY <1>4 DEF PanelInv, PanelTypes
<1> QED BY <1>2, <1>4, <1>5, <1>6, <1>7, <1>8, ActionHolds

LEMMA ExecuteHolds ==
    ASSUME PanelInv, NEW o \in Op, Execute(o)
    PROVE  PanelInv'
<1>1. /\ UNCHANGED <<stream, loop, carried, dirty, last, writes, placed>>
      /\ UNCHANGED <<rev, frame>> \/ Announce
  BY DEF Execute
<1>2. rev' \in Nat /\ rev \in Nat /\ op[o] \in OpOf /\ op \in [Op -> OpOf] /\ op[o].rev <= rev
      /\ rev <= rev'
  BY <1>1 DEF PanelInv, PanelTypes, Announce, PlacesHold
<1>3. PICK to \in OpOf :
         /\ op' = [op EXCEPT ![o] = to] /\ to.rev <= rev'
         /\ \/ to = op[o]
            \/ op[o].at = "posting" /\ to.at = "answered"
               /\ to.does = op[o].does /\ to.thread = op[o].thread
            \/ op[o].at = "over" /\ to.at = "over"
  <2>1. CASE op[o].at = "posting"
    <3>1. PICK to : to = [op[o] EXCEPT !.at = "answered", !.rev = rev']
      OBVIOUS
    <3>2. /\ to \in OpOf /\ to.at = "answered" /\ to.rev = rev'
          /\ to.does = op[o].does /\ to.thread = op[o].thread
      BY <1>2, <3>1 DEF OpOf
    <3>3. op' = [op EXCEPT ![o] = to]
      BY <1>2, <2>1, <3>1 DEF Execute
    <3>4. to.rev <= rev'
      BY <1>2, <3>2
    <3> QED BY <2>1, <3>2, <3>3, <3>4
  <2>2. CASE op[o].at = "over"
    <3>1. Past \in OpOf /\ Past.at = "over" /\ Past.rev = 0
      BY DEF Past, Unasked, OpOf, Does
    <3>2. op' = [op EXCEPT ![o] = Past]
      BY <2>2 DEF Execute
    <3>3. Past.rev <= rev'
      BY <1>2, <3>1
    <3> QED BY <2>2, <3>1, <3>2, <3>3
  <2>3. CASE op[o].at \notin {"posting", "over"}
    <3>1. op' = op
      BY <2>3 DEF Execute
    <3>2. op' = [op EXCEPT ![o] = op[o]]
      BY <1>2, <3>1
    <3>3. op[o].rev \in Nat /\ op[o].rev <= rev'
      BY <1>2 DEF OpOf
    <3> QED BY <1>2, <3>2, <3>3
  <2> QED BY <2>1, <2>2, <2>3
<1>4. op'[o] = to /\ \A p \in Op \ {o} : op'[p] = op[p]
  BY <1>3, OneActs
<1>5. HidesHold'
  <2>1. \A p \in Op \ {o} : Moving(p)' <=> Moving(p)
    BY <1>4 DEF Moving
  <2>2. /\ Moving(o)' <=> Moving(o)
        /\ Moving(o) => to.does = op[o].does /\ to.thread = op[o].thread
        /\ to.at \in {"waiting", "settling"} => op[o].at \in {"waiting", "settling"}
    BY <1>3, <1>4 DEF Moving
  <2> QED BY <1>1, <1>4, <2>1, <2>2, SameWrites DEF PanelInv
<1>6. to.at \notin {"waiting", "settling"} \/ to = op[o]
  BY <1>3
<1>7. writes' \in [Session -> Nat]
  BY <1>1 DEF PanelInv, PanelTypes
<1> QED BY <1>1, <1>3, <1>5, <1>6, <1>7, ActionHolds

LEMMA RefuseHolds ==
    ASSUME PanelInv, NEW o \in Op, Refuse(o)
    PROVE  PanelInv'
<1>1. /\ op[o].at = "posting" /\ op' = [op EXCEPT ![o].at = "answered"]
      /\ UNCHANGED <<rev, frame, stream, loop, carried, dirty, last, writes, placed>>
  BY DEF Refuse, daemon
<1>2. op[o] \in OpOf /\ op \in [Op -> OpOf] /\ op[o].rev <= rev
  BY DEF PanelInv, PanelTypes, PlacesHold
<1>3. PICK to : to = [op[o] EXCEPT !.at = "answered"]
  OBVIOUS
<1>4. /\ to \in OpOf /\ to.at = "answered" /\ to.rev = op[o].rev
      /\ to.does = op[o].does /\ to.thread = op[o].thread
  BY <1>2, <1>3 DEF OpOf
<1>5. /\ op' = [op EXCEPT ![o] = to] /\ op'[o] = to
      /\ \A p \in Op \ {o} : op'[p] = op[p]
  BY <1>1, <1>2, <1>3, <1>4
<1>6. HidesHold'
  <2>1. \A p \in Op : Moving(p)' <=> Moving(p)
    BY <1>1, <1>4, <1>5 DEF Moving
  <2> QED BY <1>1, <1>4, <1>5, <2>1, SameWrites DEF PanelInv
<1>7. writes' \in [Session -> Nat]
  BY <1>1 DEF PanelInv, PanelTypes
<1> QED BY <1>1, <1>2, <1>4, <1>5, <1>6, <1>7, ActionHolds

LEMMA ReturnHolds ==
    ASSUME PanelInv, NEW o \in Op, Return(o)
    PROVE  PanelInv'
<1>1. /\ Hides(o) /\ op[o].at \in {"posting", "answered"} /\ Refresh
      /\ op' = [op EXCEPT ![o].at = "waiting"]
      /\ UNCHANGED <<rev, carried, last, writes, placed>>
  BY DEF Return, Refetches, daemon
<1>2. op[o] \in OpOf /\ op \in [Op -> OpOf]
  BY DEF PanelInv, PanelTypes
<1>3. PICK to : to = [op[o] EXCEPT !.at = "waiting"]
  OBVIOUS
<1>4. /\ to \in OpOf /\ to.at = "waiting" /\ to.rev = op[o].rev
      /\ to.does = op[o].does /\ to.thread = op[o].thread
  BY <1>2, <1>3 DEF OpOf
<1>5. /\ op' \in [Op -> OpOf] /\ op'[o] = to
      /\ \A p \in Op \ {o} : op'[p] = op[p]
  BY <1>1, <1>2, <1>3, <1>4
<1>6. \A p \in Op : Moving(p)' <=> Moving(p)
  BY <1>1, <1>4, <1>5 DEF Moving
<1> QED BY <1>1, <1>4, <1>5, <1>6, RefreshHolds

\* A rename that is over: it hid nothing.
LEMMA RenamesEnd ==
    ASSUME PanelInv, NEW o \in Op, ~Hides(o), op' = [op EXCEPT ![o] = Over(o)]
    PROVE  /\ op' \in [Op -> OpOf] /\ op'[o] = Over(o)
           /\ \A p \in Op \ {o} : op'[p] = op[p] /\ (Moving(p)' <=> Moving(p))
           /\ ~Moving(o)' /\ op'[o].at = "over"
<1>1. PICK to \in OpOf : to = Over(o) /\ to.at = "over"
  BY OverIsOver
<1>2. /\ op' \in [Op -> OpOf] /\ op'[o] = to /\ \A p \in Op \ {o} : op'[p] = op[p]
  BY <1>1, OneActs
<1> QED BY <1>1, <1>2 DEF Moving

LEMMA RenamedHolds ==
    ASSUME PanelInv, NEW o \in Op, Renamed(o)
    PROVE  PanelInv'
<1>1. /\ ~Hides(o) /\ Refresh /\ op' = [op EXCEPT ![o] = Over(o)]
      /\ UNCHANGED <<rev, carried, last, writes, placed>>
  BY DEF Renamed, daemon
<1>2. Over(o).rev \in {0, op[o].rev}
  BY OverIsOver
<1> QED BY <1>1, <1>2, RenamesEnd, RefreshHolds

LEMMA RenameFailsHolds ==
    ASSUME PanelInv, NEW o \in Op, RenameFails(o)
    PROVE  PanelInv'
<1>1. /\ ~Hides(o) /\ op' = [op EXCEPT ![o] = Over(o)]
      /\ UNCHANGED <<rev, frame, stream, loop, carried, dirty, last, writes, placed>>
  BY DEF RenameFails, daemon
<1>2. PICK to \in OpOf : to = Over(o) /\ to.at = "over" /\ to.rev \in {0, op[o].rev}
  BY OverIsOver
<1>3. HidesHold'
  BY <1>1, RenamesEnd, SameWrites DEF PanelInv
<1>4. to.rev <= rev
  BY <1>2 DEF PanelInv, PanelTypes, PlacesHold
<1>5. writes' \in [Session -> Nat]
  BY <1>1 DEF PanelInv, PanelTypes
<1> QED BY <1>1, <1>2, <1>3, <1>4, <1>5, ActionHolds

LEMMA SettleHolds ==
    ASSUME PanelInv, NEW o \in Op, Settle(o)
    PROVE  PanelInv'
<1>0. PICK t, r : t = op[o].thread /\ r = op[o].rev
  OBVIOUS
<1>1. /\ op[o].at = "settling" /\ op' = [op EXCEPT ![o] = Over(o)]
      /\ writes' = [writes EXCEPT ![t] = @ - 1]
      /\ placed' = IF r > placed[t] THEN [placed EXCEPT ![t] = r] ELSE placed
      /\ UNCHANGED <<rev, frame, stream, loop, carried, dirty, last>>
  BY <1>0 DEF Settle, Settled, daemon
<1>2. /\ t \in Session /\ Hides(o) /\ r \in Nat /\ r <= rev /\ Shows(r) /\ Carries(r)
      /\ op[o] \in OpOf
  BY <1>0, <1>1 DEF PanelInv, PanelTypes, HidesHold, PlacesHold, Moving, OpOf
<1>3. PICK to \in OpOf : to = Over(o) /\ to.at = "over" /\ to.rev \in {0, op[o].rev}
  BY OverIsOver
<1>4. /\ op' = [op EXCEPT ![o] = to] /\ op' \in [Op -> OpOf] /\ op'[o] = to
      /\ \A p \in Op \ {o} : op'[p] = op[p]
  BY <1>1, <1>3, OneActs
<1>5. /\ writes \in [Session -> Nat] /\ placed \in [Session -> Nat] /\ rev \in Nat
  BY DEF PanelInv, PanelTypes
<1>6. /\ \A s : s # t => InFlight(s)' = InFlight(s)
      /\ InFlight(t)' = InFlight(t) \ {o} /\ o \in InFlight(t)
  <2>1. /\ ~Moving(o)' /\ Moving(o)
        /\ \A p \in Op \ {o} : (Moving(p)' <=> Moving(p)) /\ (Hides(p)' <=> Hides(p))
    BY <1>1, <1>3, <1>4 DEF Moving, Hides
  <2>2. o \in InFlight(t) /\ \A s : s # t => o \notin InFlight(s)
    BY <1>0, <1>2, <2>1 DEF InFlight
  <2>3. \A s : InFlight(s)' = InFlight(s) \ {o}
    BY <1>4, <2>1 DEF InFlight
  <2>4. \A s : s # t => InFlight(s) \ {o} = InFlight(s)
    BY <2>2
  <2> QED BY <2>2, <2>3, <2>4
<1>7. ASSUME NEW s \in Session
      PROVE  writes'[s] \in Nat /\ writes'[s] = Cardinality(InFlight(s)')
  <2>1. writes[s] = Cardinality(InFlight(s))
    BY DEF PanelInv, HidesHold
  <2>2. CASE s # t
    BY <1>1, <1>5, <1>6, <2>1, <2>2
  <2>3. CASE s = t
    <3>1. /\ Cardinality(InFlight(t) \ {o}) = Cardinality(InFlight(t)) - 1
          /\ IsFiniteSet(InFlight(t) \ {o})
      BY <1>6, Finite, FS_RemoveElement
    <3>2. Cardinality(InFlight(t) \ {o}) \in Nat
      BY <3>1, FS_CardinalityType
    <3>3. writes'[t] = writes[t] - 1
      BY <1>1, <1>2, <1>5
    <3> QED BY <1>6, <2>1, <2>3, <3>1, <3>2, <3>3
  <2> QED BY <2>2, <2>3
<1>8. PanelTypes'
  <2>1. writes' \in [Session -> Nat]
    BY <1>1, <1>5, <1>7
  <2>2. placed' \in [Session -> Nat]
    BY <1>1, <1>2, <1>5
  <2> QED BY <1>1, <1>4, <2>1, <2>2 DEF PanelInv, PanelTypes
<1>9. HidesHold'
  <2>1. \A p \in Op : Moving(p)' => Moving(p) /\ op'[p] = op[p]
    BY <1>3, <1>4 DEF Moving
  <2>2. \A p \in Op : op'[p].at \in {"waiting", "settling"} => op'[p] = op[p]
    BY <1>3, <1>4
  <2> QED BY <1>7, <2>1, <2>2 DEF PanelInv, HidesHold, Hides
<1>10. PlacesHold'
  <2>1. ASSUME NEW s \in Session
        PROVE  placed'[s] <= rev' /\ Shows(placed[s])' /\ Carries(placed[s])'
    <3>1. placed'[s] = placed[s] \/ placed'[s] = r
      BY <1>1, <1>2, <1>5
    <3>2. placed[s] <= rev /\ Shows(placed[s]) /\ Carries(placed[s])
      BY DEF PanelInv, PlacesHold
    <3> QED BY <1>1, <1>2, <3>1, <3>2 DEF Shows, Carries
  <2>2. ASSUME NEW p \in Op
        PROVE  /\ op'[p].rev <= rev'
               /\ op'[p].at = "waiting" => loop' # "idle" /\ (dirty' \/ Carries(op[p].rev)')
               /\ op'[p].at = "settling" => Shows(op[p].rev)' /\ Carries(op[p].rev)'
    <3>1. CASE p # o
      BY <1>1, <1>4, <3>1 DEF PanelInv, PlacesHold, Shows, Carries
    <3>2. CASE p = o
      BY <1>0, <1>1, <1>2, <1>3, <1>4, <1>5, <3>2
    <3> QED BY <3>1, <3>2
  <2> QED BY <2>1, <2>2 DEF PlacesHold
<1>11. SeenHolds'
  BY <1>1 DEF PanelInv, SeenHolds, ChangesAreSeen
<1> QED BY <1>8, <1>9, <1>10, <1>11 DEF PanelInv

-----------------------------------------------------------------------------
(* What the owner is shown.                                                *)

LEMMA PanelInvStays == PanelInv /\ [PanelNext]_panelVars => PanelInv'
<1> SUFFICES ASSUME PanelInv, [PanelNext]_panelVars PROVE PanelInv'
  OBVIOUS
<1>1. ASSUME NEW o \in Op, OwnerStep(o) PROVE PanelInv'
  BY <1>1, ExecuteHolds, ReturnHolds, SettleHolds, RenamedHolds, RenameFailsHolds DEF OwnerStep
<1>2. ASSUME NEW o \in Op, Act(o) \/ Refuse(o) PROVE PanelInv'
  BY <1>2, ActHolds, RefuseHolds
<1>3. CASE Serve \/ Arrive \/ Disconnect \/ Poll \/ Connected \/ Receive
  BY <1>3, ServeHolds, AnswersHold, PanelReads
<1>4. CASE \/ \E t \in Session : Message(t) \/ Quiet(t) \/ Delegate(t) \/ OtherRename(t)
                                \/ Passes(t)
           \/ Crash \/ Start \/ Subscribe \/ Drop
  BY <1>4, TheWorldMoves
<1>5. CASE UNCHANGED panelVars
  BY <1>5, TheDaemonGoesOn DEF panelVars, client
<1> QED BY <1>1, <1>2, <1>3, <1>4, <1>5 DEF PanelNext

LEMMA PanelInvShows == PanelInv => ShownInPlace
<1> SUFFICES ASSUME PanelInv PROVE ShownInPlace
  OBVIOUS
<1>1. PlacedByTheDaemon
  BY DEF PanelInv, PanelTypes, PlacesHold, Shows, Shown, PlacedByTheDaemon
<1>2. HiddenWhileWriting
  <2> SUFFICES ASSUME NEW o \in Op, Hides(o), Moving(o),
                      NEW t \in Shown, op[o].thread \in Ancestors(t, last.rows)
               PROVE  FALSE
    BY DEF HiddenWhileWriting, Moving
  <2>1. PICK s \in Session : s = op[o].thread
    BY DEF PanelInv, HidesHold
  <2>2. o \in InFlight(s)
    BY <2>1 DEF InFlight
  <2>3. writes[s] = Cardinality(InFlight(s))
    BY DEF PanelInv, HidesHold
  <2>4. writes[s] # 0
    BY <2>2, <2>3, Finite, FS_EmptySet
  <2> QED BY <2>1, <2>4 DEF Shown
<1> QED BY <1>1, <1>2 DEF ShownInPlace

\* For any sessions and any number of actions, changes and failures: a row that the owner
\* has acted on is hidden with what was delegated from it until the last write to it has
\* settled, and comes back as a read that began after the write has it (refresh,
\* hideThenWrite and buildSnapshot in the widget's DaemonClient.swift and Model.swift).
THEOREM RowsComeBackInPlace == PanelSpec => []ShownInPlace
<1> QED BY PanelInvInit, PanelInvStays, PanelInvShows, PTL DEF PanelSpec

\* And a panel at rest, connected and with no frame waiting, shows what the daemon last
\* announced: no frame is lost with the read it interrupts (refresh and startSSE).
THEOREM ChangesAreNotMissed == PanelSpec => []ChangesAreSeen
<1>1. PanelInv => ChangesAreSeen
  BY DEF PanelInv, SeenHolds
<1> QED BY <1>1, PanelInvInit, PanelInvStays, PTL DEF PanelSpec
=============================================================================
