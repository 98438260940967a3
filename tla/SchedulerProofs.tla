--------------------------- MODULE SchedulerProofs ---------------------------
(***************************************************************************)
(* What holds of Scheduler for every finite set of schedules, every set of *)
(* threads and every number of rows, messages, edits and faults.           *)
(*                                                                         *)
(* First what a loop's step does to the tables (ProceedClaims), then the   *)
(* inductive invariant in three parts: types, the claims ledger, and the   *)
(* hold of the queue on the schedules.                                     *)
(***************************************************************************)
EXTENDS Scheduler, WellFoundedInduction, FiniteSetTheorems, SequenceTheorems, TLAPS

\* A nonempty set of natural numbers has a least element.
LEMMA LeastNumber ==
    ASSUME NEW S, S \subseteq Nat, S # {}
    PROVE  \E m \in S : \A k \in S : m <= k
<1> DEFINE R == OpToRel(<, Nat)
<1>1. \A x, y \in Nat : <<x, y>> \in R <=> x < y
  BY DEF OpToRel
<1>2. IsWellFoundedOn(R, Nat)
  BY NatLessThanWellFounded
<1> HIDE DEF R
<1>3. PICK x \in S : \A y \in S : <<y, x>> \notin R
  BY <1>2, WFMin
<1>4. ASSUME NEW y \in S PROVE x <= y
  <2>1. x \in Nat /\ y \in Nat /\ ~(y < x)
    BY <1>1, <1>3
  <2> QED BY <2>1
<1> QED BY <1>4

Rows  == [Row -> RowRecord]
Loops == [Row -> Loop]

-----------------------------------------------------------------------------
(* The first unused row, and the lists the loops read.                     *)

LEMMA NewRowIsUnused ==
    ASSUME NEW db \in Rows, Unused(db) # {}
    PROVE  NewRow(db) \in Row /\ db[NewRow(db)].status = "absent"
<1>1. Unused(db) \subseteq Nat
  BY SchedulerAssumption DEF Unused, Row
<1>2. \E r \in Unused(db) : \A q \in Unused(db) : r <= q
  BY <1>1, LeastNumber
<1>3. NewRow(db) \in Unused(db)
  BY <1>2 DEF NewRow
<1>4. NewRow(db) \in Row /\ NewRow(db) \in NewRow(db)..MaxRows
  BY <1>3, SchedulerAssumption DEF Unused, Row
<1> QED BY <1>3, <1>4 DEF Unused

\* A list of schedules, in any order, is a sequence of snapshots.
LEMMA ListsAreSequences ==
    ASSUME TypeOK, NEW S \in SUBSET Schedule, NEW order \in SetToSeqs(Snapshots(S))
    PROVE  order \in Seq(Snap)
<1> DEFINE f == [s \in S |-> [id |-> s, revision |-> schedules[s].revision]]
<1>1. IsFiniteSet(S)
  BY FS_Subset, SchedulerAssumption
<1>2. f \in Surjection(S, Snapshots(S))
  BY DEF Surjection, Snapshots
<1>3. IsFiniteSet(Snapshots(S))
  BY <1>1, <1>2, FS_Surjection
<1>4. Cardinality(Snapshots(S)) \in Nat
  BY <1>3, FS_CardinalityType
<1>5. Snapshots(S) \subseteq Snap
  BY DEF Snapshots, Snap, TypeOK
<1>6. order \in [1..Cardinality(Snapshots(S)) -> Snap]
  BY <1>5 DEF SetToSeqs
<1> QED BY <1>4, <1>6

-----------------------------------------------------------------------------
(* What a loop's step does: nothing, or one claim for a row of its own.    *)

\* No claim: the loop has ended.
Ended(db, order, waiting) ==
    /\ rows' = db /\ queue' = order /\ loops' = waiting
    /\ UNCHANGED <<schedules, watermark>>

\* The claimed row is queued, or refused by a scheduler that is stopping.
QueuedOrRefused(new, order, waiting) ==
    \/ queue' = order /\ loops' = waiting
    \/ /\ queue' = Append(order, new)
       /\ \E later \in Loop : loops' = [waiting EXCEPT ![new] = later]

TimerClaimed(s, new, db) ==
    /\ schedules[s].saved = "saved"
    /\ rows' = [db EXCEPT ![new] = Entry(s, "scheduled", schedules[s].revision, {})]
    /\ schedules' = Advanced(s)
    /\ UNCHANGED watermark

HandoffClaimed(s, new, db) ==
    \E fresh \in SUBSET Change, revision \in Nat :
        /\ \A c \in fresh : /\ c.version = threads[c.thread].version
                           /\ c.version # watermark[s][c.thread]
        /\ rows' = [db EXCEPT ![new] = Entry(s, "needs-you", revision, fresh)]
        /\ watermark' = [watermark EXCEPT ![s] =
                            [t \in Thread |-> IF \E c \in fresh : c.thread = t
                                             THEN threads[t].version ELSE @[t]]]
        /\ UNCHANGED schedules

LEMMA ProceedClaims ==
    ASSUME TypeOK, NEW loop \in Loop, NEW busy, NEW db \in Rows,
           NEW order, NEW waiting,
           Proceed(loop, busy, db, order, waiting)
    PROVE  \/ Ended(db, order, waiting)
           \/ \E new \in Row, s \in Schedule :
                 /\ db[new].status = "absent"
                 /\ QueuedOrRefused(new, order, waiting)
                 /\ TimerClaimed(s, new, db) \/ HandoffClaimed(s, new, db)
<1> DEFINE able == {i \in DOMAIN loop.rest : Claims(loop, loop.rest[i], busy)}
           i == CHOOSE j \in able : \A k \in able : j <= k
           s == loop.rest[i].id
           fresh == Fresh(s, loop.changes)
           new == NewRow(db)
           later == [loop EXCEPT !.rest = SubSeq(loop.rest, i + 1, Len(loop.rest))]
<1>1. CASE able = {} \/ Unused(db) = {}
  BY <1>1 DEF Proceed, Ended
<1>2. CASE ~(able = {} \/ Unused(db) = {})
  <2>1. new \in Row /\ db[new].status = "absent"
    BY <1>2, NewRowIsUnused
  <2>2. loop.rest \in Seq(Snap) /\ loop.changes \in SUBSET Change
    BY DEF Loop
  <2>3. DOMAIN loop.rest = 1..Len(loop.rest) /\ Len(loop.rest) \in Nat
    BY <2>2, LenProperties
  <2>4. i \in able
    <3>1. able \subseteq Nat
      BY <2>3
    <3>2. \E j \in able : \A k \in able : j <= k
      BY <1>2, <3>1, LeastNumber
    <3> HIDE DEF able
    <3> QED BY <3>2
  <2>5. i \in 1..Len(loop.rest) /\ Claims(loop, loop.rest[i], busy)
    BY <2>3, <2>4
  <2> HIDE DEF i
  <2>6. loop.rest[i] \in Snap
    BY <2>2, <2>5, ElementOfSeq
  <2>7. s \in Schedule /\ loop.rest[i].revision \in Nat
    BY <2>6 DEF Snap
  <2>8. later \in Loop
    <3>1. SubSeq(loop.rest, i + 1, Len(loop.rest)) \in Seq(Snap)
      <4>1. i + 1 \in Int /\ Len(loop.rest) \in Int
        BY <2>3, <2>5
      <4>2. \A j \in i + 1 .. Len(loop.rest) : loop.rest[j] \in Snap
        BY <2>2, <2>3, <2>5, ElementOfSeq
      <4> QED BY <4>1, <4>2, SubSeqProperties
    <3> QED BY <3>1 DEF Loop
  <2>9. QueuedOrRefused(new, order, waiting)
    <3>1. \/ queue' = order /\ loops' = waiting
          \/ queue' = Append(order, new) /\ loops' = [waiting EXCEPT ![new] = later]
      BY <1>2 DEF Proceed, i
    <3> HIDE DEF new, later
    <3> QED BY <2>8, <3>1 DEF QueuedOrRefused
  <2>10. CASE loop.kind = "tick"
    <3>1. schedules[s].saved = "saved" /\ schedules[s].revision = loop.rest[i].revision
      BY <2>5, <2>10 DEF Claims, TimerClaims
    <3>2. /\ rows' = [db EXCEPT ![new] = Entry(s, "scheduled", loop.rest[i].revision, {})]
          /\ schedules' = Advanced(s)
          /\ UNCHANGED watermark
      BY <1>2, <2>10 DEF Proceed, i
    <3>3. TimerClaimed(s, new, db)
      BY <3>1, <3>2 DEF TimerClaimed
    <3> HIDE DEF new, s
    <3> QED BY <2>1, <2>7, <2>9, <3>3
  <2>11. CASE loop.kind # "tick"
    <3>1. /\ rows' = [db EXCEPT ![new] = Entry(s, "needs-you", loop.rest[i].revision, fresh)]
          /\ watermark' = [watermark EXCEPT ![s] =
                              [t \in Thread |-> IF \E c \in fresh : c.thread = t
                                               THEN threads[t].version ELSE @[t]]]
          /\ UNCHANGED schedules
      BY <1>2, <2>11 DEF Proceed, Handled, i
    <3>2. fresh \in SUBSET Change
      BY <2>2 DEF Fresh
    <3>3. \A c \in fresh : /\ c.version = threads[c.thread].version
                          /\ c.version # watermark[s][c.thread]
      BY DEF Fresh
    <3> HIDE DEF fresh, new, s
    <3>4. HandoffClaimed(s, new, db)
      BY <2>7, <3>1, <3>2, <3>3 DEF HandoffClaimed
    <3> QED BY <2>1, <2>7, <2>9, <3>4
  <2> QED BY <2>10, <2>11
<1> QED BY <1>1, <1>2
-----------------------------------------------------------------------------
(* Types.                                                                  *)

ScheduleRecord == [saved : {"absent", "saved", "deleted"}, enabled : BOOLEAN,
                   revision : Nat, next : {"none", "future", "due"}]

TableTypes ==
    /\ schedules \in [Schedule -> ScheduleRecord]
    /\ rows \in Rows
    /\ watermark \in [Schedule -> [Thread -> Version]]
    /\ queue \in Seq(Row)
    /\ loops \in Loops

OtherTypes ==
    /\ threads \in [Thread -> [version : Version, offered : BOOLEAN]]
    /\ daemon \in {"down", "up", "stopping"}
    /\ working \in BOOLEAN
    /\ running \in SUBSET Schedule
    /\ pending \in [Thread -> Version]
    /\ flushing \in BOOLEAN
    /\ edits \in 0..MaxEdits
    /\ faults \in 0..MaxFaults

LEMMA TypesSplit == TypeOK <=> TableTypes /\ OtherTypes
BY DEF TypeOK, TableTypes, OtherTypes, ScheduleRecord, Rows, Loops

LEMMA NextTypesSplit == TypeOK' <=> TableTypes' /\ OtherTypes'
BY DEF TypeOK, TableTypes, OtherTypes, ScheduleRecord, Rows, Loops

LEMMA NoLoopIsLoop == NoLoop \in Loop
<1>1. <<>> \in Seq(Snap)
  BY EmptySeq
<1> QED BY <1>1 DEF NoLoop, Loop

LEMMA AdvancedIsTyped ==
    ASSUME TypeOK, NEW s \in Schedule
    PROVE  Advanced(s) \in [Schedule -> ScheduleRecord]
<1>1. schedules \in [Schedule -> ScheduleRecord]
  BY TypesSplit DEF TableTypes
<1> DEFINE next == IF s \in OneShot THEN "none" ELSE "future"
           row == [saved |-> schedules[s].saved, enabled |-> s \notin OneShot,
                   revision |-> schedules[s].revision + 1, next |-> next]
<1>2. row \in ScheduleRecord
  <2>1. schedules[s].saved \in {"absent", "saved", "deleted"} /\ schedules[s].revision \in Nat
    BY <1>1 DEF ScheduleRecord
  <2>2. (s \notin OneShot) \in BOOLEAN
    OBVIOUS
  <2>3. next \in {"none", "future", "due"}
    OBVIOUS
  <2>4. schedules[s].revision + 1 \in Nat
    BY <2>1
  <2> HIDE DEF next
  <2> QED BY <2>1, <2>2, <2>3, <2>4, Zenon DEF ScheduleRecord
<1>3. Advanced(s) = [schedules EXCEPT ![s] = row]
  BY <1>1 DEF Advanced, ScheduleRecord
<1> HIDE DEF row
<1> QED BY <1>1, <1>2, <1>3

LEMMA ProceedKeepsTypes ==
    ASSUME TypeOK, NEW loop \in Loop, NEW busy, NEW db \in Rows,
           NEW order \in Seq(Row), NEW waiting \in Loops,
           Proceed(loop, busy, db, order, waiting)
    PROVE  TableTypes'
<1>1. CASE Ended(db, order, waiting)
  BY <1>1, TypesSplit DEF Ended, TableTypes
<1>2. ASSUME NEW new \in Row, NEW s \in Schedule,
             QueuedOrRefused(new, order, waiting),
             TimerClaimed(s, new, db) \/ HandoffClaimed(s, new, db)
      PROVE  TableTypes'
  <2>1. queue' \in Seq(Row)
    <3>1. Append(order, new) \in Seq(Row)
      BY AppendProperties
    <3> QED BY <1>2, <3>1 DEF QueuedOrRefused
  <2>2. loops' \in Loops
    BY <1>2 DEF QueuedOrRefused, Loops
  <2>3. CASE TimerClaimed(s, new, db)
    <3>1. Entry(s, "scheduled", schedules[s].revision, {}) \in RowRecord
      BY DEF Entry, RowRecord, TypeOK
    <3>2. rows' \in Rows
      BY <2>3, <3>1 DEF TimerClaimed, Rows
    <3>3. schedules' \in [Schedule -> ScheduleRecord]
      BY <2>3, AdvancedIsTyped DEF TimerClaimed
    <3>4. watermark' \in [Schedule -> [Thread -> Version]]
      BY <2>3 DEF TimerClaimed, TypeOK
    <3> QED BY <2>1, <2>2, <3>2, <3>3, <3>4 DEF TableTypes
  <2>4. CASE HandoffClaimed(s, new, db)
    <3>1. PICK fresh \in SUBSET Change, revision \in Nat :
            /\ rows' = [db EXCEPT ![new] = Entry(s, "needs-you", revision, fresh)]
            /\ watermark' = [watermark EXCEPT ![s] =
                               [t \in Thread |-> IF \E c \in fresh : c.thread = t
                                                THEN threads[t].version ELSE @[t]]]
            /\ UNCHANGED schedules
      BY <2>4 DEF HandoffClaimed
    <3>2. Entry(s, "needs-you", revision, fresh) \in RowRecord
      BY DEF Entry, RowRecord
    <3>3. rows' \in Rows
      BY <3>1, <3>2 DEF Rows
    <3>4. schedules' \in [Schedule -> ScheduleRecord]
      BY <3>1, TypesSplit DEF TableTypes
    <3>5. watermark' \in [Schedule -> [Thread -> Version]]
      BY <3>1 DEF TypeOK
    <3> QED BY <2>1, <2>2, <3>3, <3>4, <3>5 DEF TableTypes
  <2> QED BY <1>2, <2>3, <2>4
<1> QED BY <1>1, <1>2, ProceedClaims
-----------------------------------------------------------------------------
(* The claims ledger: a timer claim spends the revision it was made from,  *)
(* and a handoff moves the watermark to the message it hands over.         *)

Existing(db) == {r \in Row : db[r].status # "absent"}
Timed(db) == {r \in Existing(db) : db[r].trigger = "scheduled"}

UnsavedUnrevised == \A s \in Schedule : schedules[s].saved = "absent" => schedules[s].revision = 0

Spent(db) == \A r \in Timed(db) : db[r].revision < schedules[db[r].id].revision

ClaimedOnce(db) ==
    \A q, r \in Timed(db) : q # r /\ db[q].id = db[r].id => db[q].revision # db[r].revision

Watermarked(db) ==
    \A r \in Existing(db) : \A c \in db[r].context :
        c.version <= watermark[db[r].id][c.thread]

WatermarkBehind == \A s \in Schedule, t \in Thread : watermark[s][t] <= threads[t].version

HandledOnce(db) ==
    \A q, r \in Existing(db) :
        q # r /\ db[q].id = db[r].id => db[q].context \cap db[r].context = {}

ClaimsLedger(db) ==
    /\ UnsavedUnrevised /\ Spent(db) /\ ClaimedOnce(db)
    /\ Watermarked(db) /\ WatermarkBehind /\ HandledOnce(db)

\* The rows of db2 are those of db, in whatever status.
SameClaims(db, db2) ==
    /\ Existing(db2) = Existing(db)
    /\ \A r \in Row : /\ db2[r].id = db[r].id /\ db2[r].trigger = db[r].trigger
                      /\ db2[r].revision = db[r].revision
                      /\ db2[r].context = db[r].context

LEMMA StatusKeepsLedger ==
    ASSUME NEW db \in Rows, NEW db2 \in Rows, SameClaims(db, db2), ClaimsLedger(db)
    PROVE  ClaimsLedger(db2)
<1>1. Timed(db2) = Timed(db) /\ Timed(db) \subseteq Row /\ Existing(db) \subseteq Row
  BY DEF SameClaims, Timed, Existing
<1>2. Spent(db2) /\ ClaimedOnce(db2)
  BY <1>1 DEF SameClaims, ClaimsLedger, Spent, ClaimedOnce
<1>3. Watermarked(db2) /\ HandledOnce(db2)
  BY <1>1 DEF SameClaims, ClaimsLedger, Watermarked, HandledOnce
<1> QED BY <1>2, <1>3 DEF ClaimsLedger

LEMMA TimerClaimKeepsLedger ==
    ASSUME TypeOK, NEW db \in Rows, ClaimsLedger(db), threads' = threads,
           NEW new \in Row, NEW s \in Schedule, db[new].status = "absent",
           TimerClaimed(s, new, db)
    PROVE  ClaimsLedger(rows)'
<1> DEFINE row == Entry(s, "scheduled", schedules[s].revision, {})
<1>1. rows' = [db EXCEPT ![new] = row] /\ watermark' = watermark
  BY DEF TimerClaimed
<1>2. rows'[new] = row /\ \A r \in Row \ {new} : rows'[r] = db[r]
  BY <1>1 DEF Rows
<1>3. /\ row.status = "running" /\ row.id = s /\ row.trigger = "scheduled"
      /\ row.revision = schedules[s].revision /\ row.context = {}
  BY DEF Entry
<1>4. /\ schedules[s].saved = "saved"
      /\ schedules'[s].saved = "saved" /\ schedules'[s].revision = schedules[s].revision + 1
      /\ \A x \in Schedule \ {s} : schedules'[x] = schedules[x]
      /\ schedules[s].revision \in Nat
  BY DEF TimerClaimed, Advanced, TypeOK
<1> HIDE DEF row
<1>5. /\ Existing(rows') = Existing(db) \cup {new} /\ new \notin Existing(db)
      /\ Timed(rows') = Timed(db) \cup {new} /\ new \notin Timed(db)
  BY <1>2, <1>3 DEF Existing, Timed
<1>6. \A r \in Existing(db) : /\ r \in Row /\ rows'[r] = db[r] /\ db[r].id \in Schedule
                              /\ db[r].revision \in Nat
  BY <1>2, <1>5 DEF Existing, Rows, RowRecord
<1>7. UnsavedUnrevised'
  BY <1>4 DEF ClaimsLedger, UnsavedUnrevised
<1>8. \A r \in Timed(db) : r \in Existing(db) /\ db[r].revision < schedules[db[r].id].revision
  BY DEF ClaimsLedger, Spent, Timed
<1>9. Spent(rows)'
  <2> SUFFICES ASSUME NEW r \in Timed(rows')
               PROVE  rows'[r].revision < schedules'[rows'[r].id].revision
    BY DEF Spent
  <2>1. CASE r = new
    BY <1>2, <1>3, <1>4, <2>1
  <2>2. CASE r # new /\ db[r].id = s
    BY <1>4, <1>5, <1>6, <1>8, <2>2
  <2>3. CASE r # new /\ db[r].id # s
    BY <1>4, <1>5, <1>6, <1>8, <2>3
  <2> QED BY <2>1, <2>2, <2>3
<1>10. ClaimedOnce(rows)'
  <2>1. \A r \in Timed(db) : db[r].id = s => db[r].revision # schedules[s].revision
    BY <1>4, <1>6, <1>8
  <2>2. \A q, r \in Timed(db) : q # r /\ db[q].id = db[r].id => db[q].revision # db[r].revision
    BY DEF ClaimsLedger, ClaimedOnce
  <2> QED BY <1>2, <1>3, <1>5, <1>6, <1>8, <2>1, <2>2 DEF ClaimedOnce
<1>11. Watermarked(rows)' /\ WatermarkBehind' /\ HandledOnce(rows)'
  <2>1. WatermarkBehind'
    BY <1>1 DEF ClaimsLedger, WatermarkBehind
  <2>2. Watermarked(rows)'
    BY <1>1, <1>2, <1>3, <1>5, <1>6 DEF ClaimsLedger, Watermarked
  <2>3. HandledOnce(rows)'
    BY <1>2, <1>3, <1>5, <1>6 DEF ClaimsLedger, HandledOnce
  <2> QED BY <2>1, <2>2, <2>3
<1> QED BY <1>7, <1>9, <1>10, <1>11 DEF ClaimsLedger
LEMMA HandoffClaimKeepsLedger ==
    ASSUME TypeOK, NEW db \in Rows, ClaimsLedger(db), threads' = threads,
           NEW new \in Row, NEW s \in Schedule, db[new].status = "absent",
           HandoffClaimed(s, new, db)
    PROVE  ClaimsLedger(rows)'
<1>1. PICK fresh \in SUBSET Change, revision \in Nat :
        /\ \A c \in fresh : /\ c.version = threads[c.thread].version
                           /\ c.version # watermark[s][c.thread]
        /\ rows' = [db EXCEPT ![new] = Entry(s, "needs-you", revision, fresh)]
        /\ watermark' = [watermark EXCEPT ![s] =
                            [t \in Thread |-> IF \E c \in fresh : c.thread = t
                                             THEN threads[t].version ELSE @[t]]]
        /\ UNCHANGED schedules
  BY DEF HandoffClaimed
<1> DEFINE row == Entry(s, "needs-you", revision, fresh)
<1>2. rows'[new] = row /\ \A r \in Row \ {new} : rows'[r] = db[r]
  BY <1>1 DEF Rows
<1>3. /\ row.status = "running" /\ row.id = s /\ row.trigger = "needs-you"
      /\ row.context = fresh
  BY DEF Entry
<1> HIDE DEF row
<1>4. /\ Existing(rows') = Existing(db) \cup {new} /\ new \notin Existing(db)
      /\ Timed(rows') = Timed(db)
  BY <1>2, <1>3 DEF Existing, Timed
<1>5. \A r \in Existing(db) : /\ r \in Row /\ rows'[r] = db[r] /\ db[r].id \in Schedule
                              /\ db[r].context \in SUBSET Change
  BY <1>2, <1>4 DEF Existing, Rows, RowRecord
<1>6. \A c \in Change : c.thread \in Thread /\ c.version \in Nat
  BY DEF Change, Version
<1>7. \A x \in Schedule, t \in Thread :
         /\ watermark[x][t] \in Nat /\ threads[t].version \in Nat
         /\ watermark[x][t] <= threads[t].version
  BY SchedulerAssumption DEF TypeOK, Version, ClaimsLedger, WatermarkBehind
<1>8. /\ \A x \in Schedule \ {s} : watermark'[x] = watermark[x]
      /\ \A t \in Thread : watermark'[s][t] = IF \E c \in fresh : c.thread = t
                                            THEN threads[t].version ELSE watermark[s][t]
  BY <1>1 DEF TypeOK
<1>9. UnsavedUnrevised' /\ Spent(rows)' /\ ClaimedOnce(rows)'
  <2>1. \A r \in Timed(db) : rows'[r] = db[r]
    BY <1>5 DEF Timed
  <2>2. UnsavedUnrevised' /\ Spent(rows)'
    BY <1>1, <1>4, <2>1 DEF ClaimsLedger, UnsavedUnrevised, Spent
  <2>3. ClaimedOnce(rows)'
    BY <1>4, <2>1 DEF ClaimsLedger, ClaimedOnce
  <2> QED BY <2>2, <2>3
<1>10. WatermarkBehind'
  BY <1>7, <1>8 DEF WatermarkBehind
<1>11. \A x \in Schedule, t \in Thread : /\ watermark'[x][t] \in Nat
                                       /\ watermark[x][t] <= watermark'[x][t]
  <2> SUFFICES ASSUME NEW x \in Schedule, NEW t \in Thread
               PROVE  watermark'[x][t] \in Nat /\ watermark[x][t] <= watermark'[x][t]
    OBVIOUS
  <2>1. CASE x = s
    BY <1>7, <1>8, <2>1
  <2>2. CASE x # s
    BY <1>7, <1>8, <2>2
  <2> QED BY <2>1, <2>2
<1>12. Watermarked(rows)'
  <2> SUFFICES ASSUME NEW r \in Existing(rows'), NEW c \in rows'[r].context
               PROVE  c.version <= watermark'[rows'[r].id][c.thread]
    BY DEF Watermarked
  <2>1. CASE r = new
    BY <1>1, <1>2, <1>3, <1>6, <1>8, <2>1
  <2>2. CASE r # new
    <3>1. r \in Existing(db) /\ c \in db[r].context /\ rows'[r] = db[r]
      BY <1>4, <1>5, <2>2
    <3>2. c.version <= watermark[db[r].id][c.thread]
      BY <3>1 DEF ClaimsLedger, Watermarked
    <3>3. c \in Change /\ db[r].id \in Schedule
      BY <1>5, <3>1
    <3> QED BY <1>6, <1>7, <1>11, <3>1, <3>2, <3>3
  <2> QED BY <2>1, <2>2
<1>13. HandledOnce(rows)'
  <2>1. ASSUME NEW r \in Existing(db), db[r].id = s, NEW c \in fresh
        PROVE  c \notin db[r].context
    <3>1. c.version = threads[c.thread].version /\ c.version # watermark[s][c.thread]
      BY <1>1
    <3>2. c \in Change
      BY <1>1
    <3>3. ~(c.version <= watermark[s][c.thread])
      BY <1>6, <1>7, <3>1, <3>2
    <3> QED BY <2>1, <3>3 DEF ClaimsLedger, Watermarked
  <2>2. \A q, r \in Existing(db) :
           q # r /\ db[q].id = db[r].id => db[q].context \cap db[r].context = {}
    BY DEF ClaimsLedger, HandledOnce
  <2> SUFFICES ASSUME NEW q \in Existing(rows'), NEW r \in Existing(rows'), q # r,
                      rows'[q].id = rows'[r].id
               PROVE  rows'[q].context \cap rows'[r].context = {}
    BY DEF HandledOnce
  <2>3. CASE q = new
    BY <1>2, <1>3, <1>4, <1>5, <2>1, <2>3
  <2>4. CASE r = new
    BY <1>2, <1>3, <1>4, <1>5, <2>1, <2>4
  <2>5. CASE q # new /\ r # new
    BY <1>4, <1>5, <2>2, <2>5
  <2> QED BY <2>3, <2>4, <2>5
<1> QED BY <1>9, <1>10, <1>12, <1>13 DEF ClaimsLedger

LEMMA ProceedKeepsLedger ==
    ASSUME TypeOK, NEW loop \in Loop, NEW busy, NEW db \in Rows,
           NEW order, NEW waiting, ClaimsLedger(db), threads' = threads,
           Proceed(loop, busy, db, order, waiting)
    PROVE  ClaimsLedger(rows)'
<1>1. CASE Ended(db, order, waiting)
  <2>1. rows' = db /\ schedules' = schedules /\ watermark' = watermark
    BY <1>1 DEF Ended
  <2>2. UnsavedUnrevised' /\ Spent(rows)' /\ ClaimedOnce(rows)'
    BY <2>1 DEF ClaimsLedger, UnsavedUnrevised, Spent, ClaimedOnce, Timed, Existing
  <2>3. Watermarked(rows)' /\ WatermarkBehind' /\ HandledOnce(rows)'
    BY <2>1 DEF ClaimsLedger, Watermarked, WatermarkBehind, HandledOnce, Existing
  <2> QED BY <2>2, <2>3 DEF ClaimsLedger
<1> QED BY <1>1, ProceedClaims, TimerClaimKeepsLedger, HandoffClaimKeepsLedger

\* Edits and time only raise revisions, and threads only move on.
LEMMA GrowthKeepsLedger ==
    ASSUME TypeOK, TypeOK', ClaimsLedger(rows), rows' = rows, watermark' = watermark,
           UnsavedUnrevised',
           \A s \in Schedule : schedules[s].revision <= schedules'[s].revision,
           \A t \in Thread : threads[t].version <= threads'[t].version
    PROVE  ClaimsLedger(rows)'
<1>1. \A s \in Schedule : schedules[s].revision \in Nat /\ schedules'[s].revision \in Nat
  BY DEF TypeOK
<1>2. \A r \in Row : rows[r].id \in Schedule /\ rows[r].revision \in Nat
  BY DEF TypeOK, RowRecord
<1>3. \A t \in Thread : /\ threads[t].version \in Nat /\ threads'[t].version \in Nat
                        /\ \A s \in Schedule : watermark[s][t] \in Nat
  BY SchedulerAssumption DEF TypeOK, Version
<1>5. Spent(rows)' /\ ClaimedOnce(rows)'
  <2>1. \A r \in Timed(rows) : r \in Row
    BY DEF Timed, Existing
  <2>2. Timed(rows') = Timed(rows)
    OBVIOUS
  <2>3. Spent(rows)'
    BY <1>1, <1>2, <2>1, <2>2 DEF ClaimsLedger, Spent
  <2>4. ClaimedOnce(rows)'
    BY <2>2 DEF ClaimsLedger, ClaimedOnce
  <2> QED BY <2>3, <2>4
<1>6. WatermarkBehind'
  BY <1>3 DEF ClaimsLedger, WatermarkBehind
<1>7. Watermarked(rows)' /\ HandledOnce(rows)'
  BY DEF ClaimsLedger, Watermarked, HandledOnce
<1> QED BY <1>5, <1>6, <1>7 DEF ClaimsLedger
-----------------------------------------------------------------------------
(* The queue: its rows exist and are distinct, and the schedules held are  *)
(* those of its manual runs and of the execution at work.                  *)

QueueSound(db, order) ==
    /\ \A i \in DOMAIN order : db[order[i]].status # "absent"
    /\ \A i, j \in DOMAIN order : order[i] = order[j] => i = j

\* The position of the execution at work.
AtWork == IF working THEN {1} ELSE {}

Holding(db, order, atWork, s) ==
    {i \in DOMAIN order : /\ db[order[i]].id = s
                          /\ db[order[i]].trigger = "manual" \/ i \in atWork}

HeldIn(db, order, atWork, held) ==
    \A s \in Schedule :
        /\ s \in held <=> Holding(db, order, atWork, s) # {}
        /\ \A i, j \in Holding(db, order, atWork, s) : i = j

QueueInvariant ==
    /\ QueueSound(rows, queue)
    /\ AtWork \subseteq DOMAIN queue
    /\ HeldIn(rows, queue, AtWork, running)

LEMMA HeldIsHeldByOne == HeldIn(rows, queue, AtWork, running) <=> HeldByOne
<1>1. \A s \in Schedule : Holding(rows, queue, AtWork, s) = Holders(s)
  BY DEF Holding, Holders, Preclaimed, AtWork
<1> QED BY <1>1 DEF HeldIn, HeldByOne

LEMMA StatusKeepsQueue ==
    ASSUME NEW db \in Rows, NEW db2 \in Rows, SameClaims(db, db2),
           NEW order \in Seq(Row), NEW atWork, NEW held,
           QueueSound(db, order), HeldIn(db, order, atWork, held)
    PROVE  QueueSound(db2, order) /\ HeldIn(db2, order, atWork, held)
<1>1. \A i \in DOMAIN order : order[i] \in Row
  BY ElementOfSeq, LenProperties
<1>2. \A s : Holding(db2, order, atWork, s) = Holding(db, order, atWork, s)
  BY <1>1 DEF SameClaims, Holding
<1>3. QueueSound(db2, order)
  BY <1>1 DEF QueueSound, SameClaims, Existing
<1>4. HeldIn(db2, order, atWork, held)
  BY <1>2 DEF HeldIn
<1> QED BY <1>3, <1>4

\* A new row behind the queue holds its schedule if it is a manual run.
LEMMA AppendKeepsQueue ==
    ASSUME NEW db \in Rows, NEW order \in Seq(Row), NEW atWork \in SUBSET DOMAIN order, NEW held,
           QueueSound(db, order), HeldIn(db, order, atWork, held),
           NEW new \in Row, db[new].status = "absent",
           NEW row \in RowRecord, row.status = "running",
           row.trigger = "manual" => row.id \notin held,
           NEW db2, db2 = [db EXCEPT ![new] = row]
    PROVE  /\ QueueSound(db2, order) /\ QueueSound(db2, Append(order, new))
           /\ row.trigger # "manual" =>
                 /\ HeldIn(db2, order, atWork, held)
                 /\ HeldIn(db2, Append(order, new), atWork, held)
           /\ row.trigger = "manual" =>
                 HeldIn(db2, Append(order, new), atWork, held \cup {row.id})
<1> DEFINE n == Len(order)
           longer == Append(order, new)
<1>1. n \in Nat /\ DOMAIN order = 1..n /\ \A i \in 1..n : order[i] \in Row
  BY ElementOfSeq, LenProperties
<1>2. /\ DOMAIN longer = 1..(n + 1) /\ longer[n + 1] = new
      /\ \A i \in 1..n : longer[i] = order[i]
  BY AppendProperties, LenProperties
<1>3. \A i \in 1..n : order[i] # new /\ db2[order[i]] = db[order[i]]
  BY <1>1 DEF QueueSound, Rows
<1>4. db2[new] = row
  BY DEF Rows
<1>5. atWork \subseteq 1..n
  BY <1>1
<1> HIDE DEF n, longer
<1>6. QueueSound(db2, order)
  BY <1>1, <1>3 DEF QueueSound
<1>7. QueueSound(db2, longer)
  BY <1>1, <1>2, <1>3, <1>4 DEF QueueSound
<1>8. \A s : /\ Holding(db2, order, atWork, s) = Holding(db, order, atWork, s)
            /\ Holding(db, order, atWork, s) \subseteq 1..n
  BY <1>1, <1>3 DEF Holding
<1>9. \A s, i : i \in Holding(db2, longer, atWork, s) <=>
               \/ i \in Holding(db, order, atWork, s)
               \/ i = n + 1 /\ row.id = s /\ row.trigger = "manual"
  <2> SUFFICES ASSUME NEW s, NEW i
               PROVE  i \in Holding(db2, longer, atWork, s) <=>
                         \/ i \in Holding(db, order, atWork, s)
                         \/ i = n + 1 /\ row.id = s /\ row.trigger = "manual"
    OBVIOUS
  <2>1. CASE i \in 1..n
    BY <1>1, <1>2, <1>3, <2>1 DEF Holding
  <2>2. CASE i = n + 1
    BY <1>1, <1>2, <1>4, <1>5, <2>2 DEF Holding
  <2>3. CASE i \notin 1..n /\ i # n + 1
    BY <1>1, <1>2, <2>3 DEF Holding
  <2> QED BY <2>1, <2>2, <2>3
<1>10. ASSUME row.trigger # "manual"
       PROVE  HeldIn(db2, order, atWork, held) /\ HeldIn(db2, longer, atWork, held)
  <2>1. HeldIn(db2, order, atWork, held)
    BY <1>8 DEF HeldIn
  <2>2. \A s : Holding(db2, longer, atWork, s) = Holding(db, order, atWork, s)
    <3> TAKE s
    <3>1. \A i : i \in Holding(db2, longer, atWork, s) <=> i \in Holding(db, order, atWork, s)
      BY <1>9, <1>10
    <3> QED BY ONLY <3>1
  <2>3. HeldIn(db2, longer, atWork, held)
    BY ONLY HeldIn(db, order, atWork, held), <2>2 DEF HeldIn
  <2> QED BY <2>1, <2>3
<1>11. ASSUME row.trigger = "manual"
       PROVE  HeldIn(db2, longer, atWork, held \cup {row.id})
  <2>1. row.id \notin held /\ row.id \in Schedule
    BY <1>11 DEF RowRecord
  <2>2. Holding(db2, longer, atWork, row.id) = {n + 1}
    BY <1>9, <1>11, <2>1 DEF HeldIn
  <2>3. \A s : s # row.id =>
           Holding(db2, longer, atWork, s) = Holding(db, order, atWork, s)
    BY <1>9
  <2>4. ASSUME NEW s \in Schedule
        PROVE  /\ s \in held \cup {row.id} <=> Holding(db2, longer, atWork, s) # {}
               /\ \A i, j \in Holding(db2, longer, atWork, s) : i = j
    <3>1. CASE s = row.id
      BY ONLY <3>1, <2>2
    <3>2. CASE s # row.id
      <4>1. Holding(db2, longer, atWork, s) = Holding(db, order, atWork, s)
        BY ONLY <3>2, <2>3
      <4>2. /\ s \in held <=> Holding(db, order, atWork, s) # {}
            /\ \A i, j \in Holding(db, order, atWork, s) : i = j
        BY ONLY HeldIn(db, order, atWork, held), <2>4 DEF HeldIn
      <4>3. s \in held \cup {row.id} <=> s \in held
        BY ONLY <3>2
      <4> QED BY ONLY <4>1, <4>2, <4>3
    <3> QED BY ONLY <3>1, <3>2
  <2> QED BY ONLY <2>4 DEF HeldIn
<1> QED BY <1>6, <1>7, <1>10, <1>11 DEF longer
LEMMA ProceedKeepsQueue ==
    ASSUME TypeOK, NEW loop \in Loop, NEW busy, NEW db \in Rows,
           NEW order \in Seq(Row), NEW waiting, NEW atWork \in SUBSET DOMAIN order, NEW held,
           QueueSound(db, order), HeldIn(db, order, atWork, held),
           Proceed(loop, busy, db, order, waiting)
    PROVE  /\ QueueSound(rows', queue') /\ HeldIn(rows', queue', atWork, held)
           /\ atWork \subseteq DOMAIN queue'
<1>1. CASE Ended(db, order, waiting)
  BY <1>1 DEF Ended
<1>2. ASSUME NEW new \in Row, NEW s \in Schedule, db[new].status = "absent",
             QueuedOrRefused(new, order, waiting),
             TimerClaimed(s, new, db) \/ HandoffClaimed(s, new, db)
      PROVE  /\ QueueSound(rows', queue') /\ HeldIn(rows', queue', atWork, held)
             /\ atWork \subseteq DOMAIN queue'
  <2>1. PICK row \in RowRecord : /\ row.status = "running" /\ row.trigger # "manual"
                                 /\ rows' = [db EXCEPT ![new] = row]
    <3>1. CASE TimerClaimed(s, new, db)
      <4>1. Entry(s, "scheduled", schedules[s].revision, {}) \in RowRecord
        BY DEF Entry, RowRecord, TypeOK
      <4> QED BY <3>1, <4>1 DEF TimerClaimed, Entry
    <3>2. CASE HandoffClaimed(s, new, db)
      <4>1. PICK fresh \in SUBSET Change, revision \in Nat :
              rows' = [db EXCEPT ![new] = Entry(s, "needs-you", revision, fresh)]
        BY <3>2 DEF HandoffClaimed
      <4>2. Entry(s, "needs-you", revision, fresh) \in RowRecord
        BY DEF Entry, RowRecord
      <4> QED BY <4>1, <4>2 DEF Entry
    <3> QED BY <1>2, <3>1, <3>2
  <2>2. /\ QueueSound(rows', order) /\ QueueSound(rows', Append(order, new))
        /\ HeldIn(rows', order, atWork, held)
        /\ HeldIn(rows', Append(order, new), atWork, held)
    <3>1. row.status = "running" /\ (row.trigger = "manual" => row.id \notin held)
      BY <2>1
    <3> QED BY <1>2, <2>1, <3>1, AppendKeepsQueue
  <2>3. DOMAIN order \subseteq DOMAIN Append(order, new)
    <3>1. Append(order, new) \in Seq(Row) /\ Len(Append(order, new)) = Len(order) + 1
      BY AppendProperties
    <3> QED BY <3>1, LenProperties
  <2> QED BY <1>2, <2>2, <2>3 DEF QueuedOrRefused
<1> QED BY <1>1, <1>2, ProceedClaims

\* When the first row leaves the queue its schedule is released, unless it
\* never held it (an execution that was refused).
LEMMA PopKeepsQueue ==
    ASSUME TypeOK, QueueInvariant, queue # <<>>
    PROVE  /\ Head(queue) \in Row /\ Tail(queue) \in Seq(Row)
           /\ QueueSound(rows, Tail(queue))
           /\ working \/ ~Refused =>
                 HeldIn(rows, Tail(queue), {}, running \ {rows[Head(queue)].id})
           /\ ~working /\ Refused => HeldIn(rows, Tail(queue), {}, running)
<1> DEFINE n == Len(queue)
           rest == Tail(queue)
           h == rows[Head(queue)].id
<1>1. queue \in Seq(Row) /\ n \in Nat \ {0} /\ DOMAIN queue = 1..n
  BY EmptySeq, LenProperties DEF TypeOK
<1>2. Head(queue) \in Row /\ Head(queue) = queue[1] /\ rest \in Seq(Row)
  BY <1>1, HeadTailProperties
<1>3. DOMAIN rest = 1..(n - 1) /\ \A i \in 1..(n - 1) : rest[i] = queue[i + 1]
  BY <1>1, <1>2, HeadTailProperties, LenProperties
<1>4. h \in Schedule
  BY <1>2 DEF TypeOK, RowRecord
<1> HIDE DEF n, rest
<1>5. QueueSound(rows, rest)
  <2>1. \A i \in DOMAIN rest : i + 1 \in DOMAIN queue
    BY <1>1, <1>3
  <2> QED BY <1>1, <1>3, <2>1 DEF QueueInvariant, QueueSound
<1>6. \A s, i : i \in Holding(rows, rest, {}, s) <=>
              i \in 1..(n - 1) /\ i + 1 \in Holding(rows, queue, AtWork, s)
  <2> SUFFICES ASSUME NEW s, NEW i
               PROVE  i \in Holding(rows, rest, {}, s) <=>
                         i \in 1..(n - 1) /\ i + 1 \in Holding(rows, queue, AtWork, s)
    OBVIOUS
  <2>1. CASE i \in 1..(n - 1)
    BY <1>1, <1>3, <2>1 DEF Holding, AtWork
  <2>2. CASE i \notin 1..(n - 1)
    BY <1>3, <2>2 DEF Holding
  <2> QED BY <2>1, <2>2
<1>7. \A s, i : i \in Holding(rows, queue, AtWork, s) =>
              \/ i = 1 /\ s = h /\ (working \/ Preclaimed(Head(queue)))
              \/ i - 1 \in Holding(rows, rest, {}, s)
  <2> SUFFICES ASSUME NEW s, NEW i \in Holding(rows, queue, AtWork, s)
               PROVE  \/ i = 1 /\ s = h /\ (working \/ Preclaimed(Head(queue)))
                      \/ i - 1 \in Holding(rows, rest, {}, s)
    OBVIOUS
  <2>1. i \in 1..n
    BY <1>1 DEF Holding
  <2>2. CASE i = 1
    BY <1>2, <2>2 DEF Holding, Preclaimed, AtWork
  <2>3. CASE i # 1
    <3>1. i - 1 \in 1..(n - 1) /\ (i - 1) + 1 = i
      BY <1>1, <2>1, <2>3
    <3> QED BY <1>6, <3>1
  <2> QED BY <2>2, <2>3
<1>8. working \/ Preclaimed(Head(queue)) => 1 \in Holding(rows, queue, AtWork, h)
  BY <1>1, <1>2 DEF Holding, Preclaimed, AtWork
<1>9. \A s \in Schedule :
        /\ s \in running <=> Holding(rows, queue, AtWork, s) # {}
        /\ \A i, j \in Holding(rows, queue, AtWork, s) : i = j
  BY DEF QueueInvariant, HeldIn
<1>10. \A s \in Schedule : \A i, j \in Holding(rows, rest, {}, s) : i = j
  <2> SUFFICES ASSUME NEW s \in Schedule, NEW i \in Holding(rows, rest, {}, s),
                      NEW j \in Holding(rows, rest, {}, s)
               PROVE  i = j
    OBVIOUS
  <2>1. i \in 1..(n - 1) /\ j \in 1..(n - 1) /\ i + 1 = j + 1
    BY <1>6, <1>9
  <2> QED BY <1>1, <2>1
<1>11. \A s \in Schedule \ {h} :
          s \in running <=> Holding(rows, rest, {}, s) # {}
  BY <1>6, <1>7, <1>9
<1>12. ASSUME working \/ Preclaimed(Head(queue))
       PROVE  Holding(rows, rest, {}, h) = {}
  <2> SUFFICES ASSUME NEW i \in Holding(rows, rest, {}, h)
               PROVE  FALSE
    OBVIOUS
  <2>1. i \in 1..(n - 1) /\ i + 1 = 1
    BY <1>4, <1>6, <1>8, <1>9, <1>12
  <2> QED BY <1>1, <2>1
<1>13. ASSUME ~(working \/ Preclaimed(Head(queue)))
       PROVE  h \in running <=> Holding(rows, rest, {}, h) # {}
  <2>1. \A i : i \in Holding(rows, queue, AtWork, h) => i - 1 \in Holding(rows, rest, {}, h)
    BY <1>7, <1>13
  <2>2. \A i : i \in Holding(rows, rest, {}, h) => i + 1 \in Holding(rows, queue, AtWork, h)
    BY <1>6
  <2>3. Holding(rows, queue, AtWork, h) # {} <=> Holding(rows, rest, {}, h) # {}
    BY <2>1, <2>2
  <2> QED BY ONLY <1>4, <1>9, <2>3
<1>14. ASSUME working \/ ~Refused
       PROVE  HeldIn(rows, rest, {}, running \ {h})
  <2>1. Holding(rows, rest, {}, h) = {}
    BY <1>12, <1>13, <1>14 DEF Refused
  <2> QED BY <1>10, <1>11, <2>1 DEF HeldIn
<1>15. ASSUME ~working, Refused
       PROVE  HeldIn(rows, rest, {}, running)
  BY <1>10, <1>11, <1>13, <1>15 DEF HeldIn, Refused
<1> QED BY <1>2, <1>5, <1>14, <1>15 DEF rest
-----------------------------------------------------------------------------
(* The inductive invariant, action by action.                              *)

Invariant == TypeOK /\ ClaimsLedger(rows) /\ QueueInvariant

LEMMA InitEstablishes == Init => Invariant
<1> SUFFICES ASSUME Init PROVE Invariant
  OBVIOUS
<1>1. Unwritten \in RowRecord
  BY SchedulerAssumption DEF Unwritten, RowRecord
<1>2. TableTypes
  <2>1. <<>> \in Seq(Row)
    BY EmptySeq
  <2> QED BY <1>1, <2>1, NoLoopIsLoop, SchedulerAssumption
          DEF Init, TableTypes, Rows, Loops, ScheduleRecord, Version, Nothing
<1>3. OtherTypes
  <2>1. 0 \in Version /\ 0 \in 0..MaxEdits /\ 0 \in 0..MaxFaults
    BY SchedulerAssumption DEF Version
  <2>2. threads \in [Thread -> [version : Version, offered : BOOLEAN]]
    BY <2>1 DEF Init
  <2>3. pending \in [Thread -> Version]
    BY <2>1 DEF Init, Nothing
  <2> QED BY <2>1, <2>2, <2>3 DEF Init, OtherTypes
<1>4. \A r \in Row : rows[r].status = "absent"
  BY DEF Init, Unwritten
<1>5. Existing(rows) = {} /\ Timed(rows) = {}
  BY <1>4 DEF Existing, Timed
<1>6. ClaimsLedger(rows)
  <2>1. UnsavedUnrevised /\ WatermarkBehind
    BY DEF Init, UnsavedUnrevised, WatermarkBehind, Nothing
  <2> QED BY <1>5, <2>1 DEF ClaimsLedger, Spent, ClaimedOnce, Watermarked, HandledOnce
<1>7. queue = <<>> /\ DOMAIN queue = {} /\ working = FALSE /\ running = {}
  BY DEF Init
<1>8. QueueInvariant
  BY <1>7 DEF QueueInvariant, QueueSound, HeldIn, Holding, AtWork
<1> QED BY <1>2, <1>3, <1>6, <1>8, TypesSplit DEF Invariant

\* A loop that goes on from a sound table and queue leaves both sound.
LEMMA ProceedKeepsInvariant ==
    ASSUME TypeOK, NEW loop \in Loop, NEW busy, NEW db \in Rows,
           NEW order \in Seq(Row), NEW waiting \in Loops,
           ClaimsLedger(db), QueueSound(db, order),
           HeldIn(db, order, AtWork', running'),
           AtWork' \subseteq DOMAIN order,
           OtherTypes', threads' = threads,
           Proceed(loop, busy, db, order, waiting)
    PROVE  Invariant'
<1>1. TypeOK'
  BY ProceedKeepsTypes, NextTypesSplit
<1>2. ClaimsLedger(rows)'
  BY ProceedKeepsLedger
<1>4. /\ QueueSound(rows', queue') /\ HeldIn(rows', queue', AtWork', running')
      /\ AtWork' \subseteq DOMAIN queue'
  BY ProceedKeepsQueue
<1> QED BY <1>1, <1>2, <1>4 DEF Invariant, QueueInvariant

\* Nothing but time and the owner's edits.
LEMMA EditKeeps ==
    ASSUME Invariant, NEW s \in Schedule,
           CreateSchedule(s) \/ UpdateSchedule(s) \/ DeleteSchedule(s) \/ Elapse(s)
    PROVE  Invariant'
<1> USE DEF Invariant
<1>1. /\ rows' = rows /\ watermark' = watermark /\ threads' = threads
      /\ UNCHANGED <<daemon, queue, working, running, loops, pending, flushing>>
  BY DEF CreateSchedule, UpdateSchedule, DeleteSchedule, Elapse, memory, inbox
<1>2. edits' \in 0..MaxEdits /\ faults' \in 0..MaxFaults
  BY SchedulerAssumption DEF CreateSchedule, UpdateSchedule, DeleteSchedule, Elapse,
                             Edit, counts, TypeOK
<1>3. schedules \in [Schedule -> ScheduleRecord]
  BY TypesSplit DEF TableTypes
<1>4. \A enabled \in BOOLEAN : InitialNext(s, enabled) \subseteq {"none", "future", "due"}
  BY DEF InitialNext, Schedule
<1>5. /\ schedules' \in [Schedule -> ScheduleRecord]
      /\ \A x \in Schedule \ {s} : schedules'[x] = schedules[x]
      /\ schedules[s].revision <= schedules'[s].revision
      /\ schedules'[s].saved # "absent" \/ schedules'[s].revision = 0
  <2>1. CASE CreateSchedule(s)
    <3>1. PICK enabled \in BOOLEAN, next \in {"none", "future", "due"} :
            schedules' = [schedules EXCEPT ![s] =
              [saved |-> "saved", enabled |-> enabled, revision |-> 1, next |-> next]]
      BY <1>4, <2>1 DEF CreateSchedule
    <3> DEFINE record == [saved |-> "saved", enabled |-> enabled,
                          revision |-> 1, next |-> next]
    <3>2. record \in ScheduleRecord /\ record.revision = 1 /\ record.saved = "saved"
      BY DEF ScheduleRecord
    <3>3. schedules[s].revision = 0
      BY <2>1 DEF CreateSchedule, ClaimsLedger, UnsavedUnrevised
    <3> HIDE DEF record
    <3>4. schedules' = [schedules EXCEPT ![s] = record]
      BY <3>1 DEF record
    <3> QED BY <1>3, <3>2, <3>3, <3>4
  <2>2. CASE UpdateSchedule(s)
    <3>1. PICK enabled \in BOOLEAN, next \in {"none", "future", "due"} :
            schedules' = [schedules EXCEPT ![s] =
              [saved |-> "saved", enabled |-> enabled,
               revision |-> schedules[s].revision + 1, next |-> next]]
      BY <1>3, <1>4, <2>2 DEF UpdateSchedule
    <3> DEFINE record == [saved |-> "saved", enabled |-> enabled,
                          revision |-> schedules[s].revision + 1, next |-> next]
    <3>2. schedules[s].revision \in Nat
      BY <1>3 DEF ScheduleRecord
    <3>3. /\ record \in ScheduleRecord /\ record.saved = "saved"
          /\ record.revision = schedules[s].revision + 1
      BY <3>2 DEF ScheduleRecord
    <3> HIDE DEF record
    <3>4. schedules' = [schedules EXCEPT ![s] = record]
      BY <3>1 DEF record
    <3> QED BY <1>3, <3>2, <3>3, <3>4
  <2>3. CASE DeleteSchedule(s)
    <3> DEFINE record == [[schedules[s] EXCEPT !.saved = "deleted"] EXCEPT !.enabled = FALSE]
    <3>1. /\ record \in ScheduleRecord /\ record.saved = "deleted"
          /\ record.revision = schedules[s].revision /\ schedules[s].revision \in Nat
      BY <1>3 DEF ScheduleRecord
    <3>2. schedules' = [schedules EXCEPT ![s] = record]
      BY <1>3, <2>3 DEF DeleteSchedule
    <3> HIDE DEF record
    <3> QED BY <1>3, <3>1, <3>2
  <2>4. CASE Elapse(s)
    <3> DEFINE record == [schedules[s] EXCEPT !.next = "due"]
    <3>1. /\ record \in ScheduleRecord /\ record.saved = schedules[s].saved
          /\ record.revision = schedules[s].revision /\ schedules[s].revision \in Nat
      BY <1>3 DEF ScheduleRecord
    <3>2. schedules' = [schedules EXCEPT ![s] = record]
      BY <1>3, <2>4 DEF Elapse
    <3>3. schedules[s].saved # "absent" \/ schedules[s].revision = 0
      BY DEF ClaimsLedger, UnsavedUnrevised
    <3> HIDE DEF record
    <3> QED BY <1>3, <3>1, <3>2, <3>3
  <2> QED BY <2>1, <2>2, <2>3, <2>4
<1>6. TypeOK'
  <2>1. TableTypes'
    BY <1>1, <1>3, <1>5, TypesSplit DEF TableTypes
  <2>2. OtherTypes'
    BY <1>1, <1>2, TypesSplit DEF OtherTypes
  <2> QED BY <2>1, <2>2, NextTypesSplit
<1>7. ClaimsLedger(rows)'
  <2>1. \A x \in Schedule : schedules[x].revision <= schedules'[x].revision
    BY <1>3, <1>5 DEF ScheduleRecord
  <2>2. UnsavedUnrevised'
    BY <1>3, <1>5 DEF UnsavedUnrevised, ClaimsLedger
  <2>3. \A t \in Thread : threads[t].version <= threads'[t].version
    BY <1>1, SchedulerAssumption DEF TypeOK, Version
  <2> QED BY <1>1, <1>6, <2>1, <2>2, <2>3, GrowthKeepsLedger
<1>8. QueueInvariant'
  BY <1>1 DEF QueueInvariant, AtWork
<1> QED BY <1>6, <1>7, <1>8
LEMMA ThreadKeeps ==
    ASSUME Invariant, NEW t \in Thread, Message(t) \/ Reoffer(t)
    PROVE  Invariant'
<1> USE DEF Invariant
<1>1. /\ UNCHANGED <<schedules, rows, watermark, queue, working, running, loops>>
      /\ UNCHANGED <<daemon, edits, faults>>
  BY DEF Message, Reoffer, durable, memory, counts
<1>2. threads \in [Thread -> [version : Version, offered : BOOLEAN]]
  BY DEF TypeOK
<1>3. \A u \in Thread : threads[u].version \in Nat
  BY <1>2, SchedulerAssumption DEF Version
<1>4. /\ threads' \in [Thread -> [version : Version, offered : BOOLEAN]]
      /\ \A u \in Thread : threads[u].version <= threads'[u].version
  <2>1. CASE Message(t)
    <3>1. PICK offered \in BOOLEAN :
            threads' = [threads EXCEPT ![t] = [version |-> threads[t].version + 1,
                                               offered |-> offered]]
      BY <1>2, <2>1 DEF Message
    <3>2. threads[t].version + 1 \in Version
      BY <1>3, <2>1, SchedulerAssumption DEF Message, Version
    <3> QED BY <1>2, <1>3, <3>1, <3>2
  <2>2. CASE Reoffer(t)
    <3>1. [threads[t] EXCEPT !.offered = ~@] \in [version : Version, offered : BOOLEAN]
      BY <1>2
    <3>2. threads' = [threads EXCEPT ![t] = [threads[t] EXCEPT !.offered = ~@]]
      BY <1>2, <2>2 DEF Reoffer
    <3>3. [threads[t] EXCEPT !.offered = ~@].version = threads[t].version
      BY <1>2
    <3> QED BY <1>2, <1>3, <3>1, <3>2, <3>3
  <2> QED BY <2>1, <2>2
<1>5. pending' \in [Thread -> Version] /\ flushing' \in BOOLEAN
  <2>1. 0 \in Version
    BY SchedulerAssumption DEF Version
  <2>2. CASE Message(t)
    <3>1. threads[t].version + 1 \in Version
      BY <1>3, <2>2, SchedulerAssumption DEF Message, Version
    <3> QED BY <2>2, <3>1 DEF Message, inbox, TypeOK
  <2>3. CASE Reoffer(t)
    <3>1. CASE UNCHANGED inbox
      BY <3>1 DEF inbox, TypeOK
    <3>2. CASE ~UNCHANGED inbox
      BY <1>2, <2>1, <2>3, <3>2 DEF Reoffer
    <3> QED BY <3>1, <3>2
  <2> QED BY <2>2, <2>3
<1>6. TypeOK'
  <2>1. TableTypes'
    BY <1>1, TypesSplit DEF TableTypes
  <2>2. OtherTypes'
    BY <1>1, <1>4, <1>5, TypesSplit DEF OtherTypes
  <2> QED BY <2>1, <2>2, NextTypesSplit
<1>7. ClaimsLedger(rows)'
  <2>1. UnsavedUnrevised'
    BY <1>1 DEF ClaimsLedger, UnsavedUnrevised
  <2>2. \A s \in Schedule : schedules[s].revision <= schedules'[s].revision
    BY <1>1 DEF TypeOK
  <2> QED BY <1>1, <1>4, <1>6, <2>1, <2>2, GrowthKeepsLedger
<1>8. QueueInvariant'
  BY <1>1 DEF QueueInvariant, AtWork
<1> QED BY <1>6, <1>7, <1>8

\* A row that is neither timed nor carries messages adds nothing to the ledger.
LEMMA RunNowKeeps ==
    ASSUME Invariant, NEW s \in Schedule, RunNow(s)
    PROVE  Invariant'
<1> USE DEF Invariant
<1> DEFINE new == NewRow(rows)
           row == Entry(s, "manual", schedules[s].revision, {})
<1>1. rows \in Rows
  BY DEF TypeOK, Rows
<1>2. new \in Row /\ rows[new].status = "absent"
  BY <1>1, NewRowIsUnused DEF RunNow
<1>3. /\ rows' = [rows EXCEPT ![new] = row] /\ queue' = Append(queue, new)
      /\ running' = running \cup {s} /\ s \notin running
      /\ UNCHANGED <<schedules, watermark, threads, daemon, working, loops, pending, flushing>>
      /\ UNCHANGED <<edits, faults>>
  BY DEF RunNow, inbox, counts
<1>4. /\ row \in RowRecord /\ row.status = "running" /\ row.trigger = "manual"
      /\ row.id = s /\ row.context = {}
  BY DEF Entry, RowRecord, TypeOK
<1> HIDE DEF new, row
<1>5. TypeOK'
  <2>1. queue' \in Seq(Row)
    BY <1>2, <1>3, AppendProperties DEF TypeOK
  <2>2. TableTypes'
    BY <1>1, <1>2, <1>3, <1>4, <2>1, TypesSplit DEF TableTypes, Rows
  <2>3. OtherTypes'
    BY <1>3, TypesSplit DEF OtherTypes
  <2> QED BY <2>2, <2>3, NextTypesSplit
<1>6. rows'[new] = row /\ \A r \in Row \ {new} : rows'[r] = rows[r]
  BY <1>1, <1>2, <1>3 DEF Rows
<1>7. /\ Existing(rows') = Existing(rows) \cup {new} /\ new \notin Existing(rows)
      /\ Timed(rows') = Timed(rows)
  BY <1>2, <1>4, <1>6 DEF Existing, Timed
<1>8. \A r \in Existing(rows) : r \in Row /\ rows'[r] = rows[r]
  BY <1>6, <1>7 DEF Existing
<1>9. ClaimsLedger(rows)'
  <2>1. \A r \in Timed(rows) : rows'[r] = rows[r]
    BY <1>8 DEF Timed
  <2>2. UnsavedUnrevised' /\ Spent(rows)' /\ WatermarkBehind'
    BY <1>3, <1>7, <2>1 DEF ClaimsLedger, UnsavedUnrevised, Spent, WatermarkBehind
  <2>3. ClaimedOnce(rows)'
    BY <1>7, <2>1 DEF ClaimsLedger, ClaimedOnce
  <2>4. Watermarked(rows)'
    BY <1>3, <1>4, <1>6, <1>7, <1>8 DEF ClaimsLedger, Watermarked
  <2>5. HandledOnce(rows)'
    BY <1>4, <1>6, <1>7, <1>8 DEF ClaimsLedger, HandledOnce
  <2> QED BY <2>2, <2>3, <2>4, <2>5 DEF ClaimsLedger
<1>10. QueueInvariant'
  <2>1. queue \in Seq(Row) /\ working \in BOOLEAN
    BY DEF TypeOK
  <2>2. /\ QueueSound(rows', queue')
        /\ HeldIn(rows', queue', AtWork, running \cup {s})
    BY <1>1, <1>2, <1>3, <1>4, <2>1, AppendKeepsQueue DEF QueueInvariant
  <2>3. queue' # <<>>
    BY <1>2, <1>3, <2>1, AppendProperties
  <2> QED BY <1>3, <2>2, <2>3 DEF QueueInvariant, AtWork
<1> QED BY <1>5, <1>9, <1>10
LEMMA OfferedIsTyped == TypeOK => Offered \in [Thread -> Version]
<1>1. 0 \in Version
  BY SchedulerAssumption DEF Version
<1> QED BY <1>1 DEF TypeOK, Offered

\* The tick of the interval and that of a start, which has ended rows first.
LEMMA TickFromKeeps ==
    ASSUME Invariant, NEW db \in Rows, SameClaims(rows, db), TickFrom(db),
           UNCHANGED <<threads, working, running, edits, faults>>,
           daemon' \in {"down", "up", "stopping"}
    PROVE  Invariant'
<1> USE DEF Invariant
<1>1. OtherTypes'
  <2>1. pending' \in [Thread -> Version] /\ flushing' = TRUE
    BY OfferedIsTyped DEF TickFrom
  <2> QED BY <2>1, TypesSplit DEF OtherTypes
<1>2. PICK order \in SetToSeqs(Snapshots(Due)) :
        Proceed([kind |-> "tick", rest |-> order, changes |-> {}], running, db, queue, loops)
  BY DEF TickFrom
<1> DEFINE loop == [kind |-> "tick", rest |-> order, changes |-> {}]
<1>3. loop \in Loop
  <2>1. Due \in SUBSET Schedule
    BY DEF Due
  <2>2. order \in Seq(Snap)
    BY <2>1, ListsAreSequences
  <2> QED BY <2>2 DEF Loop
<1>4. rows \in Rows /\ queue \in Seq(Row) /\ loops \in Loops
  BY TypesSplit DEF TableTypes
<1>5. ClaimsLedger(db)
  BY <1>4, StatusKeepsLedger
<1>6. QueueSound(db, queue) /\ HeldIn(db, queue, AtWork, running)
  BY <1>4, StatusKeepsQueue DEF QueueInvariant
<1> HIDE DEF loop
<1>7. /\ HeldIn(db, queue, AtWork', running') /\ threads' = threads
      /\ AtWork' \subseteq DOMAIN queue
  BY <1>6 DEF QueueInvariant, AtWork
<1>8. Proceed(loop, running, db, queue, loops)
  BY <1>2 DEF loop
<1> HIDE DEF Invariant
<1> QED BY <1>1, <1>3, <1>4, <1>5, <1>6, <1>7, <1>8, ProceedKeepsInvariant DEF Invariant

LEMMA TickKeeps ==
    ASSUME Invariant, Tick
    PROVE  Invariant'
<1>1. rows \in Rows /\ SameClaims(rows, rows)
  BY TypesSplit DEF Invariant, TableTypes, SameClaims
<1>2. /\ UNCHANGED <<threads, working, running, edits, faults>>
      /\ daemon' \in {"down", "up", "stopping"} /\ TickFrom(rows)
  BY DEF Tick, counts, Invariant, TypeOK
<1> QED BY <1>1, <1>2, TickFromKeeps

LEMMA StartKeeps ==
    ASSUME Invariant, Start
    PROVE  Invariant'
<1> DEFINE db == [r \in Row |-> IF r \in Running(rows)
                                THEN [rows[r] EXCEPT !.status = "interrupted"]
                                ELSE rows[r]]
<1>1. rows \in Rows
  BY TypesSplit DEF Invariant, TableTypes
<1>2. \A r \in Row : rows[r] \in RowRecord
  BY <1>1 DEF Rows
<1>3. db \in Rows
  BY <1>2 DEF Rows, RowRecord
<1>4. SameClaims(rows, db)
  BY <1>2 DEF SameClaims, Existing, Running, RowRecord
<1>5. /\ UNCHANGED <<threads, working, running, edits, faults>>
      /\ daemon' \in {"down", "up", "stopping"} /\ TickFrom(db)
  BY DEF Start, counts
<1> HIDE DEF db
<1> QED BY <1>3, <1>4, <1>5, TickFromKeeps

LEMMA FlushKeeps ==
    ASSUME Invariant, FlushNeedsYou
    PROVE  Invariant'
<1> USE DEF Invariant
<1> DEFINE changes == {c \in Change : c.version # 0 /\ pending[c.thread] = c.version}
           enabled == {s \in Attention : schedules[s].saved = "saved" /\ schedules[s].enabled}
<1>1. OtherTypes'
  <2>1. 0 \in Version
    BY SchedulerAssumption DEF Version
  <2>2. pending' \in [Thread -> Version] /\ flushing' = FALSE
    BY <2>1 DEF FlushNeedsYou, Nothing
  <2>3. UNCHANGED <<threads, daemon, working, running, edits, faults>>
    BY DEF FlushNeedsYou, counts
  <2> QED BY <2>2, <2>3, TypesSplit DEF OtherTypes
<1>2. PICK order \in SetToSeqs(Snapshots(enabled)) :
        Proceed([kind |-> "flush", rest |-> order, changes |-> changes],
                running, rows, queue, loops)
  BY DEF FlushNeedsYou
<1> DEFINE loop == [kind |-> "flush", rest |-> order, changes |-> changes]
<1>3. loop \in Loop
  <2>1. enabled \in SUBSET Schedule
    BY DEF Schedule
  <2>2. order \in Seq(Snap)
    BY <2>1, ListsAreSequences
  <2>3. changes \in SUBSET Change
    OBVIOUS
  <2> HIDE DEF changes
  <2> QED BY <2>2, <2>3 DEF Loop
<1>4. rows \in Rows /\ queue \in Seq(Row) /\ loops \in Loops
  BY TypesSplit DEF TableTypes
<1>5. Proceed(loop, running, rows, queue, loops)
  BY <1>2 DEF loop
<1> HIDE DEF loop
<1>6. /\ HeldIn(rows, queue, AtWork', running') /\ QueueSound(rows, queue)
      /\ AtWork' \subseteq DOMAIN queue
      /\ threads' = threads /\ ClaimsLedger(rows) /\ TypeOK
  BY DEF FlushNeedsYou, QueueInvariant, AtWork
<1> HIDE DEF Invariant
<1> QED BY <1>1, <1>3, <1>4, <1>5, <1>6, ProceedKeepsInvariant
\* The first execution ends: its row is finished and its loop goes on.
LEMMA SettledKeeps ==
    ASSUME Invariant, queue # <<>>, working \/ ~Refused,
           NEW status \in {"completed", "failed", "interrupted"}, Settled(status)
    PROVE  Invariant'
<1> USE DEF Invariant
<1> DEFINE r == Head(queue)
           db == [rows EXCEPT ![r].status = status]
           waiting == [loops EXCEPT ![r] = NoLoop]
<1>1. rows \in Rows /\ queue \in Seq(Row) /\ loops \in Loops
  BY TypesSplit DEF TableTypes
<1>2. /\ r \in Row /\ Tail(queue) \in Seq(Row) /\ QueueSound(rows, Tail(queue))
      /\ HeldIn(rows, Tail(queue), {}, running \ {rows[r].id})
  BY PopKeepsQueue
<1>3. rows[r] \in RowRecord /\ rows[r].status # "absent"
  <2>1. rows[queue[1]].status # "absent" /\ Head(queue) = queue[1]
    <3>1. Len(queue) \in Nat \ {0} /\ DOMAIN queue = 1..Len(queue)
      BY <1>1, EmptySeq, LenProperties
    <3> QED BY <1>1, <3>1, HeadTailProperties DEF QueueInvariant, QueueSound
  <2> QED BY <1>1, <1>2, <2>1 DEF Rows
<1>4. db \in Rows
  BY <1>1, <1>2, <1>3 DEF Rows, RowRecord
<1>5. SameClaims(rows, db)
  <2>1. /\ db[r].status = status /\ db[r].id = rows[r].id /\ db[r].trigger = rows[r].trigger
        /\ db[r].revision = rows[r].revision /\ db[r].context = rows[r].context
        /\ \A q \in Row \ {r} : db[q] = rows[q]
    BY <1>1, <1>2, <1>3 DEF Rows, RowRecord
  <2> HIDE DEF db
  <2> QED BY <1>2, <1>3, <2>1 DEF SameClaims, Existing
<1>6. waiting \in Loops
  BY <1>1, <1>2, NoLoopIsLoop DEF Loops
<1>7. loops[r] \in Loop
  BY <1>1, <1>2 DEF Loops
<1>8. /\ running' = running \ {rows[r].id} /\ working' = FALSE
      /\ Proceed(loops[r], running', db, Tail(queue), waiting)
      /\ UNCHANGED <<threads, daemon, pending, flushing, edits, faults>>
  BY DEF Settled, Recorded, inbox, counts
<1> HIDE DEF db, waiting
<1>9. OtherTypes'
  BY <1>8, TypesSplit DEF OtherTypes
<1>10. ClaimsLedger(db)
  BY <1>1, <1>4, <1>5, StatusKeepsLedger
<1>11. QueueSound(db, Tail(queue)) /\ HeldIn(db, Tail(queue), AtWork', running')
  <2> DEFINE rest == Tail(queue)
             nowhere == {}
             held == running \ {rows[r].id}
  <2>1. /\ QueueSound(db, rest)
        /\ HeldIn(db, rest, nowhere, held)
    <3>1. rest \in Seq(Row) /\ QueueSound(rows, rest) /\ HeldIn(rows, rest, nowhere, held)
      BY <1>2
    <3> HIDE DEF rest, nowhere, held
    <3> QED BY ONLY <1>1, <1>4, <1>5, <3>1, StatusKeepsQueue
  <2>2. AtWork' = {} /\ running' = running \ {rows[r].id}
    BY <1>8 DEF AtWork
  <2> QED BY ONLY <2>1, <2>2
<1>12. AtWork' \subseteq DOMAIN Tail(queue) /\ threads' = threads /\ TypeOK
  BY <1>8 DEF AtWork
<1> HIDE DEF Invariant
<1> QED BY <1>2, <1>4, <1>6, <1>7, <1>8, <1>9, <1>10, <1>11, <1>12, ProceedKeepsInvariant

\* Steps that touch neither schedules, rows nor watermarks.
LEMMA MemoryKeeps ==
    ASSUME Invariant, UNCHANGED durable, threads' = threads, OtherTypes',
           queue' \in Seq(Row), loops' \in Loops, QueueInvariant'
    PROVE  Invariant'
<1> USE DEF Invariant
<1>1. schedules' = schedules /\ rows' = rows /\ watermark' = watermark
  BY DEF durable
<1>2. TypeOK'
  BY <1>1, TypesSplit, NextTypesSplit DEF TableTypes
<1>3. ClaimsLedger(rows)'
  <2>1. UnsavedUnrevised'
    BY <1>1 DEF ClaimsLedger, UnsavedUnrevised
  <2>2. \A s \in Schedule : schedules[s].revision <= schedules'[s].revision
    BY <1>1 DEF TypeOK
  <2>3. \A t \in Thread : threads[t].version <= threads'[t].version
    BY SchedulerAssumption DEF TypeOK, Version
  <2> QED BY <1>1, <1>2, <2>1, <2>2, <2>3, GrowthKeepsLedger
<1> QED BY <1>2, <1>3

LEMMA BeginRefusedKeeps ==
    ASSUME Invariant, BeginRefused
    PROVE  Invariant'
<1> USE DEF Invariant
<1>1. /\ queue # <<>> /\ ~working /\ Refused /\ queue' = Tail(queue)
      /\ loops' = [loops EXCEPT ![Head(queue)] = NoLoop]
      /\ UNCHANGED durable
      /\ UNCHANGED <<threads, daemon, working, running, pending, flushing, edits, faults>>
  BY DEF BeginRefused, inbox, counts
<1>2. /\ Tail(queue) \in Seq(Row) /\ QueueSound(rows, Tail(queue))
      /\ HeldIn(rows, Tail(queue), {}, running)
  BY <1>1, PopKeepsQueue
<1>3. working = FALSE /\ rows' = rows
  BY <1>1 DEF TypeOK, durable
<1>4. QueueInvariant'
  BY <1>1, <1>2, <1>3 DEF QueueInvariant, AtWork
<1>5. OtherTypes' /\ loops' \in Loops
  BY <1>1, TypesSplit, NoLoopIsLoop DEF OtherTypes, TableTypes, Loops
<1> QED BY <1>1, <1>2, <1>4, <1>5, MemoryKeeps

\* The execution at work holds its schedule from here on.
LEMMA BeginWorkKeeps ==
    ASSUME Invariant, BeginWork
    PROVE  Invariant'
<1> USE DEF Invariant
<1> DEFINE h == rows[Head(queue)].id
<1>1. /\ queue # <<>> /\ ~working /\ ~Refused /\ working' = TRUE
      /\ running' = running \cup {h} /\ queue' = queue /\ loops' = loops
      /\ UNCHANGED durable /\ UNCHANGED <<threads, daemon, pending, flushing, edits, faults>>
  BY DEF BeginWork, inbox, counts
<1>2. queue \in Seq(Row) /\ rows \in Rows /\ loops \in Loops
  BY TypesSplit DEF TableTypes
<1>3. Head(queue) \in Row /\ Head(queue) = queue[1]
  BY <1>1, <1>2, HeadTailProperties
<1>4. h \in Schedule
  BY <1>2, <1>3 DEF Rows, RowRecord
<1>5. 1 \in DOMAIN queue
  BY <1>1, <1>2, EmptySeq, LenProperties
<1> HIDE DEF h
<1>6. \A s : s # h => Holding(rows, queue, {1}, s) = Holding(rows, queue, AtWork, s)
  BY <1>1, <1>3 DEF Holding, h, AtWork
<1>7. Holding(rows, queue, {1}, h) = {1}
  <2>1. 1 \in Holding(rows, queue, {1}, h)
    BY <1>3, <1>5 DEF Holding, h
  <2>2. ASSUME NEW i \in Holding(rows, queue, {1}, h), i # 1
        PROVE  FALSE
    <3>1. i \in Holding(rows, queue, AtWork, h)
      BY <2>2 DEF Holding
    <3>2. h \in running
      BY <1>4, <3>1 DEF QueueInvariant, HeldIn
    <3>3. Preclaimed(Head(queue))
      BY <1>1, <3>2 DEF Refused, h
    <3>4. 1 \in Holding(rows, queue, AtWork, h)
      BY <1>3, <1>5, <3>3 DEF Holding, Preclaimed, h
    <3> QED BY <1>4, <2>2, <3>1, <3>4 DEF QueueInvariant, HeldIn
  <2> QED BY <2>1, <2>2
<1>8. HeldIn(rows, queue, {1}, running \cup {h})
  <2>1. HeldIn(rows, queue, AtWork, running)
    BY DEF QueueInvariant
  <2>2. ASSUME NEW s \in Schedule
        PROVE  /\ s \in running \cup {h} <=> Holding(rows, queue, {1}, s) # {}
               /\ \A i, j \in Holding(rows, queue, {1}, s) : i = j
    <3>1. CASE s = h
      BY ONLY <3>1, <1>7
    <3>2. CASE s # h
      <4>1. Holding(rows, queue, {1}, s) = Holding(rows, queue, AtWork, s)
        BY ONLY <3>2, <1>6
      <4>2. /\ s \in running <=> Holding(rows, queue, AtWork, s) # {}
            /\ \A i, j \in Holding(rows, queue, AtWork, s) : i = j
        BY ONLY <2>1, <2>2 DEF HeldIn
      <4>3. s \in running \cup {h} <=> s \in running
        BY ONLY <3>2
      <4> QED BY ONLY <4>1, <4>2, <4>3
    <3> QED BY ONLY <3>1, <3>2
  <2> QED BY ONLY <2>2 DEF HeldIn
<1>9. QueueInvariant'
  <2>1. rows' = rows
    BY <1>1 DEF durable
  <2>2. AtWork' = {1}
    BY <1>1 DEF AtWork
  <2>3. queue' = queue /\ running' = running \cup {h}
    BY ONLY <1>1
  <2>4. QueueSound(rows', queue')
    BY <2>1, <2>3 DEF QueueInvariant
  <2>5. AtWork' \subseteq DOMAIN queue'
    BY ONLY <1>5, <2>2, <2>3
  <2>6. HeldIn(rows', queue', AtWork', running')
    BY ONLY <1>8, <2>1, <2>2, <2>3
  <2> QED BY ONLY <2>4, <2>5, <2>6 DEF QueueInvariant
<1>10. OtherTypes'
  BY <1>1, <1>4, TypesSplit DEF OtherTypes
<1> QED BY <1>1, <1>2, <1>9, <1>10, MemoryKeeps

LEMMA FinishThrowsKeeps ==
    ASSUME Invariant, FinishThrows
    PROVE  Invariant'
<1> USE DEF Invariant
<1>1. /\ queue # <<>> /\ (working \/ ~Refused)
      /\ running' = running \ {rows[Head(queue)].id} /\ working' = FALSE
      /\ queue' = Tail(queue) /\ loops' = [loops EXCEPT ![Head(queue)] = NoLoop]
      /\ UNCHANGED durable
      /\ UNCHANGED <<threads, daemon, pending, flushing, edits>>
      /\ faults' = faults + 1 /\ faults < MaxFaults
  BY DEF FinishThrows, inbox, Fault
<1>2. /\ Tail(queue) \in Seq(Row) /\ QueueSound(rows, Tail(queue))
      /\ HeldIn(rows, Tail(queue), {}, running \ {rows[Head(queue)].id})
  BY <1>1, PopKeepsQueue
<1>3. QueueInvariant'
  BY <1>1, <1>2 DEF QueueInvariant, durable, AtWork
<1>4. faults' \in 0..MaxFaults
  BY <1>1, SchedulerAssumption DEF TypeOK
<1>5. OtherTypes' /\ loops' \in Loops
  BY <1>1, <1>4, TypesSplit, NoLoopIsLoop DEF OtherTypes, TableTypes, Loops
<1> QED BY <1>1, <1>2, <1>3, <1>5, MemoryKeeps

\* A process that is gone, or that is asked to go.
LEMMA ProcessKeeps ==
    ASSUME Invariant, Stop \/ Exit \/ Crash
    PROVE  Invariant'
<1> USE DEF Invariant
<1>1. UNCHANGED durable /\ threads' = threads /\ edits' = edits /\ faults' \in 0..MaxFaults
  BY SchedulerAssumption DEF Stop, Exit, Crash, Fault, counts, TypeOK
<1>2. rows' = rows
  BY <1>1 DEF durable
<1>3. CASE Stop
  <2>1. /\ queue' = queue /\ loops' = loops /\ working' = working /\ running' = running
        /\ daemon' = "stopping" /\ flushing' = FALSE /\ pending' = pending
    BY <1>3 DEF Stop, memory
  <2>2. OtherTypes' /\ queue' \in Seq(Row) /\ loops' \in Loops
    BY <1>1, <2>1, TypesSplit DEF OtherTypes, TableTypes
  <2>3. QueueInvariant'
    BY <1>2, <2>1 DEF QueueInvariant, AtWork
  <2> QED BY <1>1, <2>2, <2>3, MemoryKeeps
<1>4. CASE Exit \/ Crash
  <2>1. /\ queue' = <<>> /\ working' = FALSE /\ running' = {} /\ daemon' = "down"
        /\ loops' = [r \in Row |-> NoLoop] /\ pending' = Nothing /\ flushing' = FALSE
    BY <1>4 DEF Exit, Crash, Forgotten
  <2>2. Nothing \in [Thread -> Version]
    BY SchedulerAssumption DEF Nothing, Version
  <2>3. OtherTypes'
    BY <1>1, <2>1, <2>2, TypesSplit DEF OtherTypes
  <2>4. queue' \in Seq(Row) /\ loops' \in Loops
    BY <2>1, EmptySeq, NoLoopIsLoop DEF Loops
  <2>5. QueueInvariant'
    BY <2>1 DEF QueueInvariant, QueueSound, HeldIn, Holding, AtWork
  <2> QED BY <1>1, <2>3, <2>4, <2>5, MemoryKeeps
<1> QED BY <1>3, <1>4
LEMMA NextKeeps == Invariant /\ [Next]_vars => Invariant'
<1> SUFFICES ASSUME Invariant, [Next]_vars PROVE Invariant'
  OBVIOUS
<1>1. CASE \E s \in Schedule : \/ CreateSchedule(s) \/ UpdateSchedule(s)
                              \/ DeleteSchedule(s) \/ Elapse(s)
  BY <1>1, EditKeeps
<1>2. CASE \E s \in Schedule : RunNow(s)
  BY <1>2, RunNowKeeps
<1>3. CASE \E t \in Thread : Message(t) \/ Reoffer(t)
  BY <1>3, ThreadKeeps
<1>4. CASE Tick
  BY <1>4, TickKeeps
<1>5. CASE FlushNeedsYou
  BY <1>5, FlushKeeps
<1>6. CASE BeginRefused
  BY <1>6, BeginRefusedKeeps
<1>7. CASE BeginWork
  BY <1>7, BeginWorkKeeps
<1>8. CASE BeginStopped
  BY <1>8, SettledKeeps DEF BeginStopped
<1>9. CASE FinishThrows
  BY <1>9, FinishThrowsKeeps
<1>10. CASE \E reported \in {"completed", "failed"} : WorkEnds(reported)
  <2>1. PICK reported \in {"completed", "failed"} : WorkEnds(reported)
    BY <1>10
  <2> DEFINE status == IF daemon = "stopping" THEN "interrupted" ELSE reported
  <2>2. status \in {"completed", "failed", "interrupted"}
    OBVIOUS
  <2>3. queue # <<>> /\ working /\ Settled(status)
    BY <2>1 DEF WorkEnds
  <2> HIDE DEF status
  <2> QED BY <2>2, <2>3, SettledKeeps
<1>11. CASE Stop \/ Exit \/ Crash
  BY <1>11, ProcessKeeps
<1>12. CASE Start
  BY <1>12, StartKeeps
<1>13. CASE UNCHANGED vars
  <2>1. /\ UNCHANGED <<schedules, rows, watermark, threads, daemon>>
        /\ UNCHANGED <<queue, working, running, loops, pending, flushing, edits, faults>>
    BY <1>13 DEF vars, durable, memory, inbox, counts
  <2>2. UNCHANGED durable /\ OtherTypes' /\ queue' \in Seq(Row) /\ loops' \in Loops
    BY <2>1, TypesSplit DEF Invariant, OtherTypes, TableTypes, durable
  <2>3. QueueInvariant'
    BY <2>1 DEF Invariant, QueueInvariant, AtWork
  <2> QED BY <2>1, <2>2, <2>3, MemoryKeeps
<1> QED BY <1>1, <1>2, <1>3, <1>4, <1>5, <1>6, <1>7, <1>8, <1>9, <1>10, <1>11, <1>12, <1>13
        DEF Next

-----------------------------------------------------------------------------
(* How a row leaves the queue.                                             *)

ElementsOf(order) == {order[i] : i \in DOMAIN order}

\* A loop that goes on keeps what is queued, and touches no row that exists.
LEMMA ProceedKeepsElements ==
    ASSUME TypeOK, NEW loop \in Loop, NEW busy, NEW db \in Rows,
           NEW order \in Seq(Row), NEW waiting,
           Proceed(loop, busy, db, order, waiting)
    PROVE  /\ ElementsOf(order) \subseteq ElementsOf(queue')
           /\ \A r \in Row : db[r].status # "absent" => rows'[r] = db[r]
<1>1. CASE Ended(db, order, waiting)
  BY <1>1 DEF Ended
<1>2. ASSUME NEW new \in Row, NEW s \in Schedule, db[new].status = "absent",
             QueuedOrRefused(new, order, waiting),
             TimerClaimed(s, new, db) \/ HandoffClaimed(s, new, db)
      PROVE  /\ ElementsOf(order) \subseteq ElementsOf(queue')
             /\ \A r \in Row : db[r].status # "absent" => rows'[r] = db[r]
  <2>1. ElementsOf(order) \subseteq ElementsOf(Append(order, new))
    <3>1. /\ DOMAIN order = 1..Len(order) /\ Len(order) \in Nat
          /\ Append(order, new) \in Seq(Row) /\ Len(Append(order, new)) = Len(order) + 1
          /\ \A i \in 1..Len(order) : Append(order, new)[i] = order[i]
      BY AppendProperties, LenProperties
    <3>2. DOMAIN Append(order, new) = 1..(Len(order) + 1)
      BY <3>1, LenProperties
    <3> QED BY <3>1, <3>2 DEF ElementsOf
  <2>2. \A r \in Row \ {new} : rows'[r] = db[r]
    BY <1>2 DEF TimerClaimed, HandoffClaimed, Rows
  <2> QED BY <1>2, <2>1, <2>2 DEF QueuedOrRefused
<1> QED BY <1>1, <1>2, ProceedClaims

LEMMA StepExecutesClaims ==
    ASSUME Invariant, [Next]_vars, NEW r \in Queued,
           daemon' = "up", faults' = faults, r \notin Queued', rows'[r].status = "running"
    PROVE  \E q \in Queued' : rows[q].id = rows[r].id /\ Preclaimed(q)
<1>1. TypeOK /\ rows \in Rows /\ queue \in Seq(Row) /\ loops \in Loops
  BY TypesSplit DEF Invariant, TableTypes
<1>2. /\ DOMAIN queue = 1..Len(queue) /\ Len(queue) \in Nat
      /\ \A i \in DOMAIN queue : queue[i] \in Row
  BY <1>1, ElementOfSeq, LenProperties
<1>3. PICK i \in DOMAIN queue : r = queue[i]
  BY DEF Queued
<1>4. Queued' = ElementsOf(queue') /\ Queued = ElementsOf(queue)
  BY DEF Queued, ElementsOf
<1>5. ~(ElementsOf(queue) \subseteq ElementsOf(queue'))
  BY <1>4
<1>6. queue' # queue
  BY <1>5
<1>7. CASE BeginRefused
  <2>1. /\ queue # <<>> /\ ~working /\ Refused /\ queue' = Tail(queue) /\ rows' = rows
    BY <1>7 DEF BeginRefused, durable
  <2>2. /\ Head(queue) = queue[1] /\ Tail(queue) \in Seq(Row)
        /\ Len(Tail(queue)) = Len(queue) - 1
        /\ \A j \in 1..Len(Tail(queue)) : Tail(queue)[j] = queue[j + 1]
    BY <1>1, <2>1, HeadTailProperties
  <2>3. DOMAIN Tail(queue) = 1..(Len(queue) - 1)
    BY <2>2, LenProperties
  <2>4. \A j \in DOMAIN queue : j # 1 => queue[j] \in Queued'
    <3> SUFFICES ASSUME NEW j \in DOMAIN queue, j # 1 PROVE queue[j] \in Queued'
      OBVIOUS
    <3>1. j - 1 \in 1..(Len(queue) - 1) /\ (j - 1) + 1 = j
      BY <1>2
    <3>2. Tail(queue)[j - 1] = queue[j]
      BY <2>2, <3>1
    <3> QED BY <1>4, <2>1, <2>3, <3>1, <3>2 DEF ElementsOf
  <2>5. r = Head(queue)
    BY <1>3, <2>2, <2>4
  <2>6. rows[r].id \in running /\ ~Preclaimed(r)
    BY <2>1, <2>5 DEF Refused
  <2>7. rows[r].id \in Schedule
    BY <1>1, <1>2, <1>3 DEF Rows, RowRecord
  <2>8. PICK j \in Holders(rows[r].id) : TRUE
    BY <2>6, <2>7, HeldIsHeldByOne DEF Invariant, QueueInvariant, HeldByOne
  <2>9. j \in DOMAIN queue /\ rows[queue[j]].id = rows[r].id /\ Preclaimed(queue[j])
    BY <2>1, <2>8 DEF Holders
  <2>10. j # 1
    BY <2>2, <2>5, <2>6, <2>9
  <2> QED BY <2>4, <2>9, <2>10
<1>8. CASE \E reported \in {"completed", "failed"} : WorkEnds(reported)
  <2>1. PICK reported \in {"completed", "failed"} : WorkEnds(reported)
    BY <1>8
  <2> DEFINE h == Head(queue)
             db == [rows EXCEPT ![h].status = reported]
             waiting == [loops EXCEPT ![h] = NoLoop]
  <2>2. daemon = "up" /\ queue # <<>>
    BY <2>1 DEF WorkEnds, Settled, Recorded
  <2>3. Proceed(loops[h], running', db, Tail(queue), waiting)
    BY <2>1, <2>2 DEF WorkEnds, Settled, Recorded
  <2>4. h \in Row /\ h = queue[1] /\ Tail(queue) \in Seq(Row)
    BY <1>1, <2>2, HeadTailProperties
  <2>5. rows[h] \in RowRecord /\ loops[h] \in Loop
    BY <1>1, <2>4 DEF Rows, Loops
  <2>6. db \in Rows /\ db[h].status = reported
    BY <1>1, <2>4, <2>5 DEF Rows, RowRecord
  <2> HIDE DEF db, waiting
  <2>7. /\ ElementsOf(Tail(queue)) \subseteq ElementsOf(queue')
        /\ \A q \in Row : db[q].status # "absent" => rows'[q] = db[q]
    BY <1>1, <2>3, <2>4, <2>5, <2>6, ProceedKeepsElements
  <2>8. rows'[h].status # "running"
    BY <2>4, <2>6, <2>7
  <2>9. i # 1
    BY <1>3, <2>4, <2>8
  <2>10. r \in ElementsOf(Tail(queue))
    <3>1. i - 1 \in 1..(Len(queue) - 1) /\ (i - 1) + 1 = i
      BY <1>2, <1>3, <2>9
    <3>2. Tail(queue)[i - 1] = queue[i] /\ DOMAIN Tail(queue) = 1..(Len(queue) - 1)
      BY <1>1, <2>2, <3>1, HeadTailProperties, LenProperties
    <3> QED BY <1>3, <3>1, <3>2 DEF ElementsOf
  <2> QED BY <1>4, <2>7, <2>10
<1>9. CASE \E s \in Schedule : RunNow(s)
  <2>1. PICK s \in Schedule : RunNow(s)
    BY <1>9
  <2>2. queue' = Append(queue, NewRow(rows)) /\ NewRow(rows) \in Row
    BY <1>1, <2>1, NewRowIsUnused DEF RunNow
  <2>3. /\ Append(queue, NewRow(rows)) \in Seq(Row)
        /\ Len(Append(queue, NewRow(rows))) = Len(queue) + 1
        /\ \A j \in 1..Len(queue) : Append(queue, NewRow(rows))[j] = queue[j]
    BY <1>1, <2>2, AppendProperties
  <2>4. DOMAIN Append(queue, NewRow(rows)) = 1..(Len(queue) + 1)
    BY <2>3, LenProperties
  <2> QED BY <1>2, <1>5, <2>2, <2>3, <2>4 DEF ElementsOf
<1>10. ASSUME NEW db \in Rows, TickFrom(db)
       PROVE  FALSE
  <2>1. PICK order \in SetToSeqs(Snapshots(Due)) :
          Proceed([kind |-> "tick", rest |-> order, changes |-> {}], running, db, queue, loops)
    BY <1>10 DEF TickFrom
  <2>2. order \in Seq(Snap)
    BY <1>1, ListsAreSequences DEF Due
  <2>3. [kind |-> "tick", rest |-> order, changes |-> {}] \in Loop
    BY <2>2 DEF Loop
  <2> QED BY <1>1, <1>5, <1>10, <2>1, <2>3, ProceedKeepsElements
<1>11. CASE Tick
  BY <1>1, <1>10, <1>11 DEF Tick
<1>12. CASE Start
  <2> DEFINE db == [q \in Row |-> IF q \in Running(rows)
                                  THEN [rows[q] EXCEPT !.status = "interrupted"]
                                  ELSE rows[q]]
  <2>1. db \in Rows
    BY <1>1 DEF Rows, RowRecord
  <2> QED BY <1>10, <1>12, <2>1 DEF Start
<1>13. CASE FlushNeedsYou
  <2> DEFINE changes == {c \in Change : c.version # 0 /\ pending[c.thread] = c.version}
             enabled == {s \in Attention : schedules[s].saved = "saved" /\ schedules[s].enabled}
  <2>1. PICK order \in SetToSeqs(Snapshots(enabled)) :
          Proceed([kind |-> "flush", rest |-> order, changes |-> changes],
                  running, rows, queue, loops)
    BY <1>13 DEF FlushNeedsYou
  <2>2. enabled \in SUBSET Schedule /\ changes \in SUBSET Change
    BY DEF Schedule
  <2>3. order \in Seq(Snap)
    BY <1>1, <2>2, ListsAreSequences
  <2> HIDE DEF changes, enabled
  <2>4. [kind |-> "flush", rest |-> order, changes |-> changes] \in Loop
    BY <2>2, <2>3 DEF Loop
  <2> QED BY <1>1, <1>5, <2>1, <2>4, ProceedKeepsElements
<1>14. CASE BeginStopped
  BY <1>14 DEF BeginStopped, Settled, Recorded
<1>15. CASE FinishThrows
  BY <1>1, <1>15, SchedulerAssumption DEF FinishThrows, Fault, TypeOK
<1>16. CASE Stop \/ Exit \/ Crash
  BY <1>16 DEF Stop, Exit, Crash
<1>17. CASE \/ \E s \in Schedule : \/ CreateSchedule(s) \/ UpdateSchedule(s)
                                  \/ DeleteSchedule(s) \/ Elapse(s)
            \/ \E t \in Thread : Message(t) \/ Reoffer(t)
            \/ BeginWork \/ UNCHANGED vars
  BY <1>6, <1>17 DEF CreateSchedule, UpdateSchedule, DeleteSchedule, Elapse, Message, Reoffer,
                     BeginWork, vars, memory
<1> QED BY <1>7, <1>8, <1>9, <1>11, <1>12, <1>13, <1>14, <1>15, <1>16, <1>17 DEF Next

-----------------------------------------------------------------------------
(* The theorems.                                                           *)

\* Invariant is an invariant of Spec: what the others are read off from.
THEOREM InvariantHolds == Spec => []Invariant
BY InitEstablishes, NextKeeps, PTL DEF Spec

\* The scheduler's tables, queue and loops keep their types: in particular
\* every queued entry is a row and every context holds real messages.
THEOREM SchedulerTypes == Spec => []TypeOK
BY InvariantHolds, PTL DEF Invariant

\* Each occurrence of a timer is claimed at most once, whatever reads of the
\* schedule the overlapping ticks still hold.
THEOREM OccurrencesClaimedOnce == Spec => []OccurrenceClaimedOnce
<1>1. Invariant => OccurrenceClaimedOnce
  BY DEF Invariant, ClaimsLedger, ClaimedOnce, Timed, Existing, OccurrenceClaimedOnce
<1> QED BY <1>1, InvariantHolds, PTL

\* No message reaches one needs-you schedule twice.
THEOREM MessagesHandledOnce == Spec => []MessageHandledOnce
<1>1. Invariant => MessageHandledOnce
  BY DEF Invariant, ClaimsLedger, HandledOnce, Existing, MessageHandledOnce
<1> QED BY <1>1, InvariantHolds, PTL

\* A schedule is held exactly while one execution, or one queued manual run, of
\* it exists: the same job never overlaps, and none is blocked for ever.
THEOREM SchedulesHeldByOne == Spec => []HeldByOne
<1>1. Invariant => HeldByOne
  BY HeldIsHeldByOne DEF Invariant, QueueInvariant
<1> QED BY <1>1, InvariantHolds, PTL

\* All of these together: nothing is claimed, handled or held twice.
THEOREM ClaimsStaySound == Spec => []ClaimsAreSound
<1>1. TypeOK /\ OccurrenceClaimedOnce /\ MessageHandledOnce /\ HeldByOne => ClaimsAreSound
  BY DEF ClaimsAreSound
<1> QED BY <1>1, SchedulerTypes, OccurrencesClaimedOnce, MessagesHandledOnce, SchedulesHeldByOne, PTL

\* In a daemon that stays up, a claimed row leaves the queue unfinished only
\* ahead of a manual run of its schedule: nothing else loses an execution.
THEOREM ClaimsAreNotLost == Spec => ClaimsAreExecuted
<1>1. Invariant /\ [Next]_vars =>
        [\A r \in Queued :
           (daemon' = "up" /\ faults' = faults /\ r \notin Queued'
            /\ rows'[r].status = "running") =>
               \E q \in Queued' : rows[q].id = rows[r].id /\ Preclaimed(q)]_vars
  BY StepExecutesClaims
<1> QED BY <1>1, InvariantHolds, PTL DEF Spec, ClaimsAreExecuted
=============================================================================
