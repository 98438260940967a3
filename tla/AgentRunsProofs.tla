--------------------------- MODULE AgentRunsProofs ---------------------------
(***************************************************************************)
(* What holds of AgentRuns for every number of rows, every depth, every    *)
(* cap and every number of faults.                                         *)
(*                                                                         *)
(* First the ledger operators, which are constant: what an insert, a       *)
(* claim and a reconcile pass return. Then the inductive invariant, action *)
(* by action, and the theorems that follow from it; then the same for the  *)
(* conversations, for the passes over the parents and for aborted turns.   *)
(***************************************************************************)
EXTENDS AgentRuns, WellFoundedInduction, FiniteSetTheorems, TLAPS

\* A nonempty set of natural numbers has a least element.
LEMMA LeastNumber ==
    ASSUME NEW S, S \subseteq Nat, S # {}
    PROVE  \E m \in S : \A k \in S : m <= k
<1> DEFINE R == OpToRel(<, Nat)
<1>1. \A x, y \in Nat : <<x, y>> \in R <=> x < y
  BY DEF OpToRel
<1>2. IsWellFoundedOn(R, Nat)
  BY NatLessThanWellFounded
<1> HIDE DEF R
<1>3. PICK x \in S : \A y \in S : <<y, x>> \notin R
  BY <1>2, WFMin
<1>4. ASSUME NEW y \in S PROVE x <= y
  <2>1. x \in Nat /\ y \in Nat /\ ~(y < x)
    BY <1>1, <1>3
  <2> QED BY <2>1
<1> QED BY <1>4

Ledger == [Run -> Row]

USE DEF Ledger

-----------------------------------------------------------------------------
(* Rows have a largest one.                                                *)

\* A nonempty set of rows has a newest one.
LEMMA NewestRow ==
    ASSUME NEW S, S \subseteq Run, S # {}
    PROVE  \E m \in S : \A k \in S : k <= m
<1> DEFINE U == {n \in Nat : \A k \in S : k <= n}
<1>1. MaxRuns \in U /\ U \subseteq Nat
  BY LedgerAssumption DEF Run
<1>2. PICK m \in U : \A k \in U : m <= k
  BY <1>1, LeastNumber
<1>3. m \in Nat /\ \A k \in S : k \in Nat /\ 1 <= k /\ k <= m
  BY LedgerAssumption DEF Run
<1>4. m \in S
  <2> SUFFICES ASSUME m \notin S PROVE FALSE
    OBVIOUS
  <2>1. PICK k \in S : TRUE
    OBVIOUS
  <2>2. m - 1 \in U
    BY <1>3, <2>1
  <2> QED BY <1>2, <1>3, <2>2
<1> QED BY <1>3, <1>4

LEMMA RunsAreFinite ==
    ASSUME NEW S, S \subseteq Run
    PROVE  IsFiniteSet(S) /\ Cardinality(S) \in Nat
<1>1. IsFiniteSet(Run)
  BY FS_Interval, LedgerAssumption DEF Run
<1>2. IsFiniteSet(S)
  BY <1>1, FS_Subset
<1> QED BY <1>2, FS_CardinalityType
-----------------------------------------------------------------------------
(* The ledger operators.                                                   *)

\* The newest run of a conversation is its head.
LEMMA ConversationHasHead ==
    ASSUME NEW db \in Ledger, NEW s \in Run, Conversation(db, s) # {}
    PROVE  \E h \in Heads(db) : db[h].session = s
<1>1. Conversation(db, s) \subseteq Run
  BY DEF Conversation, Exists
<1>2. PICK h \in Conversation(db, s) : \A k \in Conversation(db, s) : k <= h
  BY <1>1, NewestRow
<1>3. h \in Exists(db) /\ db[h].session = s
  BY DEF Conversation
<1>4. s # Nobody
  BY LedgerAssumption DEF Run, Nobody
<1>5. h \in Heads(db)
  BY <1>2, <1>3, <1>4 DEF Heads
<1> QED BY <1>3, <1>5

\* latestBySession of an existing row is a row.
LEMMA LatestIsRun ==
    ASSUME NEW db \in Ledger, NEW r \in Exists(db)
    PROVE  Latest(db, r) \in Run
<1>1. r \in Run /\ db[r] \in Row
  BY DEF Exists
<1>2. CASE db[r].session = Nobody
  BY <1>1, <1>2 DEF Latest
<1>3. CASE db[r].session # Nobody
  <2>1. db[r].session \in Run
    BY <1>1, <1>3 DEF Row, RunOrNobody
  <2>2. r \in Conversation(db, db[r].session)
    BY DEF Conversation
  <2>3. \E h \in Heads(db) : db[h].session = db[r].session
    BY <2>1, <2>2, ConversationHasHead
  <2>4. Latest(db, r) \in Heads(db)
    BY <1>3, <2>3 DEF Latest
  <2> QED BY <2>4 DEF Heads, Exists
<1> QED BY <1>2, <1>3

LEMMA KidsAreRuns ==
    ASSUME NEW db \in Ledger, NEW s
    PROVE  Kids(db, s) \in SUBSET Run
BY LatestIsRun DEF Kids

LEMMA DepthIsPositive ==
    ASSUME NEW db \in Ledger, NEW s \in RunOrNobody
    PROVE  DepthUnder(db, s) \in Nat \ {0}
<1>1. CASE s = Nobody \/ Conversation(db, s) = {}
  BY <1>1 DEF DepthUnder
<1>2. CASE ~(s = Nobody \/ Conversation(db, s) = {})
  <2> DEFINE h == CHOOSE h \in Heads(db) : db[h].session = s
  <2>1. s \in Run
    BY <1>2 DEF RunOrNobody
  <2>2. \E x \in Heads(db) : db[x].session = s
    BY <1>2, <2>1, ConversationHasHead
  <2>3. h \in Heads(db)
    BY <2>2
  <2>4. db[h] \in Row
    BY <2>3 DEF Heads, Exists
  <2>5. db[h].depth \in Nat
    BY <2>4, LedgerAssumption DEF Row
  <2>6. DepthUnder(db, s) = 1 + db[h].depth
    BY <1>2 DEF DepthUnder
  <2> QED BY <2>5, <2>6
<1> QED BY <1>1, <1>2

\* What an insert may do to the table: existing rows keep every column, the
\* others stay absent or become queued.
Grown(db, db2) ==
    /\ db2 \in Ledger
    /\ \A r \in Exists(db) : db2[r] = db[r]
    /\ \A r \in Run \ Exists(db) : db2[r].status \in {"absent", "pending"}

QueuedRow == {row \in Row : row.status = "pending"}

LEMMA InsertGrows ==
    ASSUME NEW db \in Ledger, NEW keys, NEW new \in [keys -> QueuedRow]
    PROVE  Grown(db, Insert(db, new))
<1> DEFINE res == Insert(db, new)
           at(i, k) == PlacedAt(db, DOMAIN new, i, k)
<1>1. ASSUME NEW i \in Run, \E k \in DOMAIN new : at(i, k)
      PROVE  i \notin Exists(db) /\ res[i] \in QueuedRow
  <2>1. i \in Unused(db)
    BY <1>1 DEF PlacedAt
  <2>2. i \notin Exists(db)
    BY <2>1, LedgerAssumption DEF Unused, Run
  <2>3. (CHOOSE k \in DOMAIN new : at(i, k)) \in DOMAIN new
    BY <1>1
  <2>4. res[i] = new[CHOOSE k \in DOMAIN new : at(i, k)]
    BY <1>1 DEF Insert
  <2> QED BY <2>2, <2>3, <2>4
<1>2. ASSUME NEW i \in Run, ~\E k \in DOMAIN new : at(i, k)
      PROVE  res[i] = db[i]
  BY <1>2 DEF Insert
<1>3. res \in Ledger
  <2>1. \A i \in Run : res[i] \in Row
    BY <1>1, <1>2 DEF QueuedRow
  <2>2. res = [i \in Run |-> res[i]]
    BY DEF Insert
  <2> QED BY <2>1, <2>2
<1>4. \A r \in Exists(db) : res[r] = db[r]
  BY <1>1, <1>2 DEF Exists
<1>5. ASSUME NEW r \in Run \ Exists(db) PROVE res[r].status \in {"absent", "pending"}
  BY <1>1, <1>2, <1>5 DEF Exists, QueuedRow
<1> QED BY <1>3, <1>4, <1>5 DEF Grown

\* A queue-only change leaves the running and the finished rows alone.
LEMMA GrownKeeps ==
    ASSUME NEW db \in Ledger, NEW db2, Grown(db, db2)
    PROVE  /\ Running(db2) = Running(db)
           /\ \A r \in Finished(db) : db2[r] = db[r]
<1>1. \A r \in Run : r \notin Exists(db) => db[r].status = "absent"
  BY DEF Exists
<1> QED BY <1>1 DEF Grown, Running, Finished, Exists, Terminal

\* The row a retry or a resume inserts.
LEMMA SuccessorIsQueued ==
    ASSUME NEW db \in Ledger, NEW disk_ \in SUBSET Run, NEW r \in Run,
           NEW p \in RunOrNobody, NEW q \in RunOrNobody, NEW carried \in SUBSET Run
    PROVE  Successor(db, disk_, r, p, q, carried) \in QueuedRow
<1>1. db[r] \in Row
  OBVIOUS
<1>2. SessionOf(db, disk_, r) \in RunOrNobody /\ RecordOf(db, disk_, r) \in RunOrNobody
  BY <1>1 DEF SessionOf, RecordOf, Row, RunOrNobody
<1> QED BY <1>1, <1>2 DEF Successor, QueuedRow, Row, Status

LEMMA RetryIsQueued ==
    ASSUME NEW db \in Ledger, NEW disk_ \in SUBSET Run, NEW r \in Run
    PROVE  RetryRow(db, disk_, r) \in QueuedRow
<1>1. db[r].completions \in SUBSET Run
  BY DEF Row
<1>2. r \in RunOrNobody /\ Nobody \in RunOrNobody
  BY DEF RunOrNobody
<1> QED BY <1>1, <1>2, SuccessorIsQueued DEF RetryRow

LEMMA ResumeIsQueued ==
    ASSUME NEW db \in Ledger, NEW disk_ \in SUBSET Run, NEW r \in Run,
           NEW carried \in SUBSET Run
    PROVE  ResumeRow(db, disk_, r, carried) \in QueuedRow
<1>1. r \in RunOrNobody /\ Nobody \in RunOrNobody
  BY DEF RunOrNobody
<1> QED BY <1>1, SuccessorIsQueued DEF ResumeRow

\* A reconcile pass only queues follow-ups.
LEMMA ReconcileGrows ==
    ASSUME NEW db \in Ledger, NEW disk_ \in SUBSET Run, NEW barred \in SUBSET Run
    PROVE  Grown(db, Reconciled(db, disk_, barred))
<1> DEFINE P == {q \in Continuing(db) : ResumeAllowed(db, disk_, barred, q)}
           new == [p \in P |-> ResumeRow(db, disk_, p, Kids(db, db[p].session))]
<1>1. P \subseteq Run
  BY DEF Continuing, Due, Heads, Exists
<1>2. new \in [P -> QueuedRow]
  BY <1>1, ResumeIsQueued, KidsAreRuns
<1>3. Reconciled(db, disk_, barred) = Insert(db, new)
  BY DEF Reconciled
<1> HIDE DEF P, new
<1> QED BY <1>2, <1>3, InsertGrows

\* So do the automatic retries of a restart.
LEMMA AutoRetriesGrow ==
    ASSUME NEW db \in Ledger, NEW disk_ \in SUBSET Run, NEW closed_
    PROVE  Grown(db, FollowUpsRetried(db, disk_, closed_))
<1> DEFINE P == AutoRetries(db, disk_, closed_)
           new == [p \in P |-> RetryRow(db, disk_, p)]
<1>1. P \subseteq Run
  BY DEF AutoRetries
<1>2. new \in [P -> QueuedRow]
  BY <1>1, RetryIsQueued
<1>3. FollowUpsRetried(db, disk_, closed_) = Insert(db, new)
  BY DEF FollowUpsRetried
<1> HIDE DEF P, new
<1> QED BY <1>2, <1>3, InsertGrows

\* A status update touches the chosen rows and no others.
LEMMA SetStatusSets ==
    ASSUME NEW db \in Ledger, NEW S \in SUBSET Run, NEW status \in Status
    PROVE  /\ SetStatus(db, S, status) \in Ledger
           /\ \A r \in S : SetStatus(db, S, status)[r].status = status
           /\ \A r \in Run \ S : SetStatus(db, S, status)[r] = db[r]
<1> DEFINE res == SetStatus(db, S, status)
<1>1. ASSUME NEW r \in S
      PROVE  res[r] \in Row /\ res[r].status = status
  <2>1. r \in Run /\ db[r] \in Row
    OBVIOUS
  <2>2. res[r] = [db[r] EXCEPT !.status = status]
    BY <2>1 DEF SetStatus
  <2> QED BY <2>1, <2>2 DEF Row
<1>2. ASSUME NEW r \in Run \ S PROVE res[r] = db[r]
  BY DEF SetStatus
<1>3. \A r \in Run : res[r] \in Row
  BY <1>1, <1>2
<1>4. res = [r \in Run |-> res[r]]
  BY DEF SetStatus
<1> QED BY <1>1, <1>2, <1>3, <1>4

-----------------------------------------------------------------------------
(* The claim.                                                              *)

\* However many rows one pump claims, running rows stay within the cap.
LEMMA ClaimWithinCap ==
    ASSUME NEW db \in Ledger, NEW turns \in SUBSET Run,
           Cardinality(Running(db)) <= MaxConcurrent
    PROVE  /\ Claimable(db, turns) \subseteq Pending(db)
           /\ Cardinality(Running(db) \cup Claimable(db, turns)) <= MaxConcurrent
<1> DEFINE C == Claimable(db, turns)
<1>1. C \subseteq Pending(db) /\ Pending(db) \subseteq Run /\ Running(db) \subseteq Run
  BY DEF Claimable, Pending, Running
<1>2. CASE C = {}
  BY <1>1, <1>2
<1>3. CASE C # {}
  <2>1. PICK m \in C : \A k \in C : k <= m
    BY <1>1, <1>3, NewestRow
  <2> DEFINE ahead == {q \in Pending(db) : q <= m}
  <2>2. Cardinality(Running(db)) + Cardinality(ahead) <= MaxConcurrent
    BY <2>1 DEF Claimable
  <2>3. C \subseteq ahead /\ ahead \subseteq Run
    BY <1>1, <2>1
  <2>4. /\ IsFiniteSet(C) /\ IsFiniteSet(ahead) /\ IsFiniteSet(Running(db))
        /\ Cardinality(C) \in Nat /\ Cardinality(ahead) \in Nat
        /\ Cardinality(Running(db)) \in Nat
    BY <1>1, <2>3, RunsAreFinite
  <2>5. Cardinality(C) <= Cardinality(ahead)
    BY <2>3, <2>4, FS_Subset
  <2>6. Cardinality(Running(db) \cup C) =
          Cardinality(Running(db)) + Cardinality(C) - Cardinality(Running(db) \cap C)
    BY <2>4, FS_Union
  <2>7. Running(db) \cap C = {}
    BY <1>1 DEF Pending, Running
  <2>8. Cardinality(Running(db) \cap C) = 0
    BY <2>7, FS_EmptySet
  <2> QED BY <1>1, <2>2, <2>4, <2>5, <2>6, <2>8, LedgerAssumption
<1> QED BY <1>2, <1>3
-----------------------------------------------------------------------------
(* The inductive invariant and the tails of the handlers.                  *)

\* TypeOK, LiveTurnIsRunning and RunningWithinCap together, and with them what
\* none of the three says: a daemon that is down holds no turn. A restart
\* interrupts every running row, so a turn held across it would be reclaimed.
IInv ==
    /\ TypeOK
    /\ LiveTurnIsRunning
    /\ RunningWithinCap
    /\ daemon = "down" => live = {}

\* What a handler must leave behind when it started from the rows db.
Sound(db) ==
    /\ runs' \in Ledger
    /\ live' \subseteq Running(runs')
    /\ Cardinality(Running(runs')) <= MaxConcurrent
    /\ \A r \in Finished(db) : runs'[r] = db[r]

LEMMA PumpIsSound ==
    ASSUME NEW db \in Ledger, NEW turns, turns \subseteq Running(db),
           Cardinality(Running(db)) <= MaxConcurrent, Pumped(db, turns)
    PROVE  Sound(db)
<1> DEFINE claimed == IF daemon = "stopping" THEN {} ELSE Claimable(db, turns)
<1>1. runs' = SetStatus(db, claimed, "running") /\ live' = turns \cup claimed
  BY DEF Pumped
<1>2. turns \in SUBSET Run
  BY DEF Running
<1>3. /\ Claimable(db, turns) \subseteq Pending(db)
      /\ Cardinality(Running(db) \cup Claimable(db, turns)) <= MaxConcurrent
  BY <1>2, ClaimWithinCap
<1>4. claimed \subseteq Pending(db) /\ Cardinality(Running(db) \cup claimed) <= MaxConcurrent
  <2>1. Running(db) \cup {} = Running(db)
    OBVIOUS
  <2> QED BY <1>3, <2>1
<1>5. claimed \in SUBSET Run /\ "running" \in Status
  BY <1>4 DEF Pending, Status
<1> HIDE DEF claimed
<1>6. /\ runs' \in Ledger
      /\ \A r \in claimed : runs'[r].status = "running"
      /\ \A r \in Run \ claimed : runs'[r] = db[r]
  BY <1>1, <1>5, SetStatusSets
<1>7. Running(runs') = Running(db) \cup claimed
  BY <1>5, <1>6 DEF Running
<1>8. \A r \in Finished(db) : runs'[r] = db[r]
  BY <1>4, <1>6 DEF Pending, Finished, Terminal
<1>9. live' \subseteq Running(runs') /\ Cardinality(Running(runs')) <= MaxConcurrent
  BY <1>1, <1>4, <1>7
<1> QED BY <1>6, <1>8, <1>9 DEF Sound

LEMMA SettleIsSound ==
    ASSUME NEW db \in Ledger, NEW turns, turns \subseteq Running(db),
           Cardinality(Running(db)) <= MaxConcurrent, Settled(db, turns), TypeOK
    PROVE  Sound(db)
<1> DEFINE db2 == IF daemon = "stopping" THEN db ELSE Reconciled(db, saved, Barred)
<1>1. Pumped(db2, turns)
  BY DEF Settled
<1>2. db2 \in Ledger /\ Running(db2) = Running(db) /\ \A r \in Finished(db) : db2[r] = db[r]
  <2>1. CASE daemon = "stopping"
    BY <2>1
  <2>2. CASE daemon # "stopping"
    <3>1. Grown(db, Reconciled(db, saved, Barred))
      BY ReconcileGrows DEF TypeOK, Barred
    <3>2. db2 = Reconciled(db, saved, Barred)
      BY <2>2
    <3> QED BY <3>1, <3>2, GrownKeeps DEF Grown
  <2> QED BY <2>1, <2>2
<1> HIDE DEF db2
<1>3. Sound(db2)
  BY <1>1, <1>2, PumpIsSound
<1>4. Finished(db) \subseteq Finished(db2)
  BY <1>2 DEF Finished
<1> QED BY <1>2, <1>3, <1>4 DEF Sound

\* Taking some running rows to a terminal status leaves the rest as it was.
LEMMA EndingRows ==
    ASSUME NEW db \in Ledger, NEW S, S \subseteq Nonterminal(db), NEW status \in Terminal,
           Cardinality(Running(db)) <= MaxConcurrent
    PROVE  /\ SetStatus(db, S, status) \in Ledger
           /\ Running(SetStatus(db, S, status)) = Running(db) \ S
           /\ Cardinality(Running(SetStatus(db, S, status))) <= MaxConcurrent
           /\ Finished(db) \subseteq Finished(SetStatus(db, S, status))
           /\ \A r \in Finished(db) : SetStatus(db, S, status)[r] = db[r]
<1> DEFINE db2 == SetStatus(db, S, status)
<1>1. S \in SUBSET Run /\ status \in Status /\ Finished(db) \cap S = {}
  BY DEF Nonterminal, Pending, Running, Status, Finished, Terminal
<1>2. /\ db2 \in Ledger
      /\ \A r \in S : db2[r].status = status
      /\ \A r \in Run \ S : db2[r] = db[r]
  BY <1>1, SetStatusSets
<1> HIDE DEF db2
<1>3. Running(db2) = Running(db) \ S
  BY <1>1, <1>2 DEF Running, Terminal
<1>4. Cardinality(Running(db2)) <= MaxConcurrent
  <2>1. Running(db) \subseteq Run /\ Running(db2) \subseteq Running(db)
    BY <1>3 DEF Running
  <2>2. IsFiniteSet(Running(db)) /\ Cardinality(Running(db)) \in Nat
        /\ Cardinality(Running(db2)) \in Nat
    BY <2>1, RunsAreFinite
  <2>3. Cardinality(Running(db2)) <= Cardinality(Running(db))
    BY <2>1, <2>2, FS_Subset
  <2> QED BY <2>2, <2>3, LedgerAssumption
<1>5. \A r \in Finished(db) : db2[r] = db[r]
  BY <1>1, <1>2 DEF Finished
<1>6. Finished(db) \subseteq Finished(db2)
  BY <1>5 DEF Finished
<1> QED BY <1>2, <1>3, <1>4, <1>5, <1>6 DEF db2
-----------------------------------------------------------------------------
(* Every step keeps the invariant, and the terminal rows.                  *)

TerminalRowsKept == \A r \in Finished(runs) : runs'[r] = runs[r]

LEMMA InitInv == Init => IInv
<1> SUFFICES ASSUME Init PROVE IInv
  OBVIOUS
<1>1. Blank \in Row
  BY LedgerAssumption DEF Blank, Row, Status, RunOrNobody, Nobody
<1>2. TypeOK
  BY <1>1, FaultsAssumption DEF Init, TypeOK, Intent
<1>3. Running(runs) = {}
  BY DEF Init, Running, Blank
<1>4. LiveTurnIsRunning /\ (daemon = "down" => live = {})
  BY DEF Init, LiveTurnIsRunning
<1>5. RunningWithinCap
  BY <1>3, FS_EmptySet, LedgerAssumption DEF RunningWithinCap
<1> QED BY <1>2, <1>4, <1>5 DEF IInv

\* A handler that ended soundly, whatever it did before its tail.
LEMMA HandlerKeepsInv ==
    ASSUME TypeOK, NEW db \in Ledger, Sound(db),
           \A r \in Finished(runs) : db[r] = runs[r],
           UNCHANGED disk, intent' \in [Run -> Intent],
           daemon' \in {"up", "stopping"}, faults' \in 0..MaxFaults
    PROVE  IInv' /\ TerminalRowsKept
<1>1. live' \in SUBSET Run
  BY DEF Sound, Running
<1>2. TypeOK'
  BY <1>1 DEF TypeOK, Sound, disk
<1>3. LiveTurnIsRunning' /\ RunningWithinCap'
  BY DEF Sound, LiveTurnIsRunning, RunningWithinCap
<1>4. Finished(runs) \subseteq Finished(db)
  BY DEF Finished
<1>5. TerminalRowsKept
  BY <1>4 DEF TerminalRowsKept, Sound
<1> QED BY <1>2, <1>3, <1>5 DEF IInv

\* The faults counter stays typed, whether a step is a fault or not.
LEMMA FaultsTyped ==
    ASSUME TypeOK, Fault \/ NoFault
    PROVE  faults' \in 0..MaxFaults
BY FaultsAssumption DEF TypeOK, Fault, NoFault

\* A request that queues rows and pumps.
LEMMA QueueingKeepsInv ==
    ASSUME IInv, NEW db, Grown(runs, db), Pumped(db, live), daemon = "up",
           UNCHANGED <<disk, daemon, intent>>, NoFault
    PROVE  IInv' /\ TerminalRowsKept
<1>1. TypeOK /\ runs \in Ledger
  BY DEF IInv, TypeOK
<1>2. db \in Ledger /\ Running(db) = Running(runs)
      /\ \A r \in Finished(runs) : db[r] = runs[r]
  BY <1>1, GrownKeeps DEF Grown
<1>3. live \subseteq Running(db) /\ Cardinality(Running(db)) <= MaxConcurrent
  BY <1>2 DEF IInv, LiveTurnIsRunning, RunningWithinCap
<1>4. Sound(db)
  BY <1>2, <1>3, PumpIsSound
<1>5. faults' \in 0..MaxFaults
  BY <1>1, FaultsTyped
<1>6. UNCHANGED disk /\ intent' \in [Run -> Intent] /\ daemon' \in {"up", "stopping"}
  BY <1>1 DEF TypeOK
<1> QED BY <1>1, <1>2, <1>4, <1>5, <1>6, HandlerKeepsInv

LEMMA LaunchKeepsInv ==
    ASSUME IInv, NEW parent \in RunOrNobody, Launch(parent)
    PROVE  IInv' /\ TerminalRowsKept
<1> DEFINE row == [Blank EXCEPT !.status = "pending", !.parent = parent,
                                !.depth = DepthUnder(runs, parent)]
           new == [k \in {Nobody} |-> row]
<1>1. runs \in Ledger
  BY DEF IInv, TypeOK
<1>2. DepthUnder(runs, parent) \in 0..MaxDepth
  BY <1>1, DepthIsPositive, LedgerAssumption DEF Launch
<1>3. row \in QueuedRow
  BY <1>2 DEF Blank, QueuedRow, Row, Status, RunOrNobody
<1>4. new \in [{Nobody} -> QueuedRow]
  BY <1>3
<1>5. Pumped(Insert(runs, new), live)
  BY DEF Launch
<1> HIDE DEF new
<1>6. Grown(runs, Insert(runs, new))
  BY <1>1, <1>4, InsertGrows
<1> QED BY <1>5, <1>6, QueueingKeepsInv DEF Launch

LEMMA RetryKeepsInv ==
    ASSUME IInv, NEW r \in Run, Retry(r)
    PROVE  IInv' /\ TerminalRowsKept
<1> DEFINE new == [k \in {r} |-> RetryRow(runs, saved, r)]
<1>1. runs \in Ledger /\ saved \in SUBSET Run
  BY DEF IInv, TypeOK
<1>2. new \in [{r} -> QueuedRow]
  BY <1>1, RetryIsQueued
<1>3. Pumped(Insert(runs, new), live)
  BY DEF Retry
<1> HIDE DEF new
<1>4. Grown(runs, Insert(runs, new))
  BY <1>1, <1>2, InsertGrows
<1> QED BY <1>3, <1>4, QueueingKeepsInv DEF Retry

LEMMA ResumeKeepsInv ==
    ASSUME IInv, NEW r \in Run, Resume(r)
    PROVE  IInv' /\ TerminalRowsKept
<1> DEFINE new == [k \in {r} |-> ResumeRow(runs, saved, r, Undelivered(runs, r))]
<1>1. runs \in Ledger /\ saved \in SUBSET Run
  BY DEF IInv, TypeOK
<1>2. Undelivered(runs, r) \in SUBSET Run
  BY <1>1 DEF Undelivered, Row
<1>3. new \in [{r} -> QueuedRow]
  BY <1>1, <1>2, ResumeIsQueued
<1>4. Pumped(Insert(runs, new), live)
  BY DEF Resume
<1> HIDE DEF new
<1>5. Grown(runs, Insert(runs, new))
  BY <1>1, <1>3, InsertGrows
<1> QED BY <1>4, <1>5, QueueingKeepsInv DEF Resume

\* Rows that end and a tail that follows: cancel of a queued run, the end of a
\* turn, the sweep. `turns` are the turns that stay live.
LEMMA EndingKeepsInv ==
    ASSUME IInv, NEW S, S \subseteq Nonterminal(runs), NEW status \in Terminal,
           NEW turns, turns \subseteq live \ S,
           Settled(SetStatus(runs, S, status), turns), daemon # "down",
           UNCHANGED <<disk, daemon>>, intent' \in [Run -> Intent], NoFault
    PROVE  IInv' /\ TerminalRowsKept
<1> DEFINE db == SetStatus(runs, S, status)
<1>1. TypeOK /\ runs \in Ledger /\ Cardinality(Running(runs)) <= MaxConcurrent
  BY DEF IInv, TypeOK, RunningWithinCap
<1>2. /\ db \in Ledger /\ Running(db) = Running(runs) \ S
      /\ Cardinality(Running(db)) <= MaxConcurrent
      /\ \A r \in Finished(runs) : db[r] = runs[r]
  <2>1. /\ SetStatus(runs, S, status) \in Ledger
        /\ Running(SetStatus(runs, S, status)) = Running(runs) \ S
        /\ Cardinality(Running(SetStatus(runs, S, status))) <= MaxConcurrent
        /\ Finished(runs) \subseteq Finished(SetStatus(runs, S, status))
        /\ \A r \in Finished(runs) : SetStatus(runs, S, status)[r] = runs[r]
    <3>1. S \subseteq Nonterminal(runs)
      OBVIOUS
    <3>2. status \in Terminal
      OBVIOUS
    <3> HIDE DEF db
    <3> QED BY ONLY <1>1, <3>1, <3>2, EndingRows, SMTT(30)
  <2> QED BY <2>1
<1>3. Settled(db, turns)
  OBVIOUS
<1> HIDE DEF db
<1>4. turns \subseteq Running(db)
  BY <1>2 DEF IInv, LiveTurnIsRunning
<1>5. Sound(db)
  BY <1>1, <1>2, <1>3, <1>4, SettleIsSound
<1>6. faults' \in 0..MaxFaults
  BY <1>1, FaultsTyped
<1>7. UNCHANGED disk /\ daemon' \in {"up", "stopping"}
  BY <1>1 DEF TypeOK
<1> QED BY <1>1, <1>2, <1>5, <1>6, <1>7, HandlerKeepsInv

LEMMA CancelQueuedKeepsInv ==
    ASSUME IInv, NEW r \in Run, CancelQueued(r)
    PROVE  IInv' /\ TerminalRowsKept
<1>1. {r} \subseteq Nonterminal(runs) /\ live \subseteq live \ {r} /\ "cancelled" \in Terminal
  BY DEF CancelQueued, Nonterminal, Terminal
<1>2. intent' \in [Run -> Intent]
  BY DEF CancelQueued, IInv, TypeOK
<1> QED BY <1>1, <1>2, EndingKeepsInv DEF CancelQueued

LEMMA TurnEndsKeepsInv ==
    ASSUME IInv, NEW r \in Run, NEW reported \in {"completed", "failed", "cancelled"},
           TurnEnds(r, reported)
    PROVE  IInv' /\ TerminalRowsKept
<1>1. intent[r] \in Intent /\ intent \in [Run -> Intent]
  BY DEF IInv, TypeOK
<1>2. Outcome(intent[r], reported) \in Terminal
  BY <1>1 DEF Outcome, Intent, Terminal
<1>3. {r} \subseteq Nonterminal(runs) /\ daemon # "down"
  BY DEF TurnEnds, IInv, LiveTurnIsRunning, Nonterminal
<1>4. intent' \in [Run -> Intent]
  BY <1>1 DEF TurnEnds, Intent
<1> QED BY <1>2, <1>3, <1>4, EndingKeepsInv DEF TurnEnds

LEMMA FinishThrowsKeepsInv ==
    ASSUME IInv, NEW r \in Run, FinishThrows(r)
    PROVE  IInv' /\ TerminalRowsKept
<1>1. TypeOK /\ runs \in Ledger /\ daemon # "down"
  BY DEF FinishThrows, IInv, TypeOK
<1>2. live \ {r} \subseteq Running(runs) /\ Cardinality(Running(runs)) <= MaxConcurrent
  BY DEF IInv, LiveTurnIsRunning, RunningWithinCap
<1>3. Sound(runs)
  BY <1>1, <1>2, SettleIsSound DEF FinishThrows
<1>4. intent' \in [Run -> Intent]
  BY <1>1 DEF FinishThrows, TypeOK, Intent
<1>5. faults' \in 0..MaxFaults
  BY <1>1, FaultsTyped DEF FinishThrows
<1>6. UNCHANGED disk /\ daemon' \in {"up", "stopping"}
  BY <1>1 DEF FinishThrows, TypeOK
<1> QED BY <1>1, <1>3, <1>4, <1>5, <1>6, HandlerKeepsInv

\* Steps that write no row and take no turn.
LEMMA QuietKeepsInv ==
    ASSUME IInv, UNCHANGED <<runs, live>>, TypeOK', daemon' # "down"
    PROVE  IInv' /\ TerminalRowsKept
BY DEF IInv, LiveTurnIsRunning, RunningWithinCap, TerminalRowsKept

\* The turn of r writes to its own row, whose status stays running.
LEMMA OwnRowKeepsInv ==
    ASSUME IInv, NEW r \in live, runs' \in Ledger,
           runs'[r].status = runs[r].status,
           \A q \in Run \ {r} : runs'[q] = runs[q],
           UNCHANGED <<disk, daemon, live, intent>>, NoFault
    PROVE  IInv' /\ TerminalRowsKept
<1>1. TypeOK'
  BY DEF IInv, TypeOK, disk, NoFault
<1>2. r \in Run /\ runs[r].status = "running"
  BY DEF IInv, LiveTurnIsRunning, Running
<1>3. Running(runs') = Running(runs)
  BY DEF Running
<1>4. TerminalRowsKept
  BY <1>2 DEF TerminalRowsKept, Finished, Terminal
<1> QED BY <1>1, <1>3, <1>4 DEF IInv, LiveTurnIsRunning, RunningWithinCap

LEMMA TurnCallbacksKeepInv ==
    ASSUME IInv, NEW r \in Run, SaveRecord(r) \/ Identify(r) \/ Submit(r) \/ Deadline(r)
    PROVE  IInv' /\ TerminalRowsKept
<1>1. TypeOK /\ runs \in Ledger /\ runs[r] \in Row
  BY DEF IInv, TypeOK
<1>2. CASE SaveRecord(r)
  <2>1. TypeOK' /\ UNCHANGED <<runs, live>>
    BY <1>1, <1>2 DEF SaveRecord, TypeOK, NoFault
  <2>2. r \in live /\ UNCHANGED daemon
    BY <1>2 DEF SaveRecord
  <2>3. daemon' # "down"
    BY <2>2 DEF IInv
  <2> QED BY <2>1, <2>3, QuietKeepsInv
<1>3. CASE Identify(r)
  <2>1. SessionOf(runs, saved, r) \in RunOrNobody /\ r \in RunOrNobody
    BY <1>1 DEF SessionOf, Row, RunOrNobody
  <2>2. /\ runs' = [runs EXCEPT ![r] = [runs[r] EXCEPT !.session = SessionOf(runs, saved, r),
                                                       !.record = r]]
        /\ r \in live /\ UNCHANGED <<disk, daemon, live, intent>> /\ NoFault
    BY <1>1, <1>3 DEF Identify
  <2> DEFINE row == [runs[r] EXCEPT !.session = SessionOf(runs, saved, r), !.record = r]
  <2>3. row \in Row /\ row.status = runs[r].status
    BY <1>1, <2>1 DEF Row
  <2> HIDE DEF row
  <2>4. runs' = [runs EXCEPT ![r] = row]
    BY <2>2 DEF row
  <2>5. runs' \in Ledger /\ runs'[r] = row /\ \A q \in Run \ {r} : runs'[q] = runs[q]
    BY <1>1, <2>3, <2>4
  <2> QED BY <2>2, <2>3, <2>5, OwnRowKeepsInv
<1>4. CASE Submit(r)
  <2> DEFINE row == [runs[r] EXCEPT !.submitted = TRUE]
  <2>1. row \in Row /\ row.status = runs[r].status
    BY <1>1 DEF Row
  <2>2. /\ runs' = [runs EXCEPT ![r] = row]
        /\ r \in live /\ UNCHANGED <<disk, daemon, live, intent>> /\ NoFault
    BY <1>1, <1>4 DEF Submit
  <2> HIDE DEF row
  <2>3. runs' \in Ledger /\ runs'[r] = row /\ \A q \in Run \ {r} : runs'[q] = runs[q]
    BY <1>1, <2>1, <2>2
  <2> QED BY <2>1, <2>2, <2>3, OwnRowKeepsInv
<1>5. CASE Deadline(r)
  <2>1. TypeOK' /\ UNCHANGED <<runs, live>>
    BY <1>1, <1>5 DEF Deadline, TypeOK, disk, NoFault, Intent
  <2>2. r \in live /\ UNCHANGED daemon
    BY <1>5 DEF Deadline
  <2>3. daemon' # "down"
    BY <2>2 DEF IInv
  <2> QED BY <2>1, <2>3, QuietKeepsInv
<1> QED BY <1>2, <1>3, <1>4, <1>5

LEMMA CancelLiveKeepsInv ==
    ASSUME IInv, NEW r \in Run, CancelLive(r)
    PROVE  IInv' /\ TerminalRowsKept
<1>1. TypeOK' /\ UNCHANGED <<runs, live>> /\ daemon' # "down"
  BY DEF CancelLive, IInv, TypeOK, disk, NoFault, Intent
<1> QED BY <1>1, QuietKeepsInv

LEMMA TickKeepsInv ==
    ASSUME IInv, NEW stale \in SUBSET Orphans, Tick(stale)
    PROVE  IInv' /\ TerminalRowsKept
<1>1. TypeOK /\ runs \in Ledger /\ daemon = "up"
  BY DEF Tick, IInv, TypeOK
<1>2. CASE stale = {}
  <2>1. Grown(runs, runs)
    BY <1>1 DEF Grown, Exists
  <2> QED BY <1>1, <1>2, <2>1, QueueingKeepsInv DEF Tick
<1>3. CASE stale # {}
  <2>1. stale \subseteq Nonterminal(runs) /\ live \subseteq live \ stale /\ "lost" \in Terminal
    BY DEF Orphans, Nonterminal, Terminal
  <2>2. intent' \in [Run -> Intent]
    BY <1>1 DEF Tick, TypeOK
  <2> QED BY <1>1, <1>3, <2>1, <2>2, EndingKeepsInv DEF Tick
<1> QED BY <1>2, <1>3

LEMMA SweepThrowsKeepsInv ==
    ASSUME IInv, NEW stale \in SUBSET Orphans, NEW bad \in stale, SweepThrows(stale, bad)
    PROVE  IInv' /\ TerminalRowsKept
<1> DEFINE S == {r \in stale : r < bad}
<1>1. TypeOK /\ runs \in Ledger /\ Cardinality(Running(runs)) <= MaxConcurrent
  BY DEF IInv, TypeOK, RunningWithinCap
<1>2. S \subseteq Nonterminal(runs) /\ S \cap live = {} /\ "lost" \in Terminal
  BY DEF Orphans, Nonterminal, Terminal
<1>3. runs' = SetStatus(runs, S, "lost")
  BY DEF SweepThrows
<1> HIDE DEF S
<1>4. /\ runs' \in Ledger /\ Running(runs') = Running(runs) \ S
      /\ Cardinality(Running(runs')) <= MaxConcurrent
      /\ \A r \in Finished(runs) : runs'[r] = runs[r]
  BY ONLY <1>1, <1>2, <1>3, EndingRows, SMTT(30)
<1>5. faults' \in 0..MaxFaults
  BY <1>1, FaultsTyped DEF SweepThrows
<1>6. TypeOK' /\ live' = live /\ daemon' # "down"
  BY <1>1, <1>4, <1>5 DEF SweepThrows, TypeOK, disk
<1> QED BY <1>2, <1>4, <1>6 DEF IInv, LiveTurnIsRunning, RunningWithinCap, TerminalRowsKept

LEMMA ProcessKeepsInv ==
    ASSUME IInv, Stop \/ Exit \/ Crash \/ \E s \in Run : RemoveCwd(s) \/ CloseConversation(s)
    PROVE  IInv' /\ TerminalRowsKept
<1>1. TypeOK
  BY DEF IInv
<1>2. faults' \in 0..MaxFaults
  BY <1>1, FaultsTyped DEF Stop, Exit, Crash, RemoveCwd, CloseConversation
<1>3. TypeOK' /\ UNCHANGED runs
  BY <1>1, <1>2 DEF Stop, Exit, Crash, RemoveCwd, CloseConversation, TypeOK, disk, Intent
<1>4. live' \subseteq live /\ (daemon' = "down" => live' = {})
  BY DEF Stop, Exit, Crash, RemoveCwd, CloseConversation, IInv
<1> QED BY <1>3, <1>4 DEF IInv, LiveTurnIsRunning, RunningWithinCap, TerminalRowsKept

LEMMA StartKeepsInv ==
    ASSUME IInv, Start
    PROVE  IInv' /\ TerminalRowsKept
<1> DEFINE db1 == SetStatus(runs, Running(runs), "interrupted")
           db2 == FollowUpsRetried(db1, saved, closed)
<1>1. TypeOK /\ runs \in Ledger /\ saved \in SUBSET Run
      /\ Cardinality(Running(runs)) <= MaxConcurrent
  BY DEF IInv, TypeOK, RunningWithinCap
<1>2. Running(runs) \subseteq Nonterminal(runs) /\ "interrupted" \in Terminal
  BY DEF Nonterminal, Terminal
<1>3. Settled(db2, live)
  BY DEF Start
<1> HIDE DEF db2
<1> DEFINE S == Running(runs)
<1>4. /\ db1 \in Ledger
      /\ Cardinality(Running(db1)) <= MaxConcurrent
      /\ \A r \in Finished(runs) : db1[r] = runs[r]
  <2>1. S \subseteq Nonterminal(runs)
    BY <1>2
  <2> HIDE DEF S
  <2>2. /\ SetStatus(runs, S, "interrupted") \in Ledger
        /\ Running(SetStatus(runs, S, "interrupted")) = Running(runs) \ S
        /\ Cardinality(Running(SetStatus(runs, S, "interrupted"))) <= MaxConcurrent
        /\ Finished(runs) \subseteq Finished(SetStatus(runs, S, "interrupted"))
        /\ \A r \in Finished(runs) : SetStatus(runs, S, "interrupted")[r] = runs[r]
    BY ONLY <1>1, <1>2, <2>1, EndingRows, SMTT(30)
  <2> QED BY <2>2 DEF S
<1> HIDE DEF db1
<1>5. Grown(db1, db2)
  BY <1>1, <1>4, AutoRetriesGrow DEF db2
<1>6. db2 \in Ledger /\ Running(db2) = Running(db1)
      /\ \A r \in Finished(db1) : db2[r] = db1[r]
  BY <1>4, <1>5, GrownKeeps DEF Grown
<1>7. live \subseteq Running(db2) /\ Cardinality(Running(db2)) <= MaxConcurrent
  BY <1>4, <1>6 DEF Start, IInv
<1>8. Sound(db2)
  BY <1>1, <1>3, <1>6, <1>7, SettleIsSound
<1>9. \A r \in Finished(runs) : db2[r] = runs[r]
  BY <1>4, <1>6 DEF Finished
<1>10. /\ faults' \in 0..MaxFaults /\ UNCHANGED disk
       /\ daemon' \in {"up", "stopping"} /\ intent' \in [Run -> Intent]
  BY <1>1, FaultsTyped DEF Start, TypeOK
<1> QED BY <1>1, <1>6, <1>8, <1>9, <1>10, HandlerKeepsInv

LEMMA NextKeepsInv ==
    ASSUME IInv, Next
    PROVE  IInv' /\ TerminalRowsKept
<1>1. CASE Requests
  <2>1. ASSUME NEW parent \in {Nobody} \cup {runs[r].session : r \in Exists(runs)},
               Launch(parent)
        PROVE  IInv' /\ TerminalRowsKept
    <3>1. parent \in RunOrNobody
      BY DEF IInv, TypeOK, Row, Exists, RunOrNobody
    <3> QED BY <2>1, <3>1, LaunchKeepsInv
  <2> QED BY <1>1, <2>1, CancelLiveKeepsInv, CancelQueuedKeepsInv, RetryKeepsInv,
             ResumeKeepsInv DEF Requests
<1>2. CASE Turns
  BY <1>2, TurnCallbacksKeepInv, FinishThrowsKeepsInv, TurnEndsKeepsInv DEF Turns
<1>3. CASE Timer
  BY <1>3, TickKeepsInv, SweepThrowsKeepsInv DEF Timer
<1>4. CASE Process
  BY <1>4, ProcessKeepsInv, StartKeepsInv DEF Process
<1> QED BY <1>1, <1>2, <1>3, <1>4 DEF Next

LEMMA StutterKeepsInv ==
    ASSUME IInv, UNCHANGED vars
    PROVE  IInv' /\ TerminalRowsKept
BY DEF IInv, TypeOK, LiveTurnIsRunning, RunningWithinCap, TerminalRowsKept, Running,
       vars, disk, Orphans

-----------------------------------------------------------------------------
(* The theorems.                                                           *)

\* The invariant holds in every reachable state.
THEOREM Invariance == Spec => []IInv
<1>1. Init => IInv
  BY InitInv
<1>2. IInv /\ [Next]_vars => IInv'
  BY NextKeepsInv, StutterKeepsInv
<1> QED BY <1>1, <1>2, PTL DEF Spec

\* Every column of every row, the executor's turns and their abort intents
\* stay of their type; in particular no row is deeper than the depth cap.
THEOREM TypeCorrectness == Spec => []TypeOK
<1>1. IInv => TypeOK
  BY DEF IInv
<1> QED BY <1>1, Invariance, PTL

\* For every cap, however turns end, fail to end or are swept, and across
\* crashes and restarts, running rows never exceed maxConcurrent.
THEOREM CapHolds == Spec => []RunningWithinCap
<1>1. IInv => RunningWithinCap
  BY DEF IInv
<1> QED BY <1>1, Invariance, PTL

\* A turn this process holds is never reclaimed by a sweep, a cancel, a
\* recovery or the turn of another run.
THEOREM LiveTurnsNeverReclaimed == Spec => []LiveTurnIsRunning
<1>1. IInv => LiveTurnIsRunning
  BY DEF IInv
<1> QED BY <1>1, Invariance, PTL

\* The three together: the ledger is what this process's turns say, within both caps.
THEOREM LedgerStaysMatched == Spec => []LedgerMatchesTurns
<1>1. IInv => LedgerMatchesTurns
  BY DEF IInv, LedgerMatchesTurns
<1> QED BY <1>1, Invariance, PTL

\* Terminal states are monotonic, column by column.
THEOREM TerminalRowsNeverChange == Spec => TerminalIsFinal
<1>1. IInv /\ [Next]_vars => [\A r \in Finished(runs) : runs'[r] = runs[r]]_vars
  BY NextKeepsInv, StutterKeepsInv DEF TerminalRowsKept
<1> QED BY <1>1, Invariance, PTL DEF Spec, TerminalIsFinal

-----------------------------------------------------------------------------
(***************************************************************************)
(* The saved conversations: one turn at a time, no branch, what was to be  *)
(* told is carried and told once; and what a run's end means to the rows   *)
(* that may continue it.                                                   *)
(*                                                                         *)
(* The inductive invariant is about one value of the table and the records *)
(* on disk. There are three ways a handler changes them: rows are appended *)
(* that continue others, columns of unfinished rows move on, and a record  *)
(* is saved.                                                               *)
(***************************************************************************)

Predecessors(row) == {row.retryOf, row.resumeOf} \ {Nobody}

\* What a row that continues another keeps of it.
PredecessorsHold(db, disk_) ==
    \A q \in Exists(db) :
        /\ db[q].retryOf = Nobody \/ db[q].resumeOf = Nobody
        /\ db[q].retryOf # Nobody => db[db[q].retryOf].status \in Retryable
        /\ db[q].resumeOf # Nobody => db[db[q].resumeOf].status \in Resumable
        /\ db[q].resumeOf # Nobody => db[q].session # Nobody
        /\ \A p \in Predecessors(db[q]) :
             /\ p \in Exists(db) /\ p < q
             /\ db[p].parent = db[q].parent
             /\ db[q].record \in {q, RecordOf(db, disk_, p)}
             /\ SessionOf(db, disk_, p) # Nobody => db[q].session = SessionOf(db, disk_, p)
             /\ Undelivered(db, p) \subseteq db[q].completions

\* A conversation is the record of the run that opened it, a run of the same
\* parent, and no later run of it is older.
SessionsAreSaved(db, disk_) ==
    /\ disk_ \subseteq Exists(db)
    /\ \A q \in Exists(db) :
        /\ db[q].session = Nobody <=> db[q].record = Nobody
        /\ db[q].submitted => db[q].session # Nobody
        /\ q \in disk_ => db[q].session \in {Nobody, q}
        /\ SessionOf(db, disk_, q) # Nobody =>
              /\ SessionOf(db, disk_, q) \in disk_
              /\ SessionOf(db, disk_, q) <= q
              /\ db[SessionOf(db, disk_, q)].parent = db[q].parent

\* A run that is not the newest to speak to a conversation, by its row or by
\* the record on disk, was continued there.
TalkGoesOn(db, disk_) ==
    \A r, q \in Exists(db) :
        r < q /\ SessionOf(db, disk_, r) = SessionOf(db, disk_, q)
              /\ SessionOf(db, disk_, q) # Nobody =>
            \E x \in Successors(db, r) : db[x].session = SessionOf(db, disk_, r)

Unbranched(db) == \A r \in Run : \A p, q \in Successors(db, r) : p = q

\* NoDuplicateDelivery, already of a turn that is still to be submitted.
SentAgainOnRetry(db, disk_) ==
    \A q, r \in Exists(db) :
        q < r /\ db[q].submitted /\ SessionOf(db, disk_, r) # Nobody
            /\ SessionOf(db, disk_, q) = SessionOf(db, disk_, r) =>
            \A c \in db[q].completions \cap db[r].completions :
                \E x \in Conversation(db, SessionOf(db, disk_, r)) :
                    /\ q < x /\ x <= r /\ c \in db[x].completions
                    /\ db[x].retryOf # Nobody /\ db[db[x].retryOf].submitted

TalkInv(db, disk_) ==
    /\ PredecessorsHold(db, disk_)
    /\ SessionsAreSaved(db, disk_)
    /\ TalkGoesOn(db, disk_)
    /\ Unbranched(db)
    /\ SentAgainOnRetry(db, disk_)

-----------------------------------------------------------------------------
(* What the invariant says of one table.                                   *)

LEMMA NobodyIsNoRun == Nobody \notin Run /\ \A r \in Run : r \in Nat /\ r # Nobody
BY LedgerAssumption DEF Run, Nobody

\* Whom a row continues has ended.
LEMMA PredecessorsEnded ==
    ASSUME NEW db \in Ledger, NEW disk_ \in SUBSET Run, PredecessorsHold(db, disk_),
           NEW q \in Exists(db), NEW p \in Predecessors(db[q])
    PROVE  p \in Finished(db) /\ p \in Exists(db) /\ p < q /\ q \in Successors(db, p)
<1>1. p \in Exists(db) /\ p < q /\ p \in Run
  BY DEF PredecessorsHold, Exists
<1>2. db[p].status \in Terminal
  BY DEF PredecessorsHold, Predecessors, Retryable, Resumable, Terminal
<1> QED BY <1>1, <1>2 DEF Finished, Successors, Predecessors

\* A run that was continued has ended.
LEMMA ContinuedHaveEnded ==
    ASSUME NEW db \in Ledger, NEW disk_ \in SUBSET Run, PredecessorsHold(db, disk_),
           NEW r \in Run, Successors(db, r) # {}
    PROVE  r \in Finished(db)
<1>1. PICK q \in Exists(db) : r \in {db[q].retryOf, db[q].resumeOf}
  BY DEF Successors
<1>2. r \in Predecessors(db[q])
  BY <1>1, NobodyIsNoRun DEF Predecessors
<1> QED BY <1>2, PredecessorsEnded

LEMMA SessionOfTyped ==
    ASSUME NEW db \in Ledger, NEW disk_ \in SUBSET Run, NEW r \in Run
    PROVE  /\ SessionOf(db, disk_, r) \in RunOrNobody
           /\ RecordOf(db, disk_, r) \in RunOrNobody
           /\ db[r].session # Nobody => SessionOf(db, disk_, r) = db[r].session
           /\ r \notin disk_ => SessionOf(db, disk_, r) = db[r].session
BY DEF SessionOf, RecordOf, Row, RunOrNobody

-----------------------------------------------------------------------------
(* Columns of unfinished rows move on.                                     *)

\* The rows stay, and so does whatever a finished row says and whatever ties a
\* row to others; a row may learn the conversation it already speaks to.
Kept(db, db2, disk_) ==
    /\ Exists(db2) = Exists(db)
    /\ \A r \in Finished(db) : db2[r] = db[r]
    /\ \A r \in Exists(db) :
        /\ db2[r].parent = db[r].parent
        /\ db2[r].retryOf = db[r].retryOf /\ db2[r].resumeOf = db[r].resumeOf
        /\ db2[r].completions = db[r].completions
        /\ db2[r].session \in {db[r].session, SessionOf(db, disk_, r)}
        /\ db2[r].record \in {db[r].record, r}
        /\ SessionOf(db2, disk_, r) = SessionOf(db, disk_, r)
        /\ db2[r].session = Nobody <=> db2[r].record = Nobody
        /\ db[r].submitted => db2[r].submitted
        /\ db2[r].submitted => db2[r].session # Nobody

LEMMA KeptKeepsTalk ==
    ASSUME NEW db \in Ledger, NEW db2 \in Ledger, NEW disk_ \in SUBSET Run,
           TalkInv(db, disk_), Kept(db, db2, disk_)
    PROVE  TalkInv(db2, disk_)
<1>1. /\ PredecessorsHold(db, disk_) /\ SessionsAreSaved(db, disk_)
      /\ TalkGoesOn(db, disk_) /\ Unbranched(db) /\ SentAgainOnRetry(db, disk_)
  BY DEF TalkInv
<1>2. \A r \in Run : Successors(db2, r) = Successors(db, r)
  BY DEF Successors, Kept
<1>3. Exists(db2) = Exists(db) /\ Exists(db) \subseteq Run
  BY DEF Kept, Exists
\* A row that names its conversation goes on naming it.
<1>4. ASSUME NEW r \in Exists(db), db[r].session # Nobody
      PROVE  db2[r].session = db[r].session
  <2>1. SessionOf(db, disk_, r) = db[r].session
    BY <1>3, <1>4, SessionOfTyped
  <2> QED BY <1>4, <2>1 DEF Kept
<1>5. PredecessorsHold(db2, disk_)
  <2> SUFFICES ASSUME NEW q \in Exists(db)
      PROVE /\ db2[q].retryOf = Nobody \/ db2[q].resumeOf = Nobody
            /\ db2[q].retryOf # Nobody => db2[db2[q].retryOf].status \in Retryable
            /\ db2[q].resumeOf # Nobody => db2[db2[q].resumeOf].status \in Resumable
            /\ db2[q].resumeOf # Nobody => db2[q].session # Nobody
            /\ \A p \in Predecessors(db2[q]) :
                 /\ p \in Exists(db2) /\ p < q
                 /\ db2[p].parent = db2[q].parent
                 /\ db2[q].record \in {q, RecordOf(db2, disk_, p)}
                 /\ SessionOf(db2, disk_, p) # Nobody =>
                       db2[q].session = SessionOf(db2, disk_, p)
                 /\ Undelivered(db2, p) \subseteq db2[q].completions
    BY <1>3 DEF PredecessorsHold
  <2>1. /\ db2[q].parent = db[q].parent
        /\ db2[q].retryOf = db[q].retryOf /\ db2[q].resumeOf = db[q].resumeOf
        /\ db2[q].completions = db[q].completions
        /\ db2[q].record \in {db[q].record, q}
    BY DEF Kept
  <2>2. Predecessors(db2[q]) = Predecessors(db[q])
    BY <2>1 DEF Predecessors
  <2>3. ASSUME NEW p \in Predecessors(db[q])
        PROVE /\ p \in Exists(db) /\ p < q /\ db2[p] = db[p]
              /\ RecordOf(db2, disk_, p) = RecordOf(db, disk_, p)
              /\ SessionOf(db2, disk_, p) = SessionOf(db, disk_, p)
              /\ Undelivered(db2, p) = Undelivered(db, p)
    <3>1. p \in Finished(db) /\ p \in Exists(db) /\ p < q
      BY <1>1, PredecessorsEnded
    <3>2. db2[p] = db[p]
      BY <3>1 DEF Kept
    <3> QED BY <3>1, <3>2 DEF RecordOf, SessionOf, Undelivered
  <2>4. db[q].retryOf # Nobody => db[q].retryOf \in Predecessors(db[q])
    BY DEF Predecessors
  <2>5. db[q].resumeOf # Nobody => db[q].resumeOf \in Predecessors(db[q])
    BY DEF Predecessors
  <2>6. ASSUME NEW p \in Predecessors(db[q])
        PROVE /\ p \in Exists(db2) /\ p < q
              /\ db2[p].parent = db2[q].parent
              /\ db2[q].record \in {q, RecordOf(db2, disk_, p)}
              /\ SessionOf(db2, disk_, p) # Nobody =>
                       db2[q].session = SessionOf(db2, disk_, p)
              /\ Undelivered(db2, p) \subseteq db2[q].completions
    <3>1. /\ db[p].parent = db[q].parent
          /\ db[q].record \in {q, RecordOf(db, disk_, p)}
          /\ SessionOf(db, disk_, p) # Nobody => db[q].session = SessionOf(db, disk_, p)
          /\ Undelivered(db, p) \subseteq db[q].completions
      BY <1>1 DEF PredecessorsHold
    <3> QED BY <1>3, <1>4, <2>1, <2>3, <3>1
  <2>7. /\ db[q].retryOf = Nobody \/ db[q].resumeOf = Nobody
        /\ db[q].retryOf # Nobody => db[db[q].retryOf].status \in Retryable
        /\ db[q].resumeOf # Nobody => db[db[q].resumeOf].status \in Resumable
        /\ db[q].resumeOf # Nobody => db[q].session # Nobody
    BY <1>1 DEF PredecessorsHold
  <2> QED BY <1>4, <2>1, <2>2, <2>3, <2>4, <2>5, <2>6, <2>7
<1>6. SessionsAreSaved(db2, disk_)
  <2>1. disk_ \subseteq Exists(db2)
    BY <1>1, <1>3 DEF SessionsAreSaved
  <2>2. ASSUME NEW q \in Exists(db)
        PROVE /\ db2[q].session = Nobody <=> db2[q].record = Nobody
              /\ db2[q].submitted => db2[q].session # Nobody
              /\ q \in disk_ => db2[q].session \in {Nobody, q}
              /\ SessionOf(db2, disk_, q) # Nobody =>
                   /\ SessionOf(db2, disk_, q) \in disk_
                   /\ SessionOf(db2, disk_, q) <= q
                   /\ db2[SessionOf(db2, disk_, q)].parent = db2[q].parent
    <3>1. /\ q \in disk_ => db[q].session \in {Nobody, q}
          /\ SessionOf(db, disk_, q) # Nobody =>
                   /\ SessionOf(db, disk_, q) \in disk_
                   /\ SessionOf(db, disk_, q) <= q
                   /\ db[SessionOf(db, disk_, q)].parent = db[q].parent
      BY <1>1 DEF SessionsAreSaved
    <3>2. /\ db2[q].session \in {db[q].session, SessionOf(db, disk_, q)}
          /\ SessionOf(db2, disk_, q) = SessionOf(db, disk_, q)
          /\ db2[q].session = Nobody <=> db2[q].record = Nobody
          /\ db2[q].submitted => db2[q].session # Nobody
      BY DEF Kept
    <3>3. q \in disk_ => SessionOf(db, disk_, q) = q
      BY <3>1 DEF SessionOf
    <3>4. \A r \in disk_ : r \in Exists(db) /\ db2[r].parent = db[r].parent
      BY <2>1, <1>3 DEF Kept
    <3>5. db2[q].parent = db[q].parent
      BY DEF Kept
    <3> QED BY <3>1, <3>2, <3>3, <3>4, <3>5
  <2> QED BY <1>3, <2>1, <2>2 DEF SessionsAreSaved
<1>7. TalkGoesOn(db2, disk_)
  <2> SUFFICES ASSUME NEW r \in Exists(db), NEW q \in Exists(db), r < q,
                      SessionOf(db2, disk_, r) = SessionOf(db2, disk_, q),
                      SessionOf(db2, disk_, q) # Nobody
               PROVE  \E x \in Successors(db2, r) : db2[x].session = SessionOf(db2, disk_, r)
    BY <1>3 DEF TalkGoesOn
  <2>1. /\ SessionOf(db2, disk_, r) = SessionOf(db, disk_, r)
        /\ SessionOf(db2, disk_, q) = SessionOf(db, disk_, q)
    BY DEF Kept
  <2>2. PICK x \in Successors(db, r) : db[x].session = SessionOf(db, disk_, r)
    BY <1>1, <2>1 DEF TalkGoesOn
  <2>3. x \in Exists(db) /\ db2[x].session = db[x].session
    BY <1>4, <2>1, <2>2 DEF Successors
  <2> QED BY <1>2, <1>3, <2>1, <2>2, <2>3
<1>8. Unbranched(db2)
  BY <1>1, <1>2 DEF Unbranched
<1>9. SentAgainOnRetry(db2, disk_)
  <2> SUFFICES ASSUME NEW q \in Exists(db), NEW r \in Exists(db),
                      q < r, db2[q].submitted, SessionOf(db2, disk_, r) # Nobody,
                      SessionOf(db2, disk_, q) = SessionOf(db2, disk_, r),
                      NEW c \in db2[q].completions \cap db2[r].completions
               PROVE  \E x \in Conversation(db2, SessionOf(db2, disk_, r)) :
                         /\ q < x /\ x <= r /\ c \in db2[x].completions
                         /\ db2[x].retryOf # Nobody /\ db2[db2[x].retryOf].submitted
    BY <1>3 DEF SentAgainOnRetry
  <2>1. /\ SessionOf(db2, disk_, r) = SessionOf(db, disk_, r)
        /\ SessionOf(db2, disk_, q) = SessionOf(db, disk_, q)
        /\ db2[q].completions = db[q].completions /\ db2[r].completions = db[r].completions
    BY DEF Kept
  <2>2. Successors(db, q) # {}
    BY <1>1, <2>1 DEF TalkGoesOn
  <2>3. db2[q] = db[q]
    BY <1>1, <1>3, <2>2, ContinuedHaveEnded DEF Kept
  <2>4. PICK x \in Conversation(db, SessionOf(db, disk_, r)) :
                         /\ q < x /\ x <= r /\ c \in db[x].completions
                         /\ db[x].retryOf # Nobody /\ db[db[x].retryOf].submitted
    BY <1>1, <2>1, <2>3 DEF SentAgainOnRetry
  <2>5. x \in Exists(db) /\ db[x].session = SessionOf(db, disk_, r)
    BY <2>4 DEF Conversation
  <2>6. x \in Conversation(db2, SessionOf(db2, disk_, r))
    BY <1>3, <1>4, <2>1, <2>5 DEF Conversation
  <2>7. db[x].retryOf \in Predecessors(db[x])
    BY <2>4 DEF Predecessors
  <2>8. db[x].retryOf \in Exists(db)
    BY <1>1, <2>5, <2>7, PredecessorsEnded
  <2> QED BY <2>4, <2>5, <2>6, <2>8 DEF Kept
<1> QED BY <1>5, <1>6, <1>7, <1>8, <1>9 DEF TalkInv

-----------------------------------------------------------------------------
(* A record is saved.                                                      *)

\* ensureSession writes the record of a turn whose row names no conversation.
LEMMA SavingKeepsTalk ==
    ASSUME NEW db \in Ledger, NEW disk_ \in SUBSET Run, TalkInv(db, disk_),
           NEW r \in Running(db), r \notin disk_, db[r].session = Nobody
    PROVE  TalkInv(db, disk_ \cup {r})
<1> DEFINE disk2 == disk_ \cup {r}
<1>1. /\ PredecessorsHold(db, disk_) /\ SessionsAreSaved(db, disk_)
      /\ TalkGoesOn(db, disk_) /\ Unbranched(db) /\ SentAgainOnRetry(db, disk_)
  BY DEF TalkInv
<1>2. r \in Exists(db) /\ r \in Run /\ r # Nobody /\ r \notin Finished(db)
  BY NobodyIsNoRun DEF Running, Exists, Finished, Terminal
<1>3. SessionOf(db, disk2, r) = r /\ SessionOf(db, disk_, r) = Nobody
  BY DEF SessionOf
<1>4. ASSUME NEW q \in Exists(db), q # r
      PROVE  /\ SessionOf(db, disk2, q) = SessionOf(db, disk_, q)
             /\ RecordOf(db, disk2, q) = RecordOf(db, disk_, q)
             /\ SessionOf(db, disk_, q) # r
  <2>1. SessionOf(db, disk2, q) = SessionOf(db, disk_, q)
    BY <1>4 DEF SessionOf
  <2>2. RecordOf(db, disk2, q) = RecordOf(db, disk_, q)
    BY <1>4 DEF RecordOf
  <2>3. SessionOf(db, disk_, q) # r
    BY <1>1, <1>2 DEF SessionsAreSaved
  <2> QED BY <2>1, <2>2, <2>3
\* Nobody else speaks to the new conversation.
<1>5. ASSUME NEW p \in Exists(db), NEW q \in Exists(db),
             SessionOf(db, disk2, p) = SessionOf(db, disk2, q), p # q
      PROVE  /\ SessionOf(db, disk2, p) = SessionOf(db, disk_, p)
             /\ SessionOf(db, disk2, q) = SessionOf(db, disk_, q)
  BY <1>3, <1>4, <1>5
<1> HIDE DEF disk2
<1>6. PredecessorsHold(db, disk2)
  <2>1. ASSUME NEW q \in Exists(db), NEW p \in Predecessors(db[q])
        PROVE  p # r /\ p \in Exists(db)
    BY <1>1, <1>2, <2>1, PredecessorsEnded
  <2> QED BY <1>1, <1>4, <2>1 DEF PredecessorsHold
<1>7. SessionsAreSaved(db, disk2)
  <2>1. disk2 \subseteq Exists(db)
    BY <1>1, <1>2 DEF SessionsAreSaved, disk2
  <2>2. ASSUME NEW q \in Exists(db)
        PROVE /\ db[q].session = Nobody <=> db[q].record = Nobody
              /\ db[q].submitted => db[q].session # Nobody
              /\ q \in disk2 => db[q].session \in {Nobody, q}
              /\ SessionOf(db, disk2, q) # Nobody =>
                   /\ SessionOf(db, disk2, q) \in disk2
                   /\ SessionOf(db, disk2, q) <= q
                   /\ db[SessionOf(db, disk2, q)].parent = db[q].parent
    <3>1. CASE q = r
      <4>1. r <= r
        BY <1>2, NobodyIsNoRun
      <4> QED BY <1>1, <1>3, <3>1, <4>1 DEF SessionsAreSaved, disk2
    <3>2. CASE q # r
      BY <1>1, <1>4, <3>2 DEF SessionsAreSaved, disk2
    <3> QED BY <3>1, <3>2
  <2> QED BY <2>1, <2>2 DEF SessionsAreSaved
<1>8. TalkGoesOn(db, disk2)
  <2> SUFFICES ASSUME NEW p \in Exists(db), NEW q \in Exists(db), p < q,
                      SessionOf(db, disk2, p) = SessionOf(db, disk2, q),
                      SessionOf(db, disk2, q) # Nobody
               PROVE  \E x \in Successors(db, p) : db[x].session = SessionOf(db, disk2, p)
    BY DEF TalkGoesOn
  <2>1. p # q
    BY NobodyIsNoRun DEF Exists
  <2> QED BY <1>1, <1>5, <2>1 DEF TalkGoesOn
<1>9. SentAgainOnRetry(db, disk2)
  <2> SUFFICES ASSUME NEW q \in Exists(db), NEW p \in Exists(db),
                      q < p, db[q].submitted, SessionOf(db, disk2, p) # Nobody,
                      SessionOf(db, disk2, q) = SessionOf(db, disk2, p),
                      NEW c \in db[q].completions \cap db[p].completions
               PROVE  \E x \in Conversation(db, SessionOf(db, disk2, p)) :
                         /\ q < x /\ x <= p /\ c \in db[x].completions
                         /\ db[x].retryOf # Nobody /\ db[db[x].retryOf].submitted
    BY DEF SentAgainOnRetry
  <2>1. p # q
    BY NobodyIsNoRun DEF Exists
  <2> QED BY <1>1, <1>5, <2>1 DEF SentAgainOnRetry
<1> QED BY <1>1, <1>6, <1>7, <1>8, <1>9 DEF TalkInv, disk2

-----------------------------------------------------------------------------
(* Rows are appended that continue others.                                 *)

\* A run that continues nobody and speaks to a conversation still to be saved.
Opens(row) ==
    /\ Predecessors(row) = {}
    /\ row.session = Nobody /\ row.record = Nobody /\ ~row.submitted

\* A retry or a resume of run k: what it takes over, and what it has to tell,
\* which is what k left unsaid or what its conversation was not told.
Continues(db, disk_, k, row) ==
    /\ Successors(db, k) = {}
    /\ row.parent = db[k].parent
    /\ row.session = SessionOf(db, disk_, k)
    /\ row.record = RecordOf(db, disk_, k)
    /\ ~row.submitted
    /\ Undelivered(db, k) \subseteq row.completions
    /\ \/ /\ row.retryOf = k /\ row.resumeOf = Nobody
          /\ db[k].status \in Retryable
          /\ row.completions = db[k].completions
       \/ /\ row.retryOf = Nobody /\ row.resumeOf = k
          /\ db[k].status \in Resumable
          /\ row.session # Nobody
          /\ row.completions \cap Delivered(db, row.session) \subseteq Undelivered(db, k)

New(db, db2) == Exists(db2) \ Exists(db)

\* Newer rows are appended, each opens a conversation or continues a run, and
\* no two continue the same one.
Appended(db, db2, disk_) ==
    /\ \A r \in Exists(db) : db2[r] = db[r]
    /\ Exists(db) \subseteq Exists(db2)
    /\ \A i \in New(db, db2) :
        /\ \A r \in Exists(db) : r < i
        /\ Opens(db2[i]) \/ \E k \in Exists(db) : Continues(db, disk_, k, db2[i])
    /\ \A i, j \in New(db, db2) :
        Predecessors(db2[i]) \cap Predecessors(db2[j]) # {} => i = j

\* The newest run of a talk is the one without a successor.
LEMMA NewestOfTalk ==
    ASSUME NEW db \in Ledger, NEW disk_ \in SUBSET Run, TalkGoesOn(db, disk_),
           NEW k \in Exists(db), Successors(db, k) = {},
           NEW q \in Exists(db), SessionOf(db, disk_, q) = SessionOf(db, disk_, k),
           SessionOf(db, disk_, k) # Nobody
    PROVE  q <= k /\ (q # k => q < k)
<1>1. q \in Nat /\ k \in Nat
  BY NobodyIsNoRun DEF Exists
<1>2. ~(k < q)
  BY DEF TalkGoesOn
<1> QED BY <1>1, <1>2

\* Naming no run, a run names no record.
LEMMA NoRecordAlone ==
    ASSUME NEW db \in Ledger, NEW disk_ \in SUBSET Run, SessionsAreSaved(db, disk_),
           NEW k \in Exists(db)
    PROVE  SessionOf(db, disk_, k) = Nobody <=> RecordOf(db, disk_, k) = Nobody
BY NobodyIsNoRun DEF SessionsAreSaved, SessionOf, RecordOf, Exists

LEMMA AppendKeepsTalk ==
    ASSUME NEW db \in Ledger, NEW db2 \in Ledger, NEW disk_ \in SUBSET Run,
           TalkInv(db, disk_), Appended(db, db2, disk_)
    PROVE  TalkInv(db2, disk_)
<1> DEFINE Old == Exists(db)
           N   == New(db, db2)
<1>1. /\ PredecessorsHold(db, disk_) /\ SessionsAreSaved(db, disk_)
      /\ TalkGoesOn(db, disk_) /\ Unbranched(db) /\ SentAgainOnRetry(db, disk_)
  BY DEF TalkInv
<1>2. Exists(db2) = Old \cup N /\ Old \subseteq Run /\ N \subseteq Run /\ disk_ \subseteq Old
  BY <1>1 DEF Appended, New, Exists, SessionsAreSaved
<1>3. ASSUME NEW r \in Old
      PROVE  /\ db2[r] = db[r]
             /\ SessionOf(db2, disk_, r) = SessionOf(db, disk_, r)
             /\ RecordOf(db2, disk_, r) = RecordOf(db, disk_, r)
             /\ Undelivered(db2, r) = Undelivered(db, r)
  BY DEF Appended, SessionOf, RecordOf, Undelivered
<1>4. ASSUME NEW i \in N
      PROVE  /\ i \notin Old /\ i \in Run
             /\ SessionOf(db2, disk_, i) = db2[i].session
             /\ ~db2[i].submitted
             /\ \A r \in Old : r < i
  <2>1. i \notin Old /\ i \in Run
    BY <1>2 DEF New
  <2>2. SessionOf(db2, disk_, i) = db2[i].session
    BY <1>2, <2>1 DEF SessionOf
  <2>3. Opens(db2[i]) \/ \E k \in Exists(db) : Continues(db, disk_, k, db2[i])
    BY DEF Appended
  <2>4. ~db2[i].submitted
    BY <2>3 DEF Opens, Continues
  <2> QED BY <2>1, <2>2, <2>4 DEF Appended
\* Whom a new row continues is the newest of its talk.
<1>5. ASSUME NEW i \in N, db2[i].session # Nobody \/ Predecessors(db2[i]) # {}
      PROVE  \E k \in Old : /\ Continues(db, disk_, k, db2[i])
                            /\ Predecessors(db2[i]) = {k}
                            /\ db2[i].session = SessionOf(db, disk_, k)
                            /\ db2[i].session # Nobody => \A q \in Old :
                                 SessionOf(db, disk_, q) = SessionOf(db, disk_, k) =>
                                     q <= k /\ (q # k => q < k)
  <2>1. PICK k \in Old : Continues(db, disk_, k, db2[i])
    BY <1>5 DEF Appended, Opens
  <2>2. k # Nobody
    BY NobodyIsNoRun, <1>2
  <2>3. Predecessors(db2[i]) = {k}
    BY <2>1, <2>2 DEF Continues, Predecessors
  <2>4. db2[i].session = SessionOf(db, disk_, k) /\ Successors(db, k) = {}
    BY <2>1 DEF Continues
  <2>5. ASSUME db2[i].session # Nobody, NEW q \in Old,
               SessionOf(db, disk_, q) = SessionOf(db, disk_, k)
        PROVE  q <= k /\ (q # k => q < k)
    BY <1>1, <2>4, <2>5, NewestOfTalk
  <2> QED BY <2>1, <2>3, <2>4, <2>5
\* No two new rows speak to one conversation.
<1>6. ASSUME NEW i \in N, NEW j \in N, db2[i].session = db2[j].session, db2[i].session # Nobody
      PROVE  i = j
  <2>1. PICK k \in Old : /\ Predecessors(db2[i]) = {k}
                         /\ db2[i].session = SessionOf(db, disk_, k)
                         /\ \A q \in Old : SessionOf(db, disk_, q) = SessionOf(db, disk_, k) =>
                                     q <= k
    BY <1>5, <1>6
  <2>2. PICK h \in Old : /\ Predecessors(db2[j]) = {h}
                         /\ db2[j].session = SessionOf(db, disk_, h)
                         /\ \A q \in Old : SessionOf(db, disk_, q) = SessionOf(db, disk_, h) =>
                                     q <= h
    BY <1>5, <1>6
  <2>3. k <= h /\ h <= k /\ h \in Nat /\ k \in Nat
    BY <1>2, <1>6, <2>1, <2>2, NobodyIsNoRun
  <2>4. k = h
    BY <2>3
  <2> QED BY <2>1, <2>2, <2>4 DEF Appended
<1>7. \A i \in Run, j \in Run : i < j => ~(j < i) /\ i # j
  BY NobodyIsNoRun
<1> HIDE DEF Old, N
<1>8. PredecessorsHold(db2, disk_)
  <2>1. ASSUME NEW q \in Old
        PROVE  /\ db2[q].retryOf = Nobody \/ db2[q].resumeOf = Nobody
               /\ db2[q].retryOf # Nobody => db2[db2[q].retryOf].status \in Retryable
               /\ db2[q].resumeOf # Nobody => db2[db2[q].resumeOf].status \in Resumable
               /\ db2[q].resumeOf # Nobody => db2[q].session # Nobody
               /\ \A p \in Predecessors(db2[q]) :
                    /\ p \in Exists(db2) /\ p < q
                    /\ db2[p].parent = db2[q].parent
                    /\ db2[q].record \in {q, RecordOf(db2, disk_, p)}
                    /\ SessionOf(db2, disk_, p) # Nobody =>
                          db2[q].session = SessionOf(db2, disk_, p)
                    /\ Undelivered(db2, p) \subseteq db2[q].completions
    <3>1. db2[q] = db[q] /\ Predecessors(db2[q]) \subseteq Old
      BY <1>1, <1>3 DEF PredecessorsHold, Old
    <3>2. db[q].retryOf # Nobody => db[q].retryOf \in Predecessors(db[q])
      BY DEF Predecessors
    <3>3. db[q].resumeOf # Nobody => db[q].resumeOf \in Predecessors(db[q])
      BY DEF Predecessors
    <3>4. \A p \in Predecessors(db2[q]) :
             /\ db2[p] = db[p]
             /\ SessionOf(db2, disk_, p) = SessionOf(db, disk_, p)
             /\ RecordOf(db2, disk_, p) = RecordOf(db, disk_, p)
             /\ Undelivered(db2, p) = Undelivered(db, p)
      BY <1>3, <3>1
    <3>5. /\ db[q].retryOf = Nobody \/ db[q].resumeOf = Nobody
          /\ db[q].retryOf # Nobody => db[db[q].retryOf].status \in Retryable
          /\ db[q].resumeOf # Nobody => db[db[q].resumeOf].status \in Resumable
          /\ db[q].resumeOf # Nobody => db[q].session # Nobody
          /\ \A p \in Predecessors(db[q]) :
               /\ p \in Exists(db) /\ p < q
               /\ db[p].parent = db[q].parent
               /\ db[q].record \in {q, RecordOf(db, disk_, p)}
               /\ SessionOf(db, disk_, p) # Nobody => db[q].session = SessionOf(db, disk_, p)
               /\ Undelivered(db, p) \subseteq db[q].completions
      BY <1>1 DEF PredecessorsHold, Old
    <3> QED BY <1>2, <3>1, <3>2, <3>3, <3>4, <3>5 DEF Old
  <2>2. ASSUME NEW q \in N
        PROVE  /\ db2[q].retryOf = Nobody \/ db2[q].resumeOf = Nobody
               /\ db2[q].retryOf # Nobody => db2[db2[q].retryOf].status \in Retryable
               /\ db2[q].resumeOf # Nobody => db2[db2[q].resumeOf].status \in Resumable
               /\ db2[q].resumeOf # Nobody => db2[q].session # Nobody
               /\ \A p \in Predecessors(db2[q]) :
                    /\ p \in Exists(db2) /\ p < q
                    /\ db2[p].parent = db2[q].parent
                    /\ db2[q].record \in {q, RecordOf(db2, disk_, p)}
                    /\ SessionOf(db2, disk_, p) # Nobody =>
                          db2[q].session = SessionOf(db2, disk_, p)
                    /\ Undelivered(db2, p) \subseteq db2[q].completions
    <3>1. CASE Predecessors(db2[q]) = {}
      BY <3>1 DEF Predecessors
    <3>2. CASE Predecessors(db2[q]) # {}
      <4>1. PICK k \in Old : Continues(db, disk_, k, db2[q]) /\ Predecessors(db2[q]) = {k}
        BY <1>5, <3>2
      <4>2. k \in Exists(db2) /\ k < q
        BY <1>2, <1>4
      <4>3. /\ db2[k] = db[k]
            /\ SessionOf(db2, disk_, k) = SessionOf(db, disk_, k)
            /\ RecordOf(db2, disk_, k) = RecordOf(db, disk_, k)
            /\ Undelivered(db2, k) = Undelivered(db, k)
        BY <1>3
      <4> QED BY <4>1, <4>2, <4>3 DEF Continues
    <3> QED BY <3>1, <3>2
  <2> QED BY <1>2, <2>1, <2>2 DEF PredecessorsHold
<1>9. SessionsAreSaved(db2, disk_)
  <2>1. disk_ \subseteq Exists(db2)
    BY <1>2
  <2>2. ASSUME NEW q \in Old
        PROVE  /\ db2[q].session = Nobody <=> db2[q].record = Nobody
               /\ db2[q].submitted => db2[q].session # Nobody
               /\ q \in disk_ => db2[q].session \in {Nobody, q}
               /\ SessionOf(db2, disk_, q) # Nobody =>
                    /\ SessionOf(db2, disk_, q) \in disk_
                    /\ SessionOf(db2, disk_, q) <= q
                    /\ db2[SessionOf(db2, disk_, q)].parent = db2[q].parent
    <3>1. /\ db[q].session = Nobody <=> db[q].record = Nobody
          /\ db[q].submitted => db[q].session # Nobody
          /\ q \in disk_ => db[q].session \in {Nobody, q}
          /\ SessionOf(db, disk_, q) # Nobody =>
                    /\ SessionOf(db, disk_, q) \in disk_
                    /\ SessionOf(db, disk_, q) <= q
                    /\ db[SessionOf(db, disk_, q)].parent = db[q].parent
      BY <1>1 DEF SessionsAreSaved, Old
    <3> QED BY <1>2, <1>3, <3>1
  <2>3. ASSUME NEW q \in N
        PROVE  /\ db2[q].session = Nobody <=> db2[q].record = Nobody
               /\ db2[q].submitted => db2[q].session # Nobody
               /\ q \in disk_ => db2[q].session \in {Nobody, q}
               /\ SessionOf(db2, disk_, q) # Nobody =>
                    /\ SessionOf(db2, disk_, q) \in disk_
                    /\ SessionOf(db2, disk_, q) <= q
                    /\ db2[SessionOf(db2, disk_, q)].parent = db2[q].parent
    <3>1. q \notin disk_ /\ ~db2[q].submitted /\ SessionOf(db2, disk_, q) = db2[q].session
      BY <1>2, <1>4
    <3>2. CASE Opens(db2[q])
      BY <3>1, <3>2 DEF Opens
    <3>3. CASE ~Opens(db2[q])
      <4>1. PICK k \in Old : Continues(db, disk_, k, db2[q])
        BY <3>3 DEF Appended, Old, N
      <4>2. db2[q].session = Nobody <=> db2[q].record = Nobody
        BY <1>1, <4>1, NoRecordAlone DEF Continues, Old
      <4>3. ASSUME db2[q].session # Nobody
            PROVE  /\ db2[q].session \in disk_ /\ db2[q].session <= q
                   /\ db2[db2[q].session].parent = db2[q].parent
        <5> DEFINE s == SessionOf(db, disk_, k)
        <5>1. db2[q].session = s /\ db2[q].parent = db[k].parent
          BY <4>1 DEF Continues
        <5>2. s \in disk_ /\ s <= k /\ db[s].parent = db[k].parent
          BY <1>1, <4>3, <5>1 DEF SessionsAreSaved, Old
        <5>3. s \in Old /\ db2[s] = db[s] /\ s < q
          BY <1>2, <1>3, <1>4, <5>2
        <5>4. s <= q
          BY <1>2, <5>3, NobodyIsNoRun
        <5> QED BY <5>1, <5>2, <5>3, <5>4
      <4> QED BY <3>1, <4>2, <4>3
    <3> QED BY <3>2, <3>3
  <2> QED BY <1>2, <2>1, <2>2, <2>3 DEF SessionsAreSaved
<1>10. TalkGoesOn(db2, disk_)
  <2> SUFFICES ASSUME NEW r \in Old \cup N, NEW q \in Old \cup N, r < q,
                      SessionOf(db2, disk_, r) = SessionOf(db2, disk_, q),
                      SessionOf(db2, disk_, q) # Nobody
               PROVE  \E x \in Successors(db2, r) : db2[x].session = SessionOf(db2, disk_, r)
    BY <1>2 DEF TalkGoesOn
  <2>1. ASSUME NEW k \in Old, NEW x \in Successors(db, k)
        PROVE  x \in Successors(db2, k) /\ db2[x] = db[x]
    BY <1>2, <1>3 DEF Successors, Old
  <2>2. CASE r \in Old /\ q \in Old
    <3>1. PICK x \in Successors(db, r) : db[x].session = SessionOf(db, disk_, r)
      BY <1>1, <1>3, <2>2 DEF TalkGoesOn, Old
    <3> QED BY <1>3, <2>1, <2>2, <3>1
  <2>3. CASE r \in Old /\ q \in N
    <3>1. PICK k \in Old : /\ Predecessors(db2[q]) = {k}
                           /\ db2[q].session = SessionOf(db, disk_, k)
                           /\ \A p \in Old : SessionOf(db, disk_, p) = SessionOf(db, disk_, k) =>
                                     p <= k /\ (p # k => p < k)
      BY <1>4, <1>5, <2>3
    <3>2. SessionOf(db, disk_, r) = SessionOf(db, disk_, k)
      BY <1>3, <1>4, <2>3, <3>1
    <3>3. CASE r = k
      <4>1. q \in Successors(db2, r)
        BY <1>2, <2>3, <3>1, <3>3 DEF Successors, Predecessors
      <4> QED BY <1>4, <2>3, <4>1
    <3>4. CASE r # k
      <4>1. r < k
        BY <2>3, <3>1, <3>2, <3>4
      <4>2. SessionOf(db, disk_, k) # Nobody
        BY <1>4, <2>3, <3>1
      <4>3. PICK x \in Successors(db, r) : db[x].session = SessionOf(db, disk_, r)
        BY <1>1, <2>3, <3>2, <4>1, <4>2 DEF TalkGoesOn, Old
      <4> QED BY <1>3, <2>1, <2>3, <4>3
    <3> QED BY <3>3, <3>4
  <2>4. CASE r \in N
    <3>1. q \in N
      BY <1>2, <1>4, <1>7, <2>4
    <3>2. r = q
      BY <1>4, <1>6, <2>4, <3>1
    <3> QED BY <1>2, <1>7, <3>2
  <2> QED BY <2>2, <2>3, <2>4
<1>11. Unbranched(db2)
  <2> SUFFICES ASSUME NEW r \in Run, NEW p \in Successors(db2, r), NEW q \in Successors(db2, r)
               PROVE  p = q
    BY DEF Unbranched
  <2>0. r # Nobody
    BY NobodyIsNoRun
  <2>1. /\ p \in Old \cup N /\ r \in Predecessors(db2[p])
        /\ q \in Old \cup N /\ r \in Predecessors(db2[q])
    BY <1>2, <2>0 DEF Successors, Predecessors
  <2>2. \A x \in Old : x \in Successors(db2, r) => x \in Successors(db, r)
    BY <1>3 DEF Successors, Old
  <2>3. ASSUME NEW x \in N, r \in Predecessors(db2[x]) PROVE Successors(db, r) = {}
    BY <1>5, <2>3 DEF Continues
  <2>4. CASE p \in Old /\ q \in Old
    BY <1>1, <2>2, <2>4 DEF Unbranched
  <2>5. CASE p \in N /\ q \in N
    BY <2>1, <2>5 DEF Appended, N
  <2>6. CASE (p \in Old /\ q \in N) \/ (p \in N /\ q \in Old)
    BY <2>1, <2>2, <2>3, <2>6
  <2> QED BY <2>1, <2>4, <2>5, <2>6
<1>12. SentAgainOnRetry(db2, disk_)
  <2> SUFFICES ASSUME NEW q \in Old \cup N, NEW r \in Old \cup N,
                      q < r, db2[q].submitted, SessionOf(db2, disk_, r) # Nobody,
                      SessionOf(db2, disk_, q) = SessionOf(db2, disk_, r),
                      NEW c \in db2[q].completions \cap db2[r].completions
               PROVE  \E x \in Conversation(db2, SessionOf(db2, disk_, r)) :
                         /\ q < x /\ x <= r /\ c \in db2[x].completions
                         /\ db2[x].retryOf # Nobody /\ db2[db2[x].retryOf].submitted
    BY <1>2 DEF SentAgainOnRetry
  <2>1. q \in Old /\ db2[q] = db[q]
    BY <1>3, <1>4
  \* What an old run sent again is still there.
  <2>2. ASSUME NEW k \in Old, q < k, SessionOf(db, disk_, q) = SessionOf(db, disk_, k),
               SessionOf(db, disk_, k) # Nobody, c \in db[k].completions,
               SessionOf(db, disk_, k) = SessionOf(db2, disk_, r), k <= r
        PROVE  \E x \in Conversation(db2, SessionOf(db2, disk_, r)) :
                         /\ q < x /\ x <= r /\ c \in db2[x].completions
                         /\ db2[x].retryOf # Nobody /\ db2[db2[x].retryOf].submitted
    <3>1. PICK x \in Conversation(db, SessionOf(db, disk_, k)) :
                         /\ q < x /\ x <= k /\ c \in db[x].completions
                         /\ db[x].retryOf # Nobody /\ db[db[x].retryOf].submitted
      BY <1>1, <2>1, <2>2 DEF SentAgainOnRetry, Old
    <3>2. x \in Old /\ db[x].session = SessionOf(db, disk_, k) /\ db2[x] = db[x]
      BY <1>3, <3>1 DEF Conversation, Old
    <3>3. x \in Conversation(db2, SessionOf(db2, disk_, r))
      BY <1>2, <2>2, <3>2 DEF Conversation
    <3>4. db[x].retryOf \in Predecessors(db[x])
      BY <3>1 DEF Predecessors
    <3>5. db[x].retryOf \in Old
      BY <1>1, <3>2, <3>4 DEF PredecessorsHold, Old
    <3>6. db2[db[x].retryOf] = db[db[x].retryOf]
      BY <1>3, <3>5
    <3>7. x <= r
      BY <1>2, <2>2, <3>1, <3>2, NobodyIsNoRun
    <3> QED BY <3>1, <3>2, <3>3, <3>6, <3>7
  <2>3. CASE r \in Old
    <3>1. r <= r
      BY <1>2, <2>3, NobodyIsNoRun
    <3> QED BY <1>3, <2>1, <2>2, <2>3, <3>1
  <2>4. CASE r \in N
    <3> DEFINE s == db2[r].session
    <3>1. SessionOf(db2, disk_, r) = s /\ s # Nobody /\ SessionOf(db, disk_, q) = s
      BY <1>3, <1>4, <2>1, <2>4
    <3>2. PICK k \in Old : /\ Continues(db, disk_, k, db2[r])
                           /\ s = SessionOf(db, disk_, k)
                           /\ q <= k /\ (q # k => q < k)
      BY <1>5, <2>1, <2>4, <3>1
    <3>3. k < r /\ k <= r /\ r <= r
      BY <1>2, <1>4, <2>4, NobodyIsNoRun
    <3>4. c \in db[q].completions /\ c \in db2[r].completions
      BY <2>1
    <3>5. CASE db2[r].retryOf = k /\ db2[r].completions = db[k].completions
      <4>1. CASE q # k
        BY <2>2, <3>1, <3>2, <3>3, <3>4, <3>5, <4>1
      <4>2. CASE q = k
        <5>1. r \in Conversation(db2, s)
          BY <1>2, <2>4 DEF Conversation
        <5>2. db2[r].retryOf # Nobody /\ db2[db2[r].retryOf].submitted
          BY <1>2, <3>5, <4>2, NobodyIsNoRun
        <5> QED BY <3>1, <3>3, <5>1, <5>2
      <4> QED BY <4>1, <4>2
    <3>6. CASE db2[r].completions \cap Delivered(db, s) \subseteq Undelivered(db, k)
      <4>1. db[q].session = s
        BY <1>1, <1>2, <2>1, <3>1, SessionOfTyped DEF SessionsAreSaved, Old
      <4>2. q \in Conversation(db, s) /\ db[q].submitted
        BY <2>1, <4>1 DEF Conversation, Old
      <4>3. c \in Delivered(db, s)
        BY <3>4, <4>2 DEF Delivered
      <4>4. c \in Undelivered(db, k)
        BY <3>4, <3>6, <4>3
      <4>5. ~db[k].submitted /\ c \in db[k].completions
        BY <4>4 DEF Undelivered
      <4>6. q # k
        BY <4>2, <4>5
      <4> QED BY <2>2, <3>1, <3>2, <3>3, <4>5, <4>6
    <3> QED BY <3>2, <3>5, <3>6 DEF Continues
  <2> QED BY <2>3, <2>4
<1> QED BY <1>8, <1>9, <1>10, <1>11, <1>12 DEF TalkInv

-----------------------------------------------------------------------------
(* The inserts.                                                            *)

\* The rank of a member among the members before it tells members apart.
LEMMA RankFromBelow ==
    ASSUME NEW S, S \subseteq Run, NEW i \in S, NEW j \in S,
           Cardinality({u \in S : u <= i}) = Cardinality({u \in S : u <= j})
    PROVE  i = j
<1> DEFINE upto(m) == {u \in S : u <= m}
<1>1. \A m \in S : m \in Nat
  BY NobodyIsNoRun
<1>2. ASSUME NEW m \in S, NEW n \in S, m < n PROVE Cardinality(upto(m)) # Cardinality(upto(n))
  <2>1. upto(m) \in SUBSET upto(n)
    BY <1>1, <1>2
  <2>2. n \in upto(n) /\ n \notin upto(m)
    BY <1>1, <1>2
  <2>3. IsFiniteSet(upto(n))
    BY RunsAreFinite
  <2> HIDE DEF upto
  <2> QED BY <2>1, <2>2, <2>3, FS_Subset
<1>3. i \in Nat /\ j \in Nat
  BY <1>1
<1>4. ~(i < j) /\ ~(j < i)
  BY <1>2
<1> QED BY <1>3, <1>4

\* Each inserted row is the one made for some key, two rows for two keys.
LEMMA InsertPlaces ==
    ASSUME NEW db \in Ledger, NEW keys, NEW new \in [keys -> QueuedRow],
           NEW i \in New(db, Insert(db, new))
    PROVE  \E k \in keys : PlacedAt(db, keys, i, k) /\ Insert(db, new)[i] = new[k]
<1>1. i \in Run /\ Insert(db, new)[i].status # "absent" /\ db[i].status = "absent"
  BY DEF New, Exists
<1>2. \E k \in keys : PlacedAt(db, keys, i, k)
  BY <1>1 DEF Insert
<1>3. (CHOOSE k \in keys : PlacedAt(db, keys, i, k)) \in keys
      /\ PlacedAt(db, keys, i, CHOOSE k \in keys : PlacedAt(db, keys, i, k))
  BY <1>2
<1>4. Insert(db, new)[i] = new[CHOOSE k \in keys : PlacedAt(db, keys, i, k)]
  BY <1>1, <1>2 DEF Insert
<1> QED BY <1>3, <1>4

LEMMA InsertAppends ==
    ASSUME NEW db \in Ledger, NEW disk_ \in SUBSET Run, NEW keys, NEW new \in [keys -> QueuedRow],
           \A k \in keys : \/ Opens(new[k])
                           \/ k \in Exists(db) /\ Continues(db, disk_, k, new[k])
    PROVE  Insert(db, new) \in Ledger /\ Appended(db, Insert(db, new), disk_)
<1> DEFINE res == Insert(db, new)
<1>1. res \in Ledger /\ \A r \in Exists(db) : res[r] = db[r]
  BY InsertGrows DEF Grown
<1>2. Exists(db) \subseteq Exists(res)
  BY <1>1 DEF Exists
<1>3. ASSUME NEW i \in New(db, res)
      PROVE  \E k \in keys : PlacedAt(db, keys, i, k) /\ res[i] = new[k]
  BY InsertPlaces
<1> HIDE DEF res
<1>4. ASSUME NEW i \in New(db, res)
      PROVE  /\ \A r \in Exists(db) : r < i
             /\ Opens(res[i]) \/ \E k \in Exists(db) : Continues(db, disk_, k, res[i])
  <2>1. PICK k \in keys : PlacedAt(db, keys, i, k) /\ res[i] = new[k]
    BY <1>3
  <2>2. \A r \in Exists(db) : r < i
    BY <2>1 DEF PlacedAt, Unused
  <2> QED BY <2>1, <2>2
<1>5. ASSUME NEW i \in New(db, res), NEW j \in New(db, res),
             Predecessors(res[i]) \cap Predecessors(res[j]) # {}
      PROVE  i = j
  <2>1. PICK k \in keys : PlacedAt(db, keys, i, k) /\ res[i] = new[k]
    BY <1>3
  <2>2. PICK h \in keys : PlacedAt(db, keys, j, h) /\ res[j] = new[h]
    BY <1>3
  <2>3. Predecessors(new[k]) = {k} /\ Predecessors(new[h]) = {h}
    <3>1. ASSUME NEW m \in keys, Predecessors(new[m]) # {}
          PROVE  Predecessors(new[m]) = {m}
      <4>1. m \in Exists(db) /\ Continues(db, disk_, m, new[m])
        BY <3>1 DEF Opens
      <4>2. m # Nobody
        BY <4>1, NobodyIsNoRun DEF Exists
      <4> QED BY <4>1, <4>2 DEF Continues, Predecessors
    <3> QED BY <1>5, <2>1, <2>2, <3>1
  <2>4. k = h
    BY <1>5, <2>1, <2>2, <2>3
  <2>5. /\ i \in Unused(db) /\ j \in Unused(db) /\ Unused(db) \subseteq Run
        /\ Cardinality({u \in Unused(db) : u <= i}) = Cardinality({u \in Unused(db) : u <= j})
    BY <2>1, <2>2, <2>4 DEF PlacedAt, Unused
  <2> QED BY <2>5, RankFromBelow
<1>6. Appended(db, res, disk_)
  BY <1>1, <1>2, <1>4, <1>5 DEF Appended
<1> QED BY <1>1, <1>6 DEF res

\* The rows that retry and resume insert continue the run they are asked for.
LEMMA RetryContinues ==
    ASSUME NEW db \in Ledger, NEW disk_ \in SUBSET Run, NEW closed_, NEW r \in Run,
           RetryAllowed(db, disk_, closed_, r)
    PROVE  r \in Exists(db) /\ Continues(db, disk_, r, RetryRow(db, disk_, r))
<1>1. r \in Exists(db)
  BY DEF RetryAllowed, Retryable, Exists
<1>2. Undelivered(db, r) \subseteq db[r].completions
  BY DEF Undelivered
<1> QED BY <1>1, <1>2 DEF RetryAllowed, Continues, RetryRow, Successor

LEMMA ResumeContinues ==
    ASSUME NEW db \in Ledger, NEW disk_ \in SUBSET Run, NEW barred, NEW r \in Run,
           ResumeAllowed(db, disk_, barred, r), NEW carried,
           Undelivered(db, r) \subseteq carried,
           carried \cap Delivered(db, SessionOf(db, disk_, r)) \subseteq Undelivered(db, r)
    PROVE  r \in Exists(db) /\ Continues(db, disk_, r, ResumeRow(db, disk_, r, carried))
<1>1. r \in Exists(db)
  BY DEF ResumeAllowed, Resumable, Terminal, Exists
<1> QED BY <1>1 DEF ResumeAllowed, Continues, ResumeRow, Successor

\* So do those of a reconcile pass and of a restart.
LEMMA ReconcileKeepsTalk ==
    ASSUME NEW db \in Ledger, NEW disk_ \in SUBSET Run, NEW barred \in SUBSET Run,
           TalkInv(db, disk_)
    PROVE  /\ Reconciled(db, disk_, barred) \in Ledger
           /\ Appended(db, Reconciled(db, disk_, barred), disk_)
           /\ TalkInv(Reconciled(db, disk_, barred), disk_)
<1> DEFINE P == {q \in Continuing(db) : ResumeAllowed(db, disk_, barred, q)}
           new == [p \in P |-> ResumeRow(db, disk_, p, Kids(db, db[p].session))]
<1>1. P \subseteq Run
  BY DEF Continuing, Due, Heads, Exists
<1>2. ASSUME NEW p \in P
      PROVE  /\ new[p] \in QueuedRow
             /\ p \in Exists(db) /\ Continues(db, disk_, p, new[p])
  <2>1. p \in Run /\ p \in Due(db) /\ ResumeAllowed(db, disk_, barred, p)
    BY <1>1 DEF Continuing
  <2> DEFINE kids == Kids(db, db[p].session)
  <2>2. kids \in SUBSET Run /\ new[p] = ResumeRow(db, disk_, p, kids)
    BY KidsAreRuns
  <2>3. db[p].session # Nobody /\ Undelivered(db, p) = {}
    BY <2>1 DEF Due, Heads, Undelivered
  <2>4. SessionOf(db, disk_, p) = db[p].session
    BY <2>1, <2>3, SessionOfTyped
  <2>5. kids \cap Delivered(db, SessionOf(db, disk_, p)) = {}
    BY <2>4 DEF Kids
  <2> HIDE DEF kids, new
  <2>6. p \in Exists(db) /\ Continues(db, disk_, p, ResumeRow(db, disk_, p, kids))
    BY <2>1, <2>3, <2>5, ResumeContinues
  <2> QED BY <2>1, <2>2, <2>6, ResumeIsQueued
<1>3. new \in [P -> QueuedRow]
  BY <1>2
<1>4. Reconciled(db, disk_, barred) = Insert(db, new)
  BY DEF Reconciled
<1> HIDE DEF P, new
<1> QED BY <1>2, <1>3, <1>4, InsertAppends, AppendKeepsTalk

LEMMA AutoRetriesKeepTalk ==
    ASSUME NEW db \in Ledger, NEW disk_ \in SUBSET Run, NEW closed_, TalkInv(db, disk_)
    PROVE  /\ FollowUpsRetried(db, disk_, closed_) \in Ledger
           /\ Appended(db, FollowUpsRetried(db, disk_, closed_), disk_)
           /\ TalkInv(FollowUpsRetried(db, disk_, closed_), disk_)
<1> DEFINE P == AutoRetries(db, disk_, closed_)
           new == [p \in P |-> RetryRow(db, disk_, p)]
<1>1. P \subseteq Run
  BY DEF AutoRetries
<1>2. ASSUME NEW p \in P
      PROVE  p \in Exists(db) /\ Continues(db, disk_, p, new[p])
  <2>1. p \in Run /\ RetryAllowed(db, disk_, closed_, p)
    BY <1>1 DEF AutoRetries
  <2> QED BY <2>1, RetryContinues
<1>3. new \in [P -> QueuedRow]
  BY <1>1, RetryIsQueued
<1>4. FollowUpsRetried(db, disk_, closed_) = Insert(db, new)
  BY DEF FollowUpsRetried
<1> HIDE DEF P, new
<1> QED BY <1>2, <1>3, <1>4, InsertAppends, AppendKeepsTalk

-----------------------------------------------------------------------------
(* Where an insert puts its rows.                                          *)

\* Every rank up to the size of a set of rows is taken: counted from its oldest
\* row, and from its newest.
LEMMA RankTaken ==
    ASSUME NEW S, S \subseteq Run, NEW c \in Nat, 1 <= c, c <= Cardinality(S)
    PROVE  /\ \E i \in S : Cardinality({u \in S : u <= i}) = c
           /\ \E i \in S : Cardinality({u \in S : u >= i}) = c
<1> DEFINE upto(i) == {u \in S : u <= i}
           from(i) == {u \in S : u >= i}
           below(i) == {u \in S : u < i}
           above(i) == {u \in S : i < u}
<1>1. S \subseteq Nat /\ IsFiniteSet(S) /\ Cardinality(S) \in Nat
  BY NobodyIsNoRun, RunsAreFinite
<1>2. S # {}
  BY <1>1, FS_EmptySet
<1>3. ASSUME NEW i \in S
      PROVE  /\ IsFiniteSet(upto(i)) /\ Cardinality(upto(i)) \in Nat
             /\ IsFiniteSet(from(i)) /\ Cardinality(from(i)) \in Nat
             /\ Cardinality(below(i)) = Cardinality(upto(i)) - 1
             /\ Cardinality(above(i)) = Cardinality(from(i)) - 1
  <2>0. i \in Nat /\ \A u \in S : u \in Nat
    BY <1>1
  <2>1. i \in upto(i) /\ below(i) = upto(i) \ {i}
    <3>1. \A u \in S : u < i <=> (u <= i /\ u # i)
      BY <2>0
    <3>2. i <= i
      BY <2>0
    <3>3. \A u : u \in below(i) <=> u \in upto(i) \ {i}
      BY <3>1
    <3>4. i \in upto(i)
      BY <3>2
    <3> HIDE DEF below, upto
    <3> QED BY <3>3, <3>4
  <2>2. i \in from(i) /\ above(i) = from(i) \ {i}
    <3>1. \A u \in S : i < u <=> (u >= i /\ u # i)
      BY <2>0
    <3>2. i >= i
      BY <2>0
    <3>3. \A u : u \in above(i) <=> u \in from(i) \ {i}
      BY <3>1
    <3>4. i \in from(i)
      BY <3>2
    <3> HIDE DEF above, from
    <3> QED BY <3>3, <3>4
  <2>3. /\ IsFiniteSet(upto(i)) /\ Cardinality(upto(i)) \in Nat
        /\ IsFiniteSet(from(i)) /\ Cardinality(from(i)) \in Nat
    BY RunsAreFinite
  <2> HIDE DEF upto, from, below, above
  <2>4. Cardinality(below(i)) = Cardinality(upto(i)) - 1
    BY <2>1, <2>3, FS_RemoveElement
  <2>5. Cardinality(above(i)) = Cardinality(from(i)) - 1
    BY <2>2, <2>3, FS_RemoveElement
  <2> QED BY <2>3, <2>4, <2>5
<1>4. \E i \in S : Cardinality(upto(i)) = c
  <2> DEFINE T == {i \in S : c <= Cardinality(upto(i))}
  <2>1. T # {}
    <3>1. PICK m \in S : \A k \in S : k <= m
      BY <1>2, NewestRow
    <3>2. upto(m) = S
      BY <3>1
    <3> QED BY <3>2
  <2>2. PICK i \in T : \A j \in T : i <= j
    BY <1>1, <2>1, LeastNumber
  <2>3. CASE Cardinality(upto(i)) = c
    BY <2>3
  <2>4. CASE Cardinality(upto(i)) # c
    <3>1. c <= Cardinality(below(i))
      <4>1. i \in S /\ c <= Cardinality(upto(i)) /\ Cardinality(upto(i)) # c
        BY <2>2, <2>4
      <4> HIDE DEF upto, below, T
      <4>2. Cardinality(below(i)) = Cardinality(upto(i)) - 1 /\ Cardinality(upto(i)) \in Nat
        BY <1>3, <4>1
      <4> QED BY <4>1, <4>2
    <3>2. below(i) # {}
      <4>1. Cardinality({}) = 0
        BY FS_EmptySet
      <4> HIDE DEF below
      <4> QED BY <3>1, <4>1
    <3>3. PICK m \in below(i) : \A k \in below(i) : k <= m
      BY <3>2, NewestRow
    <3>4. upto(m) = below(i)
      <4>1. \A u \in S : u \in Nat
        BY <1>1
      <4>2. m \in S /\ i \in S /\ m < i
        BY <2>2, <3>3
      <4>3. \A u \in S : u <= m => u < i
        BY <4>1, <4>2
      <4>4. \A u \in S : u < i => u <= m
        BY <3>3
      <4> QED BY <4>3, <4>4
    <3>5. m \in T /\ m < i /\ m \in Nat /\ i \in Nat
      BY <1>1, <3>1, <3>3, <3>4
    <3> QED BY <2>2, <3>5
  <2> QED BY <2>3, <2>4
<1>5. \E i \in S : Cardinality(from(i)) = c
  <2> DEFINE T == {i \in S : c <= Cardinality(from(i))}
  <2>1. T # {}
    <3>1. PICK m \in S : \A k \in S : m <= k
      BY <1>1, <1>2, LeastNumber
    <3>2. from(m) = S
      BY <1>1, <3>1
    <3> QED BY <3>2
  <2>2. PICK i \in T : \A j \in T : j <= i
    BY <2>1, NewestRow
  <2>3. CASE Cardinality(from(i)) = c
    BY <2>3
  <2>4. CASE Cardinality(from(i)) # c
    <3>1. c <= Cardinality(above(i))
      <4>1. i \in S /\ c <= Cardinality(from(i)) /\ Cardinality(from(i)) # c
        BY <2>2, <2>4
      <4> HIDE DEF from, above, T
      <4>2. Cardinality(above(i)) = Cardinality(from(i)) - 1 /\ Cardinality(from(i)) \in Nat
        BY <1>3, <4>1
      <4> QED BY <4>1, <4>2
    <3>2. above(i) # {}
      <4>1. Cardinality({}) = 0
        BY FS_EmptySet
      <4> HIDE DEF above
      <4> QED BY <3>1, <4>1
    <3>3. PICK m \in above(i) : \A k \in above(i) : m <= k
      BY <1>1, <3>2, LeastNumber
    <3>4. from(m) = above(i)
      <4>1. \A u \in S : u \in Nat
        BY <1>1
      <4>2. m \in S /\ i \in S /\ i < m
        BY <2>2, <3>3
      <4>3. \A u \in S : u >= m => i < u
        BY <4>1, <4>2
      <4>4. \A u \in S : i < u => u >= m
        BY <3>3, <4>1, <4>2
      <4> QED BY <4>3, <4>4
    <3>5. m \in T /\ i < m /\ m \in Nat /\ i \in Nat
      BY <1>1, <3>1, <3>3, <3>4
    <3> QED BY <2>2, <3>5
  <2> QED BY <2>3, <2>4
<1> QED BY <1>4, <1>5

\* The mirror image of RankFromBelow.
LEMMA RankFromAbove ==
    ASSUME NEW S, S \subseteq Run, NEW i \in S, NEW j \in S,
           Cardinality({u \in S : u >= i}) = Cardinality({u \in S : u >= j})
    PROVE  i = j
<1> DEFINE from(m) == {u \in S : u >= m}
<1>1. \A m \in S : m \in Nat
  BY NobodyIsNoRun
<1>2. ASSUME NEW m \in S, NEW n \in S, m < n PROVE Cardinality(from(m)) # Cardinality(from(n))
  <2>1. from(n) \in SUBSET from(m)
    BY <1>1, <1>2
  <2>2. m \in from(m) /\ m \notin from(n)
    BY <1>1, <1>2
  <2>3. IsFiniteSet(from(m))
    BY RunsAreFinite
  <2> HIDE DEF from
  <2> QED BY <2>1, <2>2, <2>3, FS_Subset
<1>3. i \in Nat /\ j \in Nat
  BY <1>1
<1>4. ~(i < j) /\ ~(j < i)
  BY <1>2
<1> QED BY <1>3, <1>4

\* An insert that leaves room has inserted a row for every key.
LEMMA InsertPlacesAll ==
    ASSUME NEW db \in Ledger, NEW keys, keys \subseteq Run, NEW new \in [keys -> QueuedRow],
           Unused(Insert(db, new)) # {}, NEW k \in keys
    PROVE  \E i \in New(db, Insert(db, new)) : Insert(db, new)[i] = new[k]
<1> DEFINE res == Insert(db, new)
           U == Unused(db)
           rank(h) == Cardinality({q \in keys : q >= h})
<1>1. res \in Ledger /\ Exists(db) \subseteq Exists(res)
  BY InsertGrows DEF Grown, Exists
<1>2. U \subseteq Run /\ Unused(res) \subseteq U /\ DOMAIN new = keys
  BY <1>1 DEF Unused
<1>3. U # {} /\ Cardinality(U) \in Nat /\ IsFiniteSet(U)
  BY <1>2, RunsAreFinite
<1>4. Cardinality(U) # 0
  BY <1>3, FS_EmptySet
\* At a place taken by h stands the row of h.
<1>5. ASSUME NEW i \in Run, NEW h \in keys, PlacedAt(db, keys, i, h)
      PROVE  i \in New(db, res) /\ res[i] = new[h]
  <2>1. ASSUME NEW m \in keys, PlacedAt(db, keys, i, m) PROVE m = h
    <3>1. Cardinality({q \in keys : q >= m}) = Cardinality({q \in keys : q >= h})
      BY <1>5, <2>1 DEF PlacedAt
    <3> QED BY <3>1, RankFromAbove
  <2>2. (CHOOSE m \in keys : PlacedAt(db, keys, i, m)) = h
    BY <1>5, <2>1
  <2>3. res[i] = new[h]
    BY <1>2, <1>5, <2>2 DEF Insert
  <2>4. i \notin Exists(db)
    BY <1>5, <1>2, NobodyIsNoRun DEF PlacedAt, Unused
  <2> QED BY <2>3, <2>4 DEF New, Exists, QueuedRow
\* Were k past the end, the last place would be taken.
<1>6. rank(k) <= Cardinality(U)
  <2> SUFFICES ASSUME ~(rank(k) <= Cardinality(U)) PROVE FALSE
    OBVIOUS
  <2>1. rank(k) \in Nat /\ rank(k) <= Cardinality(keys) /\ Cardinality(keys) \in Nat
    <3>1. {q \in keys : q >= k} \in SUBSET keys /\ IsFiniteSet(keys) /\ Cardinality(keys) \in Nat
      BY RunsAreFinite
    <3>2. {q \in keys : q >= k} \subseteq Run
      OBVIOUS
    <3> QED BY <3>1, <3>2, RunsAreFinite, FS_Subset
  <2>2. PICK h \in keys : rank(h) = Cardinality(U)
    <3>1. 1 <= Cardinality(U) /\ Cardinality(U) <= Cardinality(keys)
      BY <1>3, <1>4, <2>1
    <3>2. Cardinality(U) \in Nat
      BY <1>3
    <3>3. \E h \in keys : Cardinality({q \in keys : q >= h}) = Cardinality(U)
      <4> HIDE DEF U
      <4> QED BY <3>1, <3>2, RankTaken
    <3> QED BY <3>3
  <2>3. PICK i \in U : \A j \in U : j <= i
    BY <1>2, <1>3, NewestRow
  <2>4. {j \in U : j <= i} = U
    BY <2>3
  <2>5. PlacedAt(db, keys, i, h)
    BY <2>2, <2>3, <2>4 DEF PlacedAt
  <2>6. i \in Exists(res)
    BY <1>2, <1>5, <2>3, <2>5 DEF New
  <2>7. PICK j \in Unused(res) : TRUE
    OBVIOUS
  <2>8. i < j /\ j <= i /\ i \in Nat /\ j \in Nat
    BY <1>2, <2>3, <2>6, <2>7, NobodyIsNoRun DEF Unused
  <2> QED BY <2>8
<1>7. rank(k) \in Nat /\ 1 <= rank(k)
  <2>1. k \in {q \in keys : q >= k} /\ {q \in keys : q >= k} \subseteq Run
    BY NobodyIsNoRun
  <2>2. IsFiniteSet({q \in keys : q >= k}) /\ rank(k) \in Nat
    BY <2>1, RunsAreFinite
  <2>3. rank(k) # 0
    BY <2>1, <2>2, FS_EmptySet
  <2> QED BY <2>2, <2>3
<1>8. PICK i \in U : Cardinality({u \in U : u <= i}) = rank(k)
  <2>1. U \subseteq Run /\ rank(k) \in Nat /\ 1 <= rank(k) /\ rank(k) <= Cardinality(U)
    BY <1>2, <1>6, <1>7
  <2> HIDE DEF U, rank
  <2> QED BY <2>1, RankTaken
<1>9. PlacedAt(db, keys, i, k)
  BY <1>8 DEF PlacedAt
<1> QED BY <1>2, <1>5, <1>8, <1>9

-----------------------------------------------------------------------------
(* The handlers.                                                           *)

Talk == TalkInv(runs, saved)

\* A change of status says nothing new of a conversation.
LEMMA StatusKeepsTalk ==
    ASSUME NEW db \in Ledger, NEW disk_ \in SUBSET Run, TalkInv(db, disk_),
           NEW S, S \subseteq Nonterminal(db), NEW status \in Status \ {"absent"}
    PROVE  SetStatus(db, S, status) \in Ledger /\ TalkInv(SetStatus(db, S, status), disk_)
<1> DEFINE db2 == SetStatus(db, S, status)
<1>1. S \in SUBSET Run /\ S \cap Finished(db) = {} /\ S \subseteq Exists(db) /\ status \in Status
  BY DEF Nonterminal, Pending, Running, Finished, Terminal, Exists
<1>2. db2 \in Ledger /\ \A r \in Run \ S : db2[r] = db[r]
  <2>1. db \in Ledger
    OBVIOUS
  <2> HIDE DEF db2
  <2>2. /\ SetStatus(db, S, status) \in Ledger
        /\ \A r \in Run \ S : SetStatus(db, S, status)[r] = db[r]
    BY ONLY <1>1, <2>1, SetStatusSets
  <2> QED BY <2>2 DEF db2
<1>3. ASSUME NEW r \in Run
      PROVE  /\ db2[r].parent = db[r].parent
             /\ db2[r].session = db[r].session /\ db2[r].record = db[r].record
             /\ db2[r].retryOf = db[r].retryOf /\ db2[r].resumeOf = db[r].resumeOf
             /\ db2[r].completions = db[r].completions
             /\ db2[r].submitted = db[r].submitted
             /\ db2[r].status = IF r \in S THEN status ELSE db[r].status
  <2>1. db[r] \in Row
    OBVIOUS
  <2> QED BY <2>1 DEF SetStatus, Row
<1> HIDE DEF db2
<1>4. Exists(db2) = Exists(db)
  BY <1>1, <1>3 DEF Exists
<1>5. \A r \in Finished(db) : db2[r] = db[r]
  BY <1>1, <1>2 DEF Finished
<1>6. ASSUME NEW r \in Exists(db)
      PROVE  /\ SessionOf(db2, disk_, r) = SessionOf(db, disk_, r)
             /\ db[r].session = Nobody <=> db[r].record = Nobody
             /\ db[r].submitted => db[r].session # Nobody
  <2>1. r \in Run
    BY DEF Exists
  <2> QED BY <1>3, <2>1 DEF SessionOf, TalkInv, SessionsAreSaved
<1>7. Exists(db) \subseteq Run
  BY DEF Exists
<1>8. Kept(db, db2, disk_)
  BY <1>3, <1>4, <1>5, <1>6, <1>7 DEF Kept
<1> QED BY <1>2, <1>8, KeptKeepsTalk DEF db2

LEMMA PumpKeepsTalk ==
    ASSUME NEW db \in Ledger, TypeOK, TalkInv(db, saved), NEW turns, turns \subseteq Running(db),
           Pumped(db, turns)
    PROVE  TalkInv(runs', saved)
<1> DEFINE claimed == IF daemon = "stopping" THEN {} ELSE Claimable(db, turns)
<1>1. runs' = SetStatus(db, claimed, "running")
  BY DEF Pumped
<1>2. claimed \subseteq Nonterminal(db)
  BY DEF Claimable, Nonterminal
<1>3. "running" \in Status \ {"absent"} /\ saved \in SUBSET Run
  BY DEF Status, TypeOK
<1> HIDE DEF claimed
<1> QED BY <1>1, <1>2, <1>3, StatusKeepsTalk

LEMMA SettleKeepsTalk ==
    ASSUME NEW db \in Ledger, TypeOK, TalkInv(db, saved), NEW turns, turns \subseteq Running(db),
           Settled(db, turns)
    PROVE  TalkInv(runs', saved)
<1> DEFINE db2 == IF daemon = "stopping" THEN db ELSE Reconciled(db, saved, Barred)
<1>1. Pumped(db2, turns)
  BY DEF Settled
<1>2. saved \in SUBSET Run /\ Barred \in SUBSET Run
  BY DEF TypeOK, Barred
<1>3. /\ Reconciled(db, saved, Barred) \in Ledger
      /\ TalkInv(Reconciled(db, saved, Barred), saved)
      /\ Running(Reconciled(db, saved, Barred)) = Running(db)
  BY <1>2, ReconcileKeepsTalk, ReconcileGrows, GrownKeeps
<1>4. db2 \in Ledger /\ TalkInv(db2, saved) /\ turns \subseteq Running(db2)
  BY <1>3
<1> HIDE DEF db2
<1> QED BY <1>1, <1>4, PumpKeepsTalk

\* Rows end, and a tail follows.
LEMMA EndingKeepsTalk ==
    ASSUME TypeOK, Talk, NEW S, S \subseteq Nonterminal(runs), NEW status \in Terminal,
           NEW turns, turns \subseteq Running(runs) \ S,
           Settled(SetStatus(runs, S, status), turns)
    PROVE  TalkInv(runs', saved)
<1> DEFINE db == SetStatus(runs, S, status)
<1>1. runs \in Ledger /\ saved \in SUBSET Run /\ status \in Status \ {"absent"}
  BY DEF TypeOK, Terminal, Status
<1>2. db \in Ledger /\ TalkInv(db, saved)
  BY <1>1, StatusKeepsTalk DEF Talk
<1>3. turns \subseteq Running(db)
  BY DEF SetStatus, Running
<1>4. Settled(db, turns)
  OBVIOUS
<1> HIDE DEF db
<1> QED BY <1>2, <1>3, <1>4, SettleKeepsTalk

\* A request adds rows, and a pump follows.
LEMMA RequestKeepsTalk ==
    ASSUME IInv, Talk, NEW keys, NEW new \in [keys -> QueuedRow],
           \A k \in keys : \/ Opens(new[k])
                           \/ k \in Exists(runs) /\ Continues(runs, saved, k, new[k]),
           Pumped(Insert(runs, new), live)
    PROVE  TalkInv(runs', saved)
<1> DEFINE db == Insert(runs, new)
<1>1. TypeOK /\ runs \in Ledger /\ saved \in SUBSET Run
  BY DEF IInv, TypeOK
<1>2. db \in Ledger /\ TalkInv(db, saved)
  BY <1>1, InsertAppends, AppendKeepsTalk DEF Talk
<1>3. Running(db) = Running(runs)
  BY <1>1, InsertGrows, GrownKeeps
<1>4. live \subseteq Running(db) /\ Pumped(db, live)
  BY <1>3 DEF IInv, LiveTurnIsRunning
<1> HIDE DEF db
<1> QED BY <1>1, <1>2, <1>4, PumpKeepsTalk

LEMMA LaunchKeepsTalk ==
    ASSUME IInv, Talk, NEW parent \in RunOrNobody, Launch(parent)
    PROVE  Talk'
<1> DEFINE row == [Blank EXCEPT !.status = "pending", !.parent = parent,
                                !.depth = DepthUnder(runs, parent)]
           new == [k \in {Nobody} |-> row]
<1>1. runs \in Ledger
  BY DEF IInv, TypeOK
<1>2. DepthUnder(runs, parent) \in 0..MaxDepth
  BY <1>1, DepthIsPositive, LedgerAssumption DEF Launch
<1>3. row \in QueuedRow /\ Opens(row)
  BY <1>2 DEF Blank, QueuedRow, Row, Status, RunOrNobody, Opens, Predecessors
<1>4. new \in [{Nobody} -> QueuedRow] /\ \A k \in {Nobody} : Opens(new[k])
  BY <1>3
<1>5. Pumped(Insert(runs, new), live) /\ saved' = saved
  BY DEF Launch, disk
<1> HIDE DEF new
<1> QED BY <1>4, <1>5, RequestKeepsTalk DEF Talk

LEMMA RetryKeepsTalk ==
    ASSUME IInv, Talk, NEW r \in Run, Retry(r)
    PROVE  Talk'
<1> DEFINE new == [k \in {r} |-> RetryRow(runs, saved, r)]
<1>1. runs \in Ledger /\ saved \in SUBSET Run
  BY DEF IInv, TypeOK
<1>2. new \in [{r} -> QueuedRow]
  BY <1>1, RetryIsQueued
<1>3. r \in Exists(runs) /\ Continues(runs, saved, r, new[r])
  BY <1>1, RetryContinues DEF Retry
<1>4. Pumped(Insert(runs, new), live) /\ saved' = saved
  BY DEF Retry, disk
<1> HIDE DEF new
<1> QED BY <1>2, <1>3, <1>4, RequestKeepsTalk DEF Talk

LEMMA ResumeKeepsTalk ==
    ASSUME IInv, Talk, NEW r \in Run, Resume(r)
    PROVE  Talk'
<1> DEFINE carried == Undelivered(runs, r)
           new == [k \in {r} |-> ResumeRow(runs, saved, r, carried)]
<1>1. runs \in Ledger /\ saved \in SUBSET Run
  BY DEF IInv, TypeOK
<1>2. carried \in SUBSET Run
  BY <1>1 DEF Undelivered, Row
<1>3. new \in [{r} -> QueuedRow]
  BY <1>1, <1>2, ResumeIsQueued
<1>4. r \in Exists(runs) /\ Continues(runs, saved, r, ResumeRow(runs, saved, r, carried))
  BY <1>1, ResumeContinues DEF Resume
<1>5. Pumped(Insert(runs, new), live) /\ saved' = saved
  BY DEF Resume, disk
<1>6. new[r] = ResumeRow(runs, saved, r, carried)
  OBVIOUS
<1> HIDE DEF new, carried
<1> QED BY <1>3, <1>4, <1>5, <1>6, RequestKeepsTalk DEF Talk

LEMMA IdentifyKeepsTalk ==
    ASSUME IInv, Talk, NEW r \in Run, Identify(r)
    PROVE  Talk'
<1>1. runs \in Ledger /\ saved \in SUBSET Run /\ runs[r] \in Row
  BY DEF IInv, TypeOK
<1>2. r \in Exists(runs) /\ r \notin Finished(runs)
  BY DEF Identify, IInv, LiveTurnIsRunning, Running, Exists, Finished, Terminal
<1> DEFINE s == SessionOf(runs, saved, r)
<1>3. s \in RunOrNobody /\ s # Nobody /\ r # Nobody
  BY <1>1, NobodyIsNoRun, SessionOfTyped DEF Identify, SessionOf
<1> DEFINE row == [runs[r] EXCEPT !.session = s, !.record = r]
<1>4. /\ row \in Row /\ row.status = runs[r].status /\ row.session = s /\ row.record = r
      /\ row.parent = runs[r].parent /\ row.retryOf = runs[r].retryOf
      /\ row.resumeOf = runs[r].resumeOf /\ row.completions = runs[r].completions
      /\ row.submitted = runs[r].submitted
  BY <1>1, <1>3 DEF Row, RunOrNobody
<1>5. runs' = [runs EXCEPT ![r] = row] /\ saved' = saved
  BY <1>1 DEF Identify, disk
<1> HIDE DEF row
<1>6. runs' \in Ledger /\ runs'[r] = row /\ \A q \in Run \ {r} : runs'[q] = runs[q]
  BY <1>1, <1>4, <1>5
<1>7. Exists(runs') = Exists(runs)
  BY <1>4, <1>6 DEF Exists
<1>8. \A q \in Finished(runs) : runs'[q] = runs[q]
  BY <1>2, <1>6 DEF Finished
<1>9. SessionOf(runs', saved, r) = s
  BY <1>3, <1>4, <1>6 DEF SessionOf
<1>10. ASSUME NEW q \in Exists(runs)
       PROVE /\ runs'[q].parent = runs[q].parent
             /\ runs'[q].retryOf = runs[q].retryOf /\ runs'[q].resumeOf = runs[q].resumeOf
             /\ runs'[q].completions = runs[q].completions
             /\ runs'[q].session \in {runs[q].session, SessionOf(runs, saved, q)}
             /\ runs'[q].record \in {runs[q].record, q}
             /\ SessionOf(runs', saved, q) = SessionOf(runs, saved, q)
             /\ runs'[q].session = Nobody <=> runs'[q].record = Nobody
             /\ runs[q].submitted => runs'[q].submitted
             /\ runs'[q].submitted => runs'[q].session # Nobody
  <2>1. q \in Run
    BY DEF Exists
  <2>2. CASE q = r
    BY <1>3, <1>4, <1>6, <1>9, <2>2
  <2>3. CASE q # r
    <3>1. runs'[q] = runs[q]
      BY <1>6, <2>1, <2>3
    <3> QED BY <3>1 DEF SessionOf, Talk, TalkInv, SessionsAreSaved
  <2> QED BY <2>2, <2>3
<1>11. Kept(runs, runs', saved)
  BY <1>7, <1>8, <1>10 DEF Kept
<1> QED BY <1>1, <1>5, <1>6, <1>11, KeptKeepsTalk DEF Talk

LEMMA SubmitKeepsTalk ==
    ASSUME IInv, Talk, NEW r \in Run, Submit(r)
    PROVE  Talk'
<1>1. runs \in Ledger /\ saved \in SUBSET Run /\ runs[r] \in Row
  BY DEF IInv, TypeOK
<1>2. r \in Exists(runs) /\ r \notin Finished(runs) /\ runs[r].session # Nobody
  BY DEF Submit, Identified, IInv, LiveTurnIsRunning, Running, Exists, Finished, Terminal
<1> DEFINE row == [runs[r] EXCEPT !.submitted = TRUE]
<1>3. /\ row \in Row /\ row.status = runs[r].status /\ row.session = runs[r].session
      /\ row.record = runs[r].record
      /\ row.parent = runs[r].parent /\ row.retryOf = runs[r].retryOf
      /\ row.resumeOf = runs[r].resumeOf /\ row.completions = runs[r].completions
      /\ row.submitted
  BY <1>1 DEF Row
<1>4. runs' = [runs EXCEPT ![r] = row] /\ saved' = saved
  BY <1>1 DEF Submit, disk
<1> HIDE DEF row
<1>5. runs' \in Ledger /\ runs'[r] = row /\ \A q \in Run \ {r} : runs'[q] = runs[q]
  BY <1>1, <1>3, <1>4
<1>6. Exists(runs') = Exists(runs)
  BY <1>3, <1>5 DEF Exists
<1>7. \A q \in Finished(runs) : runs'[q] = runs[q]
  BY <1>2, <1>5 DEF Finished
<1>8. ASSUME NEW q \in Exists(runs)
       PROVE /\ runs'[q].parent = runs[q].parent
             /\ runs'[q].retryOf = runs[q].retryOf /\ runs'[q].resumeOf = runs[q].resumeOf
             /\ runs'[q].completions = runs[q].completions
             /\ runs'[q].session = runs[q].session
             /\ runs'[q].record = runs[q].record
             /\ runs[q].session = Nobody <=> runs[q].record = Nobody
             /\ runs[q].submitted => runs'[q].submitted
             /\ runs'[q].submitted => runs[q].session # Nobody
  <2>1. q \in Run
    BY DEF Exists
  <2>2. /\ runs[q].session = Nobody <=> runs[q].record = Nobody
        /\ runs[q].submitted => runs[q].session # Nobody
    BY DEF Talk, TalkInv, SessionsAreSaved
  <2> QED BY <1>2, <1>3, <1>5, <2>1, <2>2
<1>9. \A q \in Exists(runs) : SessionOf(runs', saved, q) = SessionOf(runs, saved, q)
  BY <1>8 DEF SessionOf
<1>10. Kept(runs, runs', saved)
  BY <1>6, <1>7, <1>8, <1>9 DEF Kept
<1> QED BY <1>1, <1>4, <1>5, <1>10, KeptKeepsTalk DEF Talk

LEMMA SaveRecordKeepsTalk ==
    ASSUME IInv, Talk, NEW r \in Run, SaveRecord(r)
    PROVE  Talk'
<1>1. runs \in Ledger /\ saved \in SUBSET Run
  BY DEF IInv, TypeOK
<1>2. r \in Running(runs) /\ r \notin saved /\ runs[r].session = Nobody
  BY DEF SaveRecord, IInv, LiveTurnIsRunning
<1>3. saved' = saved \cup {r} /\ runs' = runs
  BY DEF SaveRecord
<1> QED BY <1>1, <1>2, <1>3, SavingKeepsTalk DEF Talk

LEMMA TurnsKeepTalk ==
    ASSUME IInv, Talk, Turns
    PROVE  Talk'
<1>1. TypeOK /\ live \subseteq Running(runs) /\ Running(runs) \subseteq Nonterminal(runs)
  BY DEF IInv, LiveTurnIsRunning, Nonterminal
<1>2. ASSUME NEW r \in Run, Deadline(r) PROVE Talk'
  BY <1>2 DEF Deadline, disk, Talk
<1>3. ASSUME NEW r \in Run, FinishThrows(r) PROVE Talk'
  <2>1. Settled(runs, live \ {r}) /\ saved' = saved /\ live \ {r} \subseteq Running(runs)
    BY <1>1, <1>3 DEF FinishThrows, disk
  <2>2. runs \in Ledger /\ TalkInv(runs, saved)
    BY <1>1 DEF TypeOK, Talk
  <2> QED BY <1>1, <2>1, <2>2, SettleKeepsTalk DEF Talk
<1>4. ASSUME NEW r \in Run, NEW reported \in {"completed", "failed", "cancelled"},
             TurnEnds(r, reported)
      PROVE  Talk'
  <2>1. Outcome(intent[r], reported) \in Terminal
    BY <1>1 DEF Outcome, Intent, Terminal, TypeOK
  <2>2. /\ Settled(SetStatus(runs, {r}, Outcome(intent[r], reported)), live \ {r})
        /\ saved' = saved /\ {r} \subseteq Nonterminal(runs)
        /\ live \ {r} \subseteq Running(runs) \ {r}
    BY <1>1, <1>4 DEF TurnEnds, disk
  <2> HIDE DEF Outcome
  <2> QED BY <1>1, <2>1, <2>2, EndingKeepsTalk DEF Talk
<1> QED BY <1>2, <1>3, <1>4, SaveRecordKeepsTalk, IdentifyKeepsTalk, SubmitKeepsTalk DEF Turns

LEMMA TimerKeepsTalk ==
    ASSUME IInv, Talk, Timer
    PROVE  Talk'
<1>1. /\ TypeOK /\ runs \in Ledger /\ saved \in SUBSET Run /\ TalkInv(runs, saved)
      /\ live \subseteq Running(runs)
  BY DEF IInv, TypeOK, LiveTurnIsRunning, Talk
<1>2. PICK stale \in SUBSET Orphans : Tick(stale) \/ \E bad \in stale : SweepThrows(stale, bad)
  BY DEF Timer
<1>3. stale \subseteq Nonterminal(runs) /\ live \subseteq Running(runs) \ stale
      /\ "lost" \in Terminal /\ "lost" \in Status \ {"absent"}
  BY <1>1 DEF Orphans, Nonterminal, Terminal, Status
<1>4. CASE Tick(stale)
  <2>1. saved' = saved
    BY <1>4 DEF Tick, disk
  <2>2. CASE stale = {}
    BY <1>1, <1>4, <2>1, <2>2, PumpKeepsTalk DEF Tick, Talk
  <2>3. CASE stale # {}
    <3>1. Settled(SetStatus(runs, stale, "lost"), live)
      BY <1>4, <2>3 DEF Tick
    <3> QED BY <1>1, <1>3, <2>1, <3>1, EndingKeepsTalk DEF Talk
  <2> QED BY <2>2, <2>3
<1>5. ASSUME NEW bad \in stale, SweepThrows(stale, bad) PROVE Talk'
  <2> DEFINE S == {r \in stale : r < bad}
  <2>1. saved' = saved /\ runs' = SetStatus(runs, S, "lost") /\ S \subseteq Nonterminal(runs)
    BY <1>3, <1>5 DEF SweepThrows, disk
  <2> HIDE DEF S
  <2> QED BY <1>1, <1>3, <2>1, StatusKeepsTalk DEF Talk
<1> QED BY <1>2, <1>4, <1>5

LEMMA StartKeepsTalk ==
    ASSUME IInv, Talk, Start
    PROVE  Talk'
<1> DEFINE db1 == SetStatus(runs, Running(runs), "interrupted")
           db2 == FollowUpsRetried(db1, saved, closed)
<1>1. /\ TypeOK /\ runs \in Ledger /\ saved \in SUBSET Run /\ TalkInv(runs, saved)
      /\ live = {}
  BY DEF IInv, TypeOK, Talk, Start
<1>2. /\ Running(runs) \subseteq Nonterminal(runs)
      /\ "interrupted" \in Status \ {"absent"}
  BY DEF Nonterminal, Status, Terminal
<1>3. Settled(db2, live) /\ saved' = saved
  BY DEF Start, disk, Barred
<1> HIDE DEF db2
<1>4. db1 \in Ledger /\ TalkInv(db1, saved)
  BY <1>1, <1>2, StatusKeepsTalk
<1> HIDE DEF db1
<1>5. db2 \in Ledger /\ TalkInv(db2, saved)
  BY <1>1, <1>4, AutoRetriesKeepTalk DEF db2
<1>6. live \subseteq Running(db2)
  BY <1>1
<1> QED BY <1>1, <1>3, <1>5, <1>6, SettleKeepsTalk DEF Talk

LEMMA NextKeepsTalk ==
    ASSUME IInv, Talk, Next
    PROVE  Talk'
<1>1. TypeOK /\ live \subseteq Running(runs)
  BY DEF IInv, LiveTurnIsRunning
<1>2. ASSUME NEW parent \in {Nobody} \cup {runs[r].session : r \in Exists(runs)},
             Launch(parent)
      PROVE  Talk'
  <2>1. parent \in RunOrNobody
    BY <1>1 DEF TypeOK, Row, Exists, RunOrNobody
  <2> QED BY <1>2, <2>1, LaunchKeepsTalk
<1>3. ASSUME NEW r \in Run, CancelQueued(r) PROVE Talk'
  <2>1. /\ {r} \subseteq Nonterminal(runs) /\ "cancelled" \in Terminal
        /\ live \subseteq Running(runs) \ {r} /\ saved' = saved
        /\ Settled(SetStatus(runs, {r}, "cancelled"), live)
    BY <1>1, <1>3 DEF CancelQueued, Nonterminal, Terminal, disk
  <2> QED BY <1>1, <2>1, EndingKeepsTalk DEF Talk
<1>4. ASSUME NEW r \in Run, CancelLive(r) PROVE Talk'
  BY <1>4 DEF CancelLive, disk, Talk
<1>5. CASE Requests
  BY <1>2, <1>3, <1>4, <1>5, RetryKeepsTalk, ResumeKeepsTalk DEF Requests
<1>6. CASE Process
  <2>1. CASE Stop \/ Exit \/ Crash \/ \E s \in Run : RemoveCwd(s) \/ CloseConversation(s)
    BY <2>1 DEF Stop, Exit, Crash, RemoveCwd, CloseConversation, disk, Talk
  <2> QED BY <1>6, <2>1, StartKeepsTalk DEF Process
<1> QED BY <1>5, <1>6, TurnsKeepTalk, TimerKeepsTalk DEF Next

-----------------------------------------------------------------------------
(* What the invariant gives, property by property.                         *)

LEMMA OneTurnHolds == ASSUME TypeOK, Talk PROVE OneTurnPerConversation
<1>1. runs \in Ledger /\ saved \in SUBSET Run /\ Nonterminal(runs) \subseteq Run
      /\ Nonterminal(runs) \subseteq Exists(runs)
  BY DEF TypeOK, Nonterminal, Pending, Running, Exists
\* The older of the two was continued, so it has ended.
<1>2. ASSUME NEW q \in Nonterminal(runs), NEW r \in Nonterminal(runs), q < r,
             SessionOf(runs, saved, r) # Nobody,
             SessionOf(runs, saved, q) = SessionOf(runs, saved, r)
      PROVE  FALSE
  <2>1. Successors(runs, q) # {}
    BY <1>1, <1>2 DEF Talk, TalkInv, TalkGoesOn
  <2>2. q \in Finished(runs)
    BY <1>1, <2>1, ContinuedHaveEnded DEF Talk, TalkInv
  <2> QED BY <2>2 DEF Finished, Nonterminal, Pending, Running, Terminal
<1>3. ASSUME NEW q \in Nonterminal(runs), NEW r \in Nonterminal(runs), q # r
      PROVE  q < r \/ r < q
  BY <1>1, <1>3, NobodyIsNoRun
<1> QED BY <1>2, <1>3 DEF OneTurnPerConversation

LEMMA LinearHolds == ASSUME TypeOK, Talk PROVE ConversationIsLinear
<1>1. runs \in Ledger /\ saved \in SUBSET Run /\ Exists(runs) \subseteq Run
  BY DEF TypeOK, Exists
<1>2. \A r \in Exists(runs) : \A p, q \in Successors(runs, r) : p = q
  BY <1>1 DEF Talk, TalkInv, Unbranched
<1>3. ASSUME NEW r \in Exists(runs), runs[r].session # Nobody, r \notin Heads(runs)
      PROVE  \E q \in Successors(runs, r) : runs[q].session = runs[r].session
  <2>1. PICK q \in Conversation(runs, runs[r].session) : ~(q <= r)
    BY <1>3 DEF Heads
  <2>2. q \in Exists(runs) /\ runs[q].session = runs[r].session /\ r < q
    BY <1>1, <2>1, NobodyIsNoRun DEF Conversation
  <2>3. /\ SessionOf(runs, saved, r) = runs[r].session
        /\ SessionOf(runs, saved, q) = runs[r].session
    BY <1>1, <1>3, <2>2, SessionOfTyped
  <2> QED BY <1>3, <2>2, <2>3 DEF Talk, TalkInv, TalkGoesOn
<1> QED BY <1>2, <1>3 DEF ConversationIsLinear

LEMMA TurnIntentHeld == ASSUME TypeOK, Talk PROVE TurnIntentHolds
<1> SUFFICES ASSUME NEW r \in Nonterminal(runs), runs[r].record # r
             PROVE  TurnIntentAccepts(runs, r)
  BY DEF TurnIntentHolds
<1>1. /\ runs \in Ledger /\ saved \in SUBSET Run /\ r \in Exists(runs)
      /\ PredecessorsHold(runs, saved) /\ SessionsAreSaved(runs, saved)
  BY DEF TypeOK, Nonterminal, Pending, Running, Exists, Talk, TalkInv
<1>2. ASSUME NEW p \in Predecessors(runs[r])
      PROVE  /\ runs[p].session # Nobody => runs[r].session = runs[p].session
             /\ runs[p].record # Nobody => runs[r].record = runs[p].record
  <2>1. p \in Exists(runs) /\ p \in Run
    BY <1>1 DEF PredecessorsHold, Exists
  <2>2. /\ SessionOf(runs, saved, p) # Nobody =>
             runs[r].session = SessionOf(runs, saved, p)
        /\ runs[r].record = RecordOf(runs, saved, p)
    BY <1>1 DEF PredecessorsHold
  <2>3. runs[p].session # Nobody => SessionOf(runs, saved, p) = runs[p].session
    BY <1>1, <2>1, SessionOfTyped
  <2>4. runs[p].record # Nobody => RecordOf(runs, saved, p) = runs[p].record
    BY <1>1, <2>1 DEF RecordOf, SessionsAreSaved
  <2> QED BY <2>2, <2>3, <2>4
<1>3. /\ runs[r].retryOf = Nobody \/ runs[r].resumeOf = Nobody
      /\ runs[r].retryOf # Nobody => runs[runs[r].retryOf].status \in Retryable
      /\ runs[r].resumeOf # Nobody => runs[runs[r].resumeOf].status \in Resumable
      /\ runs[r].resumeOf # Nobody => runs[r].session # Nobody
  BY <1>1 DEF PredecessorsHold
<1>4. runs[r].session = Nobody <=> runs[r].record = Nobody
  BY <1>1 DEF SessionsAreSaved
<1>5. /\ runs[r].retryOf # Nobody => runs[r].retryOf \in Predecessors(runs[r])
      /\ runs[r].resumeOf # Nobody => runs[r].resumeOf \in Predecessors(runs[r])
  BY DEF Predecessors
<1> QED BY <1>2, <1>3, <1>4, <1>5 DEF TurnIntentAccepts

LEMMA RetryKeeps == ASSUME TypeOK, Talk PROVE RetryKeepsConversation
<1> SUFFICES ASSUME NEW q \in Exists(runs), NEW p \in Run, runs[q].retryOf = p
             PROVE  IF runs[p].session # Nobody THEN runs[q].session = runs[p].session
                    ELSE p \in saved => runs[q].session = p
  BY DEF RetryKeepsConversation
<1>1. p # Nobody /\ p \in Predecessors(runs[q])
  BY NobodyIsNoRun DEF Predecessors
<1>2. SessionOf(runs, saved, p) # Nobody => runs[q].session = SessionOf(runs, saved, p)
  BY <1>1 DEF Talk, TalkInv, PredecessorsHold
<1> QED BY <1>1, <1>2 DEF SessionOf

LEMMA EvidenceHolds == ASSUME TypeOK, Talk PROVE EvidenceCarried
<1> SUFFICES ASSUME NEW q \in Exists(runs), NEW p \in Run,
                    p \in {runs[q].retryOf, runs[q].resumeOf}
             PROVE  Undelivered(runs, p) \subseteq runs[q].completions
  BY DEF EvidenceCarried
<1>1. p \in Predecessors(runs[q])
  BY NobodyIsNoRun DEF Predecessors
<1> QED BY <1>1 DEF Talk, TalkInv, PredecessorsHold

LEMMA NoDuplicateHolds == ASSUME TypeOK, Talk PROVE NoDuplicateDelivery
<1> SUFFICES ASSUME NEW r \in Exists(runs), NEW q \in Conversation(runs, runs[r].session),
                    q < r, runs[r].session # Nobody, runs[q].submitted,
                    NEW c \in runs[q].completions \cap runs[r].completions
             PROVE  \E x \in Conversation(runs, runs[r].session) :
                      /\ q < x /\ x <= r /\ c \in runs[x].completions
                      /\ runs[x].retryOf # Nobody /\ runs[runs[x].retryOf].submitted
  BY DEF NoDuplicateDelivery
<1>1. /\ runs \in Ledger /\ saved \in SUBSET Run /\ q \in Exists(runs) /\ q \in Run /\ r \in Run
      /\ runs[q].session = runs[r].session
  BY DEF TypeOK, Exists, Conversation
<1>2. /\ SessionOf(runs, saved, r) = runs[r].session
      /\ SessionOf(runs, saved, q) = runs[r].session
  BY <1>1, SessionOfTyped
<1> QED BY <1>1, <1>2 DEF Talk, TalkInv, SentAgainOnRetry

\* What matters to a run is in the list of its parent: its successors, and the
\* turns of its conversation.
LEMMA OffersHold == ASSUME TypeOK, Talk PROVE OffersAreHonoured
<1> SUFFICES ASSUME NEW r \in Exists(runs)
             PROVE  LET list == Listed(runs, runs[r].parent) IN
                    /\ canRetry(runs, saved, closed, list, r) <=> RetryAllowed(runs, saved, closed, r)
                    /\ canResume(runs, saved, Barred, list, r)
                         <=> ResumeAllowed(runs, saved, Barred, r)
  BY DEF OffersAreHonoured
<1> DEFINE list == Listed(runs, runs[r].parent)
           s == SessionOf(runs, saved, r)
<1>1. /\ runs \in Ledger /\ saved \in SUBSET Run /\ r \in Run /\ r # Nobody
      /\ PredecessorsHold(runs, saved) /\ SessionsAreSaved(runs, saved)
      /\ Exists(runs) \subseteq Run
  BY NobodyIsNoRun DEF TypeOK, Talk, TalkInv, Exists
<1>2. list \subseteq Exists(runs)
  BY DEF Listed
<1>3. Continued(runs, list, r) <=> Successors(runs, r) # {}
  <2>1. ASSUME NEW q \in Exists(runs), r \in {runs[q].retryOf, runs[q].resumeOf}
        PROVE  q \in list
    <3>1. r \in Predecessors(runs[q])
      BY <1>1, <2>1 DEF Predecessors
    <3> QED BY <1>1, <3>1 DEF PredecessorsHold, Listed
  <2> QED BY <1>2, <2>1 DEF Continued, Successors
<1>4. ActiveIn(runs, list, s) <=> Busy(runs, s)
  <2>1. ASSUME NEW q \in Conversation(runs, s), s # Nobody
        PROVE  q \in list
    <3>1. q \in Exists(runs) /\ runs[q].session = s /\ q \in Run
      BY <1>1 DEF Conversation
    <3>2. SessionOf(runs, saved, q) = s
      BY <1>1, <2>1, <3>1, SessionOfTyped
    <3>3. runs[s].parent = runs[q].parent /\ runs[s].parent = runs[r].parent
      BY <1>1, <2>1, <3>1, <3>2 DEF SessionsAreSaved
    <3> QED BY <3>1, <3>3 DEF Listed
  <2> HIDE DEF list, s
  <2> QED BY <1>2, <2>1 DEF ActiveIn, Busy, Conversation
<1>5. canRetry(runs, saved, closed, list, r) <=> RetryAllowed(runs, saved, closed, r)
  <2>1. CASE runs[r].session # Nobody
    <3>1. s = runs[r].session
      BY <2>1 DEF SessionOf
    <3> HIDE DEF list, s
    <3> QED BY <1>3, <1>4, <2>1, <3>1 DEF canRetry, Startable, RetryAllowed, s
  <2>2. CASE runs[r].session = Nobody /\ r \in saved
    <3>1. s = r
      BY <2>2 DEF SessionOf
    <3> HIDE DEF list, s
    <3> QED BY <1>1, <1>3, <1>4, <2>2, <3>1
            DEF canRetry, Startable, canRecoverStartupRetry, ActiveIn, RetryAllowed, s
  <2>3. CASE runs[r].session = Nobody /\ r \notin saved
    <3>1. s = Nobody
      BY <2>3 DEF SessionOf
    <3>2. Nobody \notin closed
      BY NobodyIsNoRun DEF TypeOK
    <3> HIDE DEF list, s
    <3> QED BY <1>3, <1>4, <2>3, <3>1, <3>2
            DEF canRetry, Startable, canRecoverStartupRetry, ActiveIn, RetryAllowed, s
  <2> QED BY <2>1, <2>2, <2>3
<1>6. canResume(runs, saved, Barred, list, r) <=> ResumeAllowed(runs, saved, Barred, r)
  <2>1. CASE runs[r].session # Nobody
    <3>1. s = runs[r].session /\ RecordOf(runs, saved, r) = runs[r].record
      BY <2>1 DEF SessionOf, RecordOf
    <3> HIDE DEF list, s
    <3> QED BY <1>3, <1>4, <2>1, <3>1 DEF canResume, canRecoverResume, Resumes, ResumeAllowed, s
  <2>2. CASE runs[r].session = Nobody /\ r \in saved
    <3>1. s = r /\ RecordOf(runs, saved, r) = r
      BY <2>2 DEF SessionOf, RecordOf
    <3> HIDE DEF list, s
    <3> QED BY <1>1, <1>3, <1>4, <2>2, <3>1 DEF canResume, canRecoverResume, Resumes, ResumeAllowed, s
  <2>3. CASE runs[r].session = Nobody /\ r \notin saved
    <3>1. s = Nobody
      BY <2>3 DEF SessionOf
    <3> HIDE DEF list
    <3> QED BY <2>3, <3>1 DEF canResume, canRecoverResume, Resumes, ResumeAllowed
  <2> QED BY <2>1, <2>2, <2>3
<1> QED BY <1>5, <1>6

-----------------------------------------------------------------------------
(* What the ledger says of a run's end.                                    *)

\* A change of status keeps every row and every tie, and finished rows.
Moved(db, db2, S, status) ==
    /\ db2 \in Ledger /\ Exists(db2) = Exists(db)
    /\ \A r \in Run : db2[r].retryOf = db[r].retryOf /\ db2[r].resumeOf = db[r].resumeOf
    /\ \A r \in S : db2[r].status = status
    /\ \A r \in Run \ S : db2[r] = db[r]
    /\ \A r \in Finished(db) : db2[r] = db[r]

LEMMA StatusShape ==
    ASSUME NEW db \in Ledger, NEW S, S \subseteq Nonterminal(db),
           NEW status \in Status \ {"absent"}
    PROVE  Moved(db, SetStatus(db, S, status), S, status)
<1> DEFINE db2 == SetStatus(db, S, status)
<1>1. S \in SUBSET Run /\ S \cap Finished(db) = {} /\ S \subseteq Exists(db) /\ status \in Status
  BY DEF Nonterminal, Pending, Running, Finished, Terminal, Exists
<1>2. /\ db2 \in Ledger /\ \A r \in Run \ S : db2[r] = db[r]
      /\ \A r \in S : db2[r].status = status
  <2>1. db \in Ledger
    OBVIOUS
  <2> HIDE DEF db2
  <2>2. /\ SetStatus(db, S, status) \in Ledger
        /\ \A r \in S : SetStatus(db, S, status)[r].status = status
        /\ \A r \in Run \ S : SetStatus(db, S, status)[r] = db[r]
    BY ONLY <1>1, <2>1, SetStatusSets
  <2> QED BY <2>2 DEF db2
<1>3. ASSUME NEW r \in Run
      PROVE  db2[r].retryOf = db[r].retryOf /\ db2[r].resumeOf = db[r].resumeOf
  <2>1. db[r] \in Row
    OBVIOUS
  <2> QED BY <2>1 DEF SetStatus, Row
<1> HIDE DEF db2
<1>4. Exists(db2) = Exists(db)
  BY <1>1, <1>2 DEF Exists
<1>5. \A r \in Finished(db) : db2[r] = db[r]
  BY <1>1, <1>2 DEF Finished
<1>6. Moved(db, db2, S, status)
  BY <1>2, <1>3, <1>4, <1>5 DEF Moved
<1> QED BY <1>6 DEF db2

\* How a handler's tail changes the table db it is given: finished rows and
\* ties stay, nothing new is finished, and what it adds resumes completed runs.
Tail(db) ==
    /\ runs' \in Ledger /\ Exists(db) \subseteq Exists(runs')
    /\ Finished(runs') = Finished(db) /\ \A r \in Finished(db) : runs'[r] = db[r]
    /\ \A r \in Exists(db) : /\ runs'[r].retryOf = db[r].retryOf
                             /\ runs'[r].resumeOf = db[r].resumeOf
    /\ \A i \in New(db, runs') : /\ runs'[i].retryOf = Nobody
                                 /\ runs'[i].resumeOf \in Run
                                 /\ db[runs'[i].resumeOf].status = "completed"

LEMMA PumpShape ==
    ASSUME NEW db \in Ledger, NEW turns, Pumped(db, turns)
    PROVE  /\ Exists(runs') = Exists(db) /\ Tail(db)
           /\ \A r \in Run : /\ runs'[r].retryOf = db[r].retryOf
                             /\ runs'[r].resumeOf = db[r].resumeOf
<1> DEFINE claimed == IF daemon = "stopping" THEN {} ELSE Claimable(db, turns)
<1>1. runs' = SetStatus(db, claimed, "running")
  BY DEF Pumped
<1>2. claimed \subseteq Nonterminal(db) /\ "running" \in Status \ {"absent"}
  BY DEF Claimable, Nonterminal, Status
<1> HIDE DEF claimed
<1>3. /\ runs' \in Ledger /\ Exists(runs') = Exists(db)
      /\ \A r \in Run : runs'[r].retryOf = db[r].retryOf /\ runs'[r].resumeOf = db[r].resumeOf
      /\ \A r \in claimed : runs'[r].status = "running"
      /\ \A r \in Run \ claimed : runs'[r] = db[r]
      /\ \A r \in Finished(db) : runs'[r] = db[r]
  <2>1. Moved(db, SetStatus(db, claimed, "running"), claimed, "running")
    BY <1>2, StatusShape
  <2> QED BY <1>1, <2>1 DEF Moved
<1>4. Finished(runs') = Finished(db)
  BY <1>3 DEF Finished, Terminal
<1>5. Exists(db) \subseteq Run /\ New(db, runs') = {}
  BY <1>3 DEF Exists, New
<1> QED BY <1>3, <1>4, <1>5 DEF Tail

\* A row that a reconcile pass adds resumes a completed parent.
LEMMA PassResumes ==
    ASSUME NEW db \in Ledger, NEW disk_ \in SUBSET Run, NEW barred \in SUBSET Run,
           NEW i \in New(db, Reconciled(db, disk_, barred))
    PROVE  LET row == Reconciled(db, disk_, barred)[i] IN
           /\ row.retryOf = Nobody /\ row.resumeOf \in Run
           /\ db[row.resumeOf].status = "completed"
<1> DEFINE P == {q \in Continuing(db) : ResumeAllowed(db, disk_, barred, q)}
           new == [p \in P |-> ResumeRow(db, disk_, p, Kids(db, db[p].session))]
<1>1. P \subseteq Run /\ \A p \in P : db[p].status = "completed"
  BY DEF Continuing, Due, Heads, Exists
<1>2. \A p \in P : new[p].retryOf = Nobody /\ new[p].resumeOf = p
  BY DEF ResumeRow, Successor
<1>3. new \in [P -> QueuedRow]
  BY <1>1, ResumeIsQueued, KidsAreRuns
<1>4. Reconciled(db, disk_, barred) = Insert(db, new)
  BY DEF Reconciled
<1> HIDE DEF P, new
<1>5. PICK p \in P : Insert(db, new)[i] = new[p]
  BY <1>3, <1>4, InsertPlaces
<1> QED BY <1>1, <1>2, <1>4, <1>5

LEMMA SettleShape ==
    ASSUME NEW db \in Ledger, TypeOK, NEW turns, Settled(db, turns)
    PROVE  Tail(db)
<1> DEFINE db2 == IF daemon = "stopping" THEN db ELSE Reconciled(db, saved, Barred)
<1>1. Pumped(db2, turns)
  BY DEF Settled
<1>2. Grown(db, db2) /\ db2 \in Ledger
  <2>1. Grown(db, db)
    BY DEF Grown, Exists
  <2>2. Grown(db, Reconciled(db, saved, Barred))
    BY ReconcileGrows DEF TypeOK, Barred
  <2> QED BY <2>1, <2>2 DEF Grown
<1>3. ASSUME NEW i \in New(db, db2)
      PROVE  /\ db2[i].retryOf = Nobody /\ db2[i].resumeOf \in Run
             /\ db[db2[i].resumeOf].status = "completed"
  <2>1. db2 = Reconciled(db, saved, Barred)
    BY DEF New
  <2> HIDE DEF db2
  <2> QED BY <2>1, PassResumes DEF TypeOK, Barred
<1> HIDE DEF db2
<1>4. /\ Exists(runs') = Exists(db2) /\ Tail(db2)
      /\ \A r \in Run : /\ runs'[r].retryOf = db2[r].retryOf
                        /\ runs'[r].resumeOf = db2[r].resumeOf
  BY <1>1, <1>2, PumpShape
<1>5. Exists(db) \subseteq Exists(db2) /\ Exists(db2) \subseteq Run
      /\ \A r \in Exists(db) : db2[r] = db[r]
  BY <1>2 DEF Grown, Exists
<1>6. Finished(db2) = Finished(db) /\ \A r \in Finished(db) : db2[r] = db[r]
  <2>1. \A r \in Run \ Exists(db) : r \notin Finished(db) /\ r \notin Finished(db2)
    BY <1>2 DEF Grown, Finished, Terminal, Exists
  <2>2. \A r \in Exists(db) : r \in Finished(db) <=> r \in Finished(db2)
    BY <1>5 DEF Finished
  <2> QED BY <1>5, <2>1, <2>2 DEF Finished
<1>7. New(db, runs') = New(db, db2)
  BY <1>4 DEF New
<1> QED BY <1>3, <1>4, <1>5, <1>6, <1>7 DEF Tail, New

CancelledStays ==
    \A q \in Exists(runs') \ Exists(runs) : \A p \in Run :
        p \in {runs'[q].retryOf, runs'[q].resumeOf} /\ runs[p].status = "cancelled" =>
            /\ daemon = "up" /\ runs'[q].retryOf = Nobody
            /\ Exists(runs') = Exists(runs) \cup {q}
            /\ Finished(runs') = Finished(runs)

\* Rows end and a tail follows: what the tail adds resumes completed runs.
LEMMA EndingRestartsNothing ==
    ASSUME TypeOK, NEW S, S \subseteq Nonterminal(runs), NEW status \in Status \ {"absent"},
           NEW turns, Settled(SetStatus(runs, S, status), turns)
    PROVE  CancelledStays
<1> DEFINE db == SetStatus(runs, S, status)
<1>1. runs \in Ledger
  BY DEF TypeOK
<1>2. Settled(db, turns) /\ db = SetStatus(runs, S, status)
  OBVIOUS
<1> HIDE DEF db
<1>3. db \in Ledger /\ Exists(db) = Exists(runs) /\ \A r \in Finished(runs) : db[r] = runs[r]
  <2>1. Moved(runs, SetStatus(runs, S, status), S, status)
    BY <1>1, StatusShape
  <2> QED BY <1>2, <2>1 DEF Moved
<1>4. Tail(db)
  BY <1>2, <1>3, SettleShape
<1>5. ASSUME NEW q \in Exists(runs') \ Exists(runs), NEW p \in Run,
             p \in {runs'[q].retryOf, runs'[q].resumeOf}
      PROVE  runs[p].status # "cancelled"
  <2>1. q \in New(db, runs')
    BY <1>3, <1>5 DEF New
  <2>2. p # Nobody
    BY NobodyIsNoRun
  <2>3. db[p].status = "completed"
    BY <1>4, <1>5, <2>1, <2>2 DEF Tail
  <2>4. p \in Finished(runs) => db[p] = runs[p]
    BY <1>3
  <2> QED BY <2>3, <2>4 DEF Finished, Terminal
<1> QED BY <1>5 DEF CancelledStays

LEMMA SettlingRestartsNothing ==
    ASSUME TypeOK, NEW turns, Settled(runs, turns)
    PROVE  CancelledStays
<1>1. runs \in Ledger
  BY DEF TypeOK
<1>2. Tail(runs)
  BY <1>1, SettleShape
<1>3. \A p \in Run : p # Nobody
  BY NobodyIsNoRun
<1> QED BY <1>2, <1>3 DEF CancelledStays, Tail, New

\* A request adds at most one row, the row it made.
LEMMA RequestAddsItsRow ==
    ASSUME TypeOK, NEW k, NEW row \in QueuedRow,
           Pumped(Insert(runs, [h \in {k} |-> row]), live)
    PROVE  /\ Finished(runs') = Finished(runs)
           /\ \A q \in Exists(runs') \ Exists(runs) :
                 /\ runs'[q].retryOf = row.retryOf /\ runs'[q].resumeOf = row.resumeOf
                 /\ Exists(runs') = Exists(runs) \cup {q}
<1> DEFINE new == [h \in {k} |-> row]
           db == Insert(runs, new)
<1>1. runs \in Ledger /\ new \in [{k} -> QueuedRow]
  BY DEF TypeOK
<1>2. Pumped(db, live)
  OBVIOUS
<1>3. new[k] = row
  OBVIOUS
<1> HIDE DEF new
<1>4. Grown(runs, db) /\ db \in Ledger
  BY <1>1, InsertGrows DEF Grown
<1>5. ASSUME NEW i \in New(runs, db)
      PROVE  db[i] = row /\ PlacedAt(runs, {k}, i, k)
  <2>1. PICK h \in {k} : PlacedAt(runs, {k}, i, h) /\ db[i] = new[h]
    BY <1>1, InsertPlaces
  <2> QED BY <1>3, <2>1
<1> HIDE DEF db
<1>6. /\ Exists(runs') = Exists(db) /\ Finished(runs') = Finished(db)
      /\ \A r \in Run : /\ runs'[r].retryOf = db[r].retryOf
                        /\ runs'[r].resumeOf = db[r].resumeOf
  BY <1>2, <1>4, PumpShape DEF Tail
<1>7. Finished(db) = Finished(runs)
  <2>1. \A r \in Run \ Exists(runs) : r \notin Finished(runs) /\ r \notin Finished(db)
    BY <1>4 DEF Grown, Finished, Terminal, Exists
  <2>2. \A r \in Exists(runs) : r \in Finished(runs) <=> r \in Finished(db)
    BY <1>4 DEF Grown, Finished
  <2> QED BY <2>1, <2>2 DEF Finished
<1>8. Exists(runs) \subseteq Exists(db) /\ Exists(db) \subseteq Run
  BY <1>4 DEF Grown, Exists
<1>9. ASSUME NEW i \in New(runs, db), NEW j \in New(runs, db) PROVE i = j
  <2>1. /\ i \in Unused(runs) /\ j \in Unused(runs) /\ Unused(runs) \subseteq Run
        /\ Cardinality({u \in Unused(runs) : u <= i}) = Cardinality({u \in Unused(runs) : u <= j})
    BY <1>5 DEF PlacedAt, Unused
  <2> QED BY <2>1, RankFromBelow
<1> QED BY <1>5, <1>6, <1>7, <1>8, <1>9 DEF New

LEMMA RequestsRestartOnlyResumed ==
    ASSUME TypeOK, NEW r \in Run, Retry(r) \/ Resume(r)
    PROVE  CancelledStays
<1>1. runs \in Ledger /\ saved \in SUBSET Run /\ r # Nobody /\ \A p \in Run : p # Nobody
  BY NobodyIsNoRun DEF TypeOK
<1>2. CASE Retry(r)
  <2> DEFINE row == RetryRow(runs, saved, r)
  <2>1. row \in QueuedRow /\ row.retryOf = r /\ row.resumeOf = Nobody
    BY <1>1, RetryIsQueued DEF RetryRow, Successor
  <2>2. Pumped(Insert(runs, [h \in {r} |-> row]), live) /\ runs[r].status # "cancelled"
    BY <1>2 DEF Retry, RetryAllowed, Retryable
  <2> HIDE DEF row
  <2>3. \A q \in Exists(runs') \ Exists(runs) :
           runs'[q].retryOf = r /\ runs'[q].resumeOf = Nobody
    BY <2>1, <2>2, RequestAddsItsRow
  <2> QED BY <1>1, <2>2, <2>3 DEF CancelledStays
<1>3. CASE Resume(r)
  <2> DEFINE row == ResumeRow(runs, saved, r, Undelivered(runs, r))
  <2>1. Undelivered(runs, r) \in SUBSET Run
    BY <1>1 DEF Undelivered, Row
  <2>2. row \in QueuedRow /\ row.retryOf = Nobody
    BY <1>1, <2>1, ResumeIsQueued DEF ResumeRow, Successor
  <2>3. Pumped(Insert(runs, [h \in {r} |-> row]), live) /\ daemon = "up"
    BY <1>3 DEF Resume
  <2> HIDE DEF row
  <2>4. /\ Finished(runs') = Finished(runs)
        /\ \A q \in Exists(runs') \ Exists(runs) :
              runs'[q].retryOf = Nobody /\ Exists(runs') = Exists(runs) \cup {q}
    BY <2>2, <2>3, RequestAddsItsRow
  <2> QED BY <2>3, <2>4 DEF CancelledStays
<1> QED BY <1>2, <1>3

LEMMA LaunchRestartsNothing ==
    ASSUME TypeOK, NEW parent \in RunOrNobody, Launch(parent)
    PROVE  CancelledStays
<1> DEFINE row == [Blank EXCEPT !.status = "pending", !.parent = parent,
                                !.depth = DepthUnder(runs, parent)]
<1>1. runs \in Ledger
  BY DEF TypeOK
<1>2. DepthUnder(runs, parent) \in 0..MaxDepth
  BY <1>1, DepthIsPositive, LedgerAssumption DEF Launch
<1>3. row \in QueuedRow /\ row.retryOf = Nobody /\ row.resumeOf = Nobody
  BY <1>2 DEF Blank, QueuedRow, Row, Status, RunOrNobody
<1>4. Pumped(Insert(runs, [h \in {Nobody} |-> row]), live)
  BY DEF Launch
<1> HIDE DEF row
<1>5. \A q \in Exists(runs') \ Exists(runs) :
         runs'[q].retryOf = Nobody /\ runs'[q].resumeOf = Nobody
  BY <1>3, <1>4, RequestAddsItsRow
<1> QED BY <1>5, NobodyIsNoRun DEF CancelledStays

Owed(db, r) ==
    /\ db[r].status = "interrupted" /\ ~db[r].submitted
    /\ db[r].resumeOf # Nobody /\ db[r].completions # {}

\* A follow-up nobody continued is not refused the retry: had its conversation
\* an unfinished turn, that turn would be older, and so continued itself.
LEMMA OwedIsRetried ==
    ASSUME NEW db \in Ledger, NEW disk_ \in SUBSET Run, TalkInv(db, disk_), NEW closed_,
           NEW r \in Run, Owed(db, r), Successors(db, r) = {}, db[r].session \notin closed_
    PROVE  r \in AutoRetries(db, disk_, closed_)
<1>1. r \in Exists(db) /\ r \in Finished(db) /\ db[r].status \in Retryable
  BY DEF Owed, Exists, Finished, Terminal, Retryable
<1>2. db[r].retryOf = Nobody
  BY <1>1 DEF Owed, TalkInv, PredecessorsHold
<1>6. SessionOf(db, disk_, r) = db[r].session
  <2>1. db[r].session # Nobody
    BY <1>1 DEF Owed, TalkInv, PredecessorsHold
  <2> QED BY <2>1, SessionOfTyped
<1> DEFINE s == SessionOf(db, disk_, r)
<1>3. ASSUME s # Nobody, NEW q \in Conversation(db, s), q \in Nonterminal(db) PROVE FALSE
  <2>1. q \in Exists(db) /\ q \in Run /\ db[q].session = s
    BY <1>3 DEF Conversation, Exists
  <2>2. SessionOf(db, disk_, q) = s
    BY <1>3, <2>1, SessionOfTyped
  <2>3. q # r
    BY <1>1, <1>3 DEF Finished, Nonterminal, Pending, Running, Terminal
  <2>4. q < r
    BY <1>1, <1>3, <2>1, <2>2, <2>3, NewestOfTalk DEF TalkInv
  <2>5. Successors(db, q) # {}
    BY <1>1, <1>3, <2>1, <2>2, <2>4 DEF TalkInv, TalkGoesOn
  <2>6. q \in Finished(db)
    BY <2>1, <2>5, ContinuedHaveEnded DEF TalkInv
  <2> QED BY <1>3, <2>6 DEF Finished, Nonterminal, Pending, Running, Terminal
<1>4. ~Busy(db, s)
  BY <1>3 DEF Busy
<1>5. RetryAllowed(db, disk_, closed_, r)
  BY <1>1, <1>4, <1>6 DEF RetryAllowed
<1> QED BY <1>2, <1>5 DEF AutoRetries, Owed

Restarted ==
    /\ \A q \in Exists(runs') \ Exists(runs) :
         runs'[q].retryOf # Nobody => Owed(runs', runs'[q].retryOf)
    /\ Unused(runs') # {} =>
         \A r \in Run : Owed(runs', r) /\ runs'[r].session \notin closed =>
            Successors(runs', r) # {}

LEMMA StartIsRight ==
    ASSUME IInv, Talk, Start
    PROVE  CancelledStays /\ Restarted
<1> DEFINE db1 == SetStatus(runs, Running(runs), "interrupted")
           db2 == FollowUpsRetried(db1, saved, closed)
<1>1. TypeOK /\ runs \in Ledger /\ saved \in SUBSET Run /\ TalkInv(runs, saved)
  BY DEF IInv, TypeOK, Talk
<1>2. /\ Running(runs) \subseteq Nonterminal(runs)
      /\ "interrupted" \in Status \ {"absent"}
  BY DEF Nonterminal, Status, Terminal
<1>3. Settled(db2, live)
  BY DEF Start
<1> HIDE DEF db2
<1>4. TalkInv(db1, saved)
  BY <1>1, <1>2, StatusKeepsTalk
<1>5. /\ db1 \in Ledger /\ Exists(db1) = Exists(runs)
      /\ \A r \in Finished(runs) : db1[r] = runs[r]
  <2> DEFINE S == Running(runs)
  <2>1. db1 = SetStatus(runs, S, "interrupted") /\ S \subseteq Nonterminal(runs)
    BY <1>2
  <2> HIDE DEF db1, S
  <2>2. Moved(runs, SetStatus(runs, S, "interrupted"), S, "interrupted")
    BY <1>1, <1>2, <2>1, StatusShape
  <2> QED BY <2>1, <2>2 DEF Moved
<1> HIDE DEF db1
<1> DEFINE P == AutoRetries(db1, saved, closed)
           new == [p \in P |-> RetryRow(db1, saved, p)]
<1>6. P \subseteq Run /\ db2 = Insert(db1, new)
  BY DEF AutoRetries, FollowUpsRetried, db2
<1>7. new \in [P -> QueuedRow]
  BY <1>1, <1>5, <1>6, RetryIsQueued
<1>8. \A p \in P : /\ new[p].retryOf = p /\ new[p].resumeOf = Nobody
                   /\ Owed(db1, p) /\ p \in Finished(db1)
  BY <1>6 DEF RetryRow, Successor, AutoRetries, Owed, Finished, Terminal
<1> HIDE DEF P, new
<1>9. Grown(db1, db2) /\ db2 \in Ledger
  BY <1>5, <1>6, <1>7, InsertGrows DEF Grown
<1>10. /\ Exists(db1) \subseteq Exists(db2) /\ Exists(db2) \subseteq Run
       /\ \A r \in Exists(db1) : db2[r] = db1[r]
       /\ \A r \in Finished(db2) : r \in Exists(db1)
       /\ Finished(db1) \subseteq Finished(db2) /\ Finished(db1) \subseteq Exists(db1)
  BY <1>9 DEF Grown, Exists, Finished, Terminal
<1>11. Tail(db2)
  BY <1>1, <1>3, <1>9, SettleShape
<1>12. ASSUME NEW i \in New(db1, db2)
       PROVE  \E p \in P : db2[i] = new[p]
  BY <1>5, <1>6, <1>7, InsertPlaces
\* A new row retries an owed follow-up, or resumes a completed run.
<1>13. ASSUME NEW q \in Exists(runs') \ Exists(runs)
       PROVE  \/ /\ runs'[q].retryOf \in P /\ runs'[q].resumeOf = Nobody
              \/ /\ runs'[q].retryOf = Nobody /\ runs'[q].resumeOf \in Run
                 /\ db2[runs'[q].resumeOf].status = "completed"
  <2>1. CASE q \in Exists(db2)
    <3>1. PICK p \in P : db2[q] = new[p]
      BY <1>5, <1>12, <2>1 DEF New
    <3> QED BY <1>8, <1>11, <2>1, <3>1 DEF Tail
  <2>2. CASE q \notin Exists(db2)
    BY <1>11, <2>2 DEF Tail, New
  <2> QED BY <2>1, <2>2
<1>14. \A p \in Finished(db1) : runs'[p] = db1[p]
  BY <1>10, <1>11 DEF Tail
<1>15. CancelledStays
  <2>1. ASSUME NEW q \in Exists(runs') \ Exists(runs), NEW p \in Run,
               p \in {runs'[q].retryOf, runs'[q].resumeOf}, runs[p].status = "cancelled"
        PROVE  FALSE
    <3>1. p # Nobody
      BY NobodyIsNoRun
    <3>2. p \in Finished(runs)
      BY <2>1 DEF Finished, Terminal
    <3>3. db1[p].status = "cancelled" /\ p \in Finished(db1)
      BY <1>5, <2>1, <3>2 DEF Finished, Terminal
    <3>4. db2[p].status = "cancelled"
      BY <1>10, <3>3
    <3>5. p \notin P
      BY <1>8, <3>3 DEF Owed
    <3> QED BY <1>13, <2>1, <3>1, <3>4, <3>5
  <2> QED BY <2>1 DEF CancelledStays
<1>16. ASSUME NEW q \in Exists(runs') \ Exists(runs), runs'[q].retryOf # Nobody
       PROVE  Owed(runs', runs'[q].retryOf)
  <2>1. runs'[q].retryOf \in P
    BY <1>13, <1>16
  <2> QED BY <1>8, <1>14, <2>1 DEF Owed
<1>17. ASSUME Unused(runs') # {}, NEW r \in Run, Owed(runs', r),
              runs'[r].session \notin closed
       PROVE  Successors(runs', r) # {}
  <2>1. r \in Finished(runs')
    BY <1>17 DEF Owed, Finished, Terminal
  <2>2. r \in Finished(db2) /\ runs'[r] = db2[r] /\ r \in Exists(db1) /\ db2[r] = db1[r]
    BY <1>10, <1>11, <2>1 DEF Tail
  <2>3. Owed(db1, r) /\ db1[r].session \notin closed
    BY <1>17, <2>2 DEF Owed
  <2>4. \A q \in Exists(db2) : q \in Exists(runs') /\ runs'[q].retryOf = db2[q].retryOf
                               /\ runs'[q].resumeOf = db2[q].resumeOf
    BY <1>11 DEF Tail
  <2>5. CASE Successors(db1, r) # {}
    <3>1. PICK q \in Exists(db1) : r \in {db1[q].retryOf, db1[q].resumeOf}
      BY <2>5 DEF Successors
    <3> QED BY <1>10, <2>4, <3>1 DEF Successors
  <2>6. CASE Successors(db1, r) = {}
    <3>1. r \in P
      BY <1>1, <1>4, <1>5, <2>3, <2>6, OwedIsRetried DEF P
    <3>2. Unused(db2) # {}
      BY <1>11, <1>17 DEF Unused, Tail
    <3>3. PICK i \in New(db1, db2) : db2[i] = new[r]
      BY <1>5, <1>6, <1>7, <3>1, <3>2, InsertPlacesAll
    <3> QED BY <1>8, <2>4, <3>1, <3>3 DEF New, Successors
  <2> QED BY <2>5, <2>6
<1> QED BY <1>15, <1>16, <1>17 DEF Restarted

\* Steps that add no row.
LEMMA NoRowNoRestart ==
    ASSUME Exists(runs') \subseteq Exists(runs)
    PROVE  CancelledStays
BY DEF CancelledStays

LEMMA NextEndsRight ==
    ASSUME IInv, Talk, Next
    PROVE  CancelledStays /\ (daemon = "down" /\ daemon' = "up" => Restarted)
<1>1. /\ TypeOK /\ runs \in Ledger /\ live \subseteq Running(runs)
      /\ Running(runs) \subseteq Nonterminal(runs) /\ Running(runs) \subseteq Run
  BY DEF IInv, TypeOK, LiveTurnIsRunning, Nonterminal, Running
<1>2. Terminal \subseteq Status \ {"absent"}
  BY DEF Terminal, Status
<1>3. CASE Start
  BY <1>3, StartIsRight
<1>4. CASE Requests
  <2>1. ASSUME NEW parent \in {Nobody} \cup {runs[r].session : r \in Exists(runs)},
               Launch(parent)
        PROVE  CancelledStays
    <3>1. parent \in RunOrNobody
      BY <1>1 DEF TypeOK, Row, Exists, RunOrNobody
    <3> QED BY <1>1, <2>1, <3>1, LaunchRestartsNothing
  <2>2. ASSUME NEW r \in Run, CancelQueued(r) PROVE CancelledStays
    <3>1. /\ {r} \subseteq Nonterminal(runs) /\ "cancelled" \in Status \ {"absent"}
          /\ Settled(SetStatus(runs, {r}, "cancelled"), live)
      BY <1>2, <2>2 DEF CancelQueued, Nonterminal, Terminal
    <3> QED BY <1>1, <3>1, EndingRestartsNothing
  <2>3. ASSUME NEW r \in Run, CancelLive(r) PROVE CancelledStays
    BY <2>3, NoRowNoRestart DEF CancelLive
  <2>4. UNCHANGED daemon
    BY <1>4 DEF Requests, Launch, CancelLive, CancelQueued, Retry, Resume
  <2> QED BY <1>1, <1>4, <2>1, <2>2, <2>3, <2>4, RequestsRestartOnlyResumed DEF Requests
<1>5. CASE Turns
  <2>1. PICK r \in Run :
          \/ SaveRecord(r) \/ Identify(r) \/ Submit(r) \/ Deadline(r) \/ FinishThrows(r)
          \/ \E reported \in {"completed", "failed", "cancelled"} : TurnEnds(r, reported)
    BY <1>5 DEF Turns
  <2>2. CASE SaveRecord(r) \/ Deadline(r)
    BY <2>2, NoRowNoRestart DEF SaveRecord, Deadline
  <2>3. CASE Identify(r) \/ Submit(r)
    <3>1. runs[r].status = "running" /\ \A q \in Run \ {r} : runs'[q] = runs[q]
      BY <1>1, <2>3 DEF Identify, Submit, Running
    <3>2. Exists(runs') \subseteq Exists(runs)
      BY <3>1 DEF Exists
    <3> QED BY <2>3, <3>2, NoRowNoRestart DEF Identify, Submit
  <2>4. CASE FinishThrows(r)
    BY <1>1, <2>4, SettlingRestartsNothing DEF FinishThrows
  <2>5. ASSUME NEW reported \in {"completed", "failed", "cancelled"}, TurnEnds(r, reported)
        PROVE  CancelledStays
    <3>1. Outcome(intent[r], reported) \in Terminal
      BY <1>1 DEF Outcome, Intent, Terminal, TypeOK
    <3>2. /\ Settled(SetStatus(runs, {r}, Outcome(intent[r], reported)), live \ {r})
          /\ {r} \subseteq Nonterminal(runs)
      BY <1>1, <2>5 DEF TurnEnds
    <3> HIDE DEF Outcome
    <3> QED BY <1>1, <1>2, <3>1, <3>2, EndingRestartsNothing
  <2>6. UNCHANGED daemon
    BY <1>5 DEF Turns, SaveRecord, Identify, Submit, Deadline, FinishThrows, TurnEnds
  <2> QED BY <2>1, <2>2, <2>3, <2>4, <2>5, <2>6
<1>6. CASE Timer
  <2>1. PICK stale \in SUBSET Orphans :
           Tick(stale) \/ \E bad \in stale : SweepThrows(stale, bad)
    BY <1>6 DEF Timer
  <2>2. stale \subseteq Nonterminal(runs) /\ "lost" \in Status \ {"absent"}
    BY <1>1, <1>2 DEF Orphans, Terminal
  <2>3. CASE Tick(stale)
    <3>1. CASE stale = {}
      <4>1. Pumped(runs, live)
        BY <2>3, <3>1 DEF Tick
      <4>2. Exists(runs') = Exists(runs)
        BY <1>1, <4>1, PumpShape
      <4> QED BY <2>3, <4>2, NoRowNoRestart DEF Tick
    <3>2. CASE stale # {}
      <4>1. Settled(SetStatus(runs, stale, "lost"), live)
        BY <2>3, <3>2 DEF Tick
      <4> QED BY <1>1, <2>2, <2>3, <4>1, EndingRestartsNothing DEF Tick
    <3> QED BY <3>1, <3>2
  <2>4. ASSUME NEW bad \in stale, SweepThrows(stale, bad)
        PROVE  CancelledStays /\ daemon = "up"
    <3> DEFINE S == {r \in stale : r < bad}
    <3>1. runs' = SetStatus(runs, S, "lost") /\ S \subseteq Nonterminal(runs) /\ daemon = "up"
      BY <2>2, <2>4 DEF SweepThrows
    <3> HIDE DEF S
    <3>2. Exists(runs') = Exists(runs)
      <4>1. Moved(runs, SetStatus(runs, S, "lost"), S, "lost")
        BY <1>1, <2>2, <3>1, StatusShape
      <4> QED BY <3>1, <4>1 DEF Moved
    <3> QED BY <3>1, <3>2, NoRowNoRestart
  <2>5. Tick(stale) => daemon = "up"
    BY DEF Tick
  <2> QED BY <2>1, <2>3, <2>4, <2>5
<1>7. CASE Stop \/ Exit \/ Crash \/ \E s \in Run : RemoveCwd(s) \/ CloseConversation(s)
  BY <1>7, NoRowNoRestart DEF Stop, Exit, Crash, RemoveCwd, CloseConversation
<1> QED BY <1>3, <1>4, <1>5, <1>6, <1>7 DEF Next, Process

-----------------------------------------------------------------------------
(* The theorems.                                                           *)

LEMMA InitTalk == Init => Talk
<1> SUFFICES ASSUME Init PROVE Talk
  OBVIOUS
<1>1. saved = {} /\ Exists(runs) = {}
  BY DEF Init, Exists, Blank
<1> QED BY <1>1 DEF Talk, TalkInv, PredecessorsHold, SessionsAreSaved, TalkGoesOn, Unbranched,
       SentAgainOnRetry, Successors

\* The invariant of the conversations holds in every reachable state.
THEOREM TalkInvariance == Spec => []Talk
<1>1. Init => Talk
  BY InitTalk
<1>2. IInv /\ Talk /\ [Next]_vars => Talk'
  <2>1. ASSUME Talk, UNCHANGED vars PROVE Talk'
    BY <2>1 DEF vars, Talk
  <2> QED BY <2>1, NextKeepsTalk
<1> QED BY <1>1, <1>2, Invariance, PTL DEF Spec

\* For every number of runs, however requests, turns, sweeps, crashes and
\* restarts interleave: one turn at a time speaks to a saved conversation,
\* which is never branched; a queued turn still finds what it was queued
\* against; a parent's list offers what the executor accepts; and what a turn
\* left unsaid is carried to the run that continues it, and said once.
THEOREM ConversationsStaySound == Spec => []ConversationsAreSound
<1>1. IInv /\ Talk => ConversationsAreSound
  BY OneTurnHolds, LinearHolds, TurnIntentHeld, RetryKeeps, OffersHold, EvidenceHolds,
     NoDuplicateHolds DEF IInv, ConversationsAreSound
<1> QED BY <1>1, Invariance, TalkInvariance, PTL

\* What the ledger says of a run's end stands, for every number of runs and of
\* faults: terminal rows never change, a cancelled run is continued only when
\* the owner resumes it, and a restart retries the follow-ups that never
\* reached their conversation, each once, and nothing else.
THEOREM EndsStayFinal == Spec => EndsAreFinal
<1>1. IInv /\ Talk /\ [Next]_vars =>
        CancelledStays /\ (daemon = "down" /\ daemon' = "up" => Restarted)
  <2>1. ASSUME UNCHANGED vars
        PROVE  CancelledStays /\ (daemon = "down" /\ daemon' = "up" => Restarted)
    BY <2>1, NoRowNoRestart DEF vars
  <2> QED BY <2>1, NextEndsRight
<1>2. IInv /\ Talk /\ [Next]_vars =>
        [\A q \in Exists(runs') \ Exists(runs) : \A p \in Run :
          p \in {runs'[q].retryOf, runs'[q].resumeOf} /\ runs[p].status = "cancelled" =>
              /\ daemon = "up" /\ runs'[q].retryOf = Nobody
              /\ Exists(runs') = Exists(runs) \cup {q}
              /\ Finished(runs') = Finished(runs)]_vars
  BY <1>1 DEF CancelledStays
<1>3. Spec => CancelledStaysCancelled
  BY <1>2, Invariance, TalkInvariance, PTL DEF Spec, CancelledStaysCancelled
<1>4. IInv /\ Talk /\ [Next]_vars =>
       [daemon = "down" /\ daemon' = "up" =>
        LET owed(db, r) == /\ db[r].status = "interrupted" /\ ~db[r].submitted
                           /\ db[r].resumeOf # Nobody /\ db[r].completions # {}
        IN  /\ \A q \in Exists(runs') \ Exists(runs) :
                 runs'[q].retryOf # Nobody => owed(runs', runs'[q].retryOf)
            /\ Unused(runs') # {} =>
                 \A r \in Run :
                    owed(runs', r) /\ runs'[r].session \notin closed =>
                        Successors(runs', r) # {}]_vars
  BY <1>1 DEF Restarted, Owed
<1>5. Spec => RestartRetriesFollowUpsOnce
  BY <1>4, Invariance, TalkInvariance, PTL DEF Spec, RestartRetriesFollowUpsOnce
<1> QED BY <1>3, <1>5, TerminalRowsNeverChange, PTL DEF EndsAreFinal

-----------------------------------------------------------------------------
(* The follow-up that is not missed: a parent is waiting when a pass over  *)
(* the parents would continue it. A pass leaves none waiting, and between  *)
(* two passes no step makes one wait.                                      *)

\* What the recursive definition of a pass says: a due parent is left out only
\* for a newer child conversation that the same pass continues.
LEMMA PassTakes ==
    ASSUME NEW db \in Ledger, NEW p \in Due(db)
    PROVE  p \in Continuing(db) <=>
             \A k \in Kids(db, db[p].session) : (k > p /\ k \in Heads(db)) => k \notin Continuing(db)
<1> DEFINE Body(g, q) == /\ q \in Due(db)
                         /\ \A k \in Kids(db, db[q].session) :
                               (k > q /\ k \in Heads(db)) => ~g[k]
           S == {n \in Nat : \E g \in [Run -> BOOLEAN] :
                                \A q \in Run : q > n => g[q] = Body(g, q)}
<1>1. MaxRuns \in Nat /\ \A q \in Run : q \in Nat /\ 1 <= q /\ q <= MaxRuns
  BY LedgerAssumption DEF Run
<1>2. MaxRuns \in S
  <2>1. [q \in Run |-> FALSE] \in [Run -> BOOLEAN]
    OBVIOUS
  <2>2. \A q \in Run : ~(q > MaxRuns)
    BY <1>1
  <2> QED BY <1>1, <2>1, <2>2
<1>3. PICK m \in S : \A n \in S : m <= n
  <2> HIDE DEF S
  <2>1. S \subseteq Nat /\ S # {}
    BY <1>2 DEF S
  <2> QED BY <2>1, LeastNumber
<1>4. PICK g \in [Run -> BOOLEAN] : \A q \in Run : q > m => g[q] = Body(g, q)
  BY <1>3
<1>5. m = 0
  <2> SUFFICES ASSUME m # 0 PROVE FALSE
    OBVIOUS
  <2>1. m \in Run
    <3>1. m \in Nat /\ m <= MaxRuns
      BY <1>2, <1>3
    <3> QED BY <1>1, <3>1, <1>5 DEF Run
  <2> DEFINE h == [g EXCEPT ![m] = Body(g, m)]
  <2>2. h \in [Run -> BOOLEAN]
    BY <2>1
  <2>3. ASSUME NEW q \in Run, q > m - 1 PROVE h[q] = Body(h, q)
    <3>1. q >= m
      <4> HIDE DEF Body, h, S
      <4> QED BY <1>1, <2>1, <2>3
    <3>2. ASSUME NEW k \in Run, k > q PROVE h[k] = g[k]
      <4> HIDE DEF Body, S
      <4>1. k # m
        BY <1>1, <2>1, <3>1, <3>2
      <4> QED BY <4>1
    <3>3. \A k \in Heads(db) : k \in Run
      BY DEF Heads, Exists
    <3>4. Body(h, q) <=> Body(g, q)
      <4> HIDE DEF h
      <4> QED BY <3>2, <3>3
    <3>5. h[q] = Body(g, q)
      <4>1. CASE q = m
        BY <2>1, <4>1
      <4>2. CASE q # m
        <5>1. q > m
          BY <1>1, <2>1, <3>1, <4>2
        <5>2. h[q] = g[q]
          BY <4>2
        <5> QED BY <1>4, <5>1, <5>2
      <4> QED BY <4>1, <4>2
    <3> QED BY <3>4, <3>5
  <2>4. m - 1 \in S
    <3>1. m - 1 \in Nat
      BY <2>1, <1>1
    <3> HIDE DEF h, Body
    <3> QED BY <2>2, <2>3, <3>1
  <2>5. m \in Nat /\ m <= m - 1
    <3> HIDE DEF S, h
    <3> QED BY <1>1, <1>3, <2>1, <2>4
  <2> QED BY <2>5
<1>6. g = [q \in Run |-> Body(g, q)]
  <2>1. \A q \in Run : g[q] = Body(g, q)
    <3> HIDE DEF Body, S
    <3>1. \A q \in Run : q > m
      BY <1>1, <1>5
    <3> QED BY <1>4, <3>1
  <2> HIDE DEF Body
  <2> QED BY <2>1
<1> DEFINE t == CHOOSE f : f = [q \in Run |-> Body(f, q)]
<1>7. t = [q \in Run |-> Body(t, q)]
  <2> HIDE DEF Body
  <2> QED BY <1>6
<1>8. \A q \in Run : t[q] = Body(t, q)
  <2> HIDE DEF Body, t
  <2> QED BY <1>7
<1>9. Continuing(db) = {q \in Due(db) : t[q]}
  BY DEF Continuing
<1>10. p \in Run /\ \A k \in Heads(db) : k \in Run
  BY DEF Due, Heads, Exists
<1> HIDE DEF t
<1>11. \A k \in Run : k \in Continuing(db) <=> t[k]
  BY <1>8, <1>9
<1> QED BY <1>8, <1>10, <1>11

\* Parents that a pass would continue: due, not barred themselves, and waiting
\* for no barred child that has children of its own.
Waiting(db, barred) ==
    {p \in Due(db) : /\ db[p].session \notin barred
                     /\ \A k \in Kids(db, db[p].session) \cap Delegators(db) :
                           db[k].session \notin barred}

\* A run has only been told of runs that are in the table.
ToldOfRuns(db) == \A q \in Exists(db) : db[q].completions \subseteq Exists(db)

\* The newest run of a conversation is the latest of each of its runs.
LEMMA HeadIsLatest ==
    ASSUME NEW db \in Ledger, NEW h \in Heads(db), NEW c, db[c].session = db[h].session
    PROVE  Latest(db, c) = h
<1>1. ASSUME NEW x \in Heads(db), db[x].session = db[h].session PROVE x = h
  <2>1. x \in Run /\ h \in Run /\ x <= h /\ h <= x
    BY <1>1 DEF Heads, Conversation, Exists
  <2> QED BY <2>1, NobodyIsNoRun
<1>2. db[c].session # Nobody
  BY DEF Heads
<1>3. Latest(db, c) = CHOOSE x \in Heads(db) : db[x].session = db[c].session
  BY <1>2 DEF Latest
<1>4. /\ (CHOOSE x \in Heads(db) : db[x].session = db[c].session) \in Heads(db)
      /\ db[CHOOSE x \in Heads(db) : db[x].session = db[c].session].session = db[c].session
  OBVIOUS
<1> QED BY <1>1, <1>3, <1>4

LEMMA LatestIsHead ==
    ASSUME NEW db \in Ledger, NEW c \in Exists(db), db[c].session # Nobody
    PROVE  /\ Latest(db, c) \in Heads(db)
           /\ db[Latest(db, c)].session = db[c].session
<1>1. c \in Conversation(db, db[c].session) /\ db[c].session \in Run
  <2>1. c \in Run
    BY DEF Exists
  <2>2. db[c].session \in RunOrNobody
    BY <2>1 DEF Row
  <2> QED BY <2>1, <2>2 DEF Conversation, RunOrNobody
<1>2. \E h \in Heads(db) : db[h].session = db[c].session
  BY <1>1, ConversationHasHead
<1> QED BY <1>2, HeadIsLatest

\* The newest run of a conversation, once it has ended, may be resumed: nothing
\* continues it and no turn speaks to the conversation.
LEMMA HeadMayBeResumed ==
    ASSUME NEW db \in Ledger, NEW disk_ \in SUBSET Run, NEW barred, TalkInv(db, disk_),
           NEW p \in Heads(db), p \in Finished(db), db[p].session \notin barred
    PROVE  ResumeAllowed(db, disk_, barred, p)
<1>1. /\ p \in Run /\ p \in Exists(db) /\ db[p].session # Nobody
      /\ \A q \in Conversation(db, db[p].session) : q <= p
  BY DEF Heads, Exists
<1>2. SessionOf(db, disk_, p) = db[p].session /\ RecordOf(db, disk_, p) # Nobody
  BY <1>1, NoRecordAlone, SessionOfTyped DEF TalkInv
<1>3. Successors(db, p) = {}
  <2> SUFFICES ASSUME NEW q \in Successors(db, p) PROVE FALSE
    OBVIOUS
  <2>1. q \in Exists(db) /\ p \in Predecessors(db[q])
    BY <1>1, NobodyIsNoRun DEF Successors, Predecessors
  <2>2. p < q /\ db[q].session = db[p].session
    BY <1>1, <1>2, <2>1 DEF TalkInv, PredecessorsHold
  <2>3. q <= p /\ q \in Run
    BY <1>1, <2>1, <2>2 DEF Conversation, Exists
  <2> QED BY <1>1, <2>2, <2>3, NobodyIsNoRun
<1>4. ASSUME NEW q \in Conversation(db, db[p].session), q \in Nonterminal(db)
      PROVE  FALSE
  <2>1. q \in Run /\ q \in Exists(db) /\ q <= p /\ db[q].session = db[p].session
    BY <1>1 DEF Conversation, Exists
  <2>2. q # p
    BY <1>4 DEF Nonterminal, Pending, Running, Finished, Terminal
  <2>3. q < p
    BY <1>1, <2>1, <2>2, NobodyIsNoRun
  <2>4. SessionOf(db, disk_, q) = SessionOf(db, disk_, p)
    BY <1>1, <1>2, <2>1, SessionOfTyped
  <2>5. Successors(db, q) # {}
    BY <1>1, <1>2, <2>1, <2>3, <2>4 DEF TalkInv, TalkGoesOn
  <2>6. q \in Finished(db)
    BY <2>1, <2>5, ContinuedHaveEnded DEF TalkInv
  <2> QED BY <1>4, <2>6 DEF Nonterminal, Pending, Running, Finished, Terminal
<1>5. ~Busy(db, db[p].session)
  BY <1>4 DEF Busy
<1> QED BY <1>1, <1>2, <1>3, <1>5 DEF ResumeAllowed, Resumable, Finished

\* What the property asks of a ledger, without the executor's rules.
LEMMA NoneWaitingIsEnough ==
    ASSUME daemon = "up" /\ Orphans = {} /\ Unused(runs) # {} => Waiting(runs, Barred) = {}
    PROVE  FollowUpNotMissed
<1> SUFFICES ASSUME NEW p \in Due(runs), p \notin Waiting(runs, Barred) PROVE PassedOver(p)
  BY DEF FollowUpNotMissed
<1> QED BY DEF Waiting, PassedOver

\* Rows that are added, queued and not yet submitted, make no parent wait: one
\* that waits is waiting without them, for the same children.
LEMMA AddedMakeNoneWait ==
    ASSUME NEW db \in Ledger, NEW db2 \in Ledger, NEW disk_ \in SUBSET Run, NEW barred,
           Appended(db, db2, disk_), Grown(db, db2), ToldOfRuns(db),
           NEW p \in Waiting(db2, barred)
    PROVE  p \in Waiting(db, barred) /\ Kids(db2, db2[p].session) = Kids(db, db[p].session)
<1> DEFINE s == db2[p].session
<1>1. /\ p \in Due(db2) /\ p \in Heads(db2) /\ p \in Run /\ db2[p].status = "completed"
      /\ s # Nobody
  BY DEF Waiting, Due, Heads, Exists
<1>2. /\ Exists(db) \subseteq Exists(db2) /\ \A r \in Exists(db) : db2[r] = db[r]
      /\ Exists(db2) \subseteq Run /\ Exists(db) \subseteq Run
  BY DEF Appended, Exists
<1>3. ASSUME NEW i \in Exists(db2), i \notin Exists(db)
      PROVE  /\ db2[i].status = "pending" /\ ~db2[i].submitted
             /\ i \notin Finished(db2)
             /\ \A r \in Exists(db) : r < i
  <2>1. i \in Run \ Exists(db) /\ db2[i].status # "absent"
    BY <1>3 DEF Exists
  <2>2. db2[i].status = "pending"
    BY <2>1 DEF Grown
  <2>3. i \in New(db, db2)
    BY <1>3 DEF New
  <2>4. ~db2[i].submitted /\ \A r \in Exists(db) : r < i
    BY <2>3 DEF Appended, Opens, Continues
  <2> QED BY <2>2, <2>4 DEF Finished, Terminal
<1>4. p \in Exists(db) /\ db2[p] = db[p]
  <2>1. p \in Exists(db2)
    BY <1>1 DEF Heads
  <2> QED BY <1>1, <1>2, <1>3, <2>1
<1>5. \A r \in Conversation(db, s) : r \in Conversation(db2, s)
  BY <1>2 DEF Conversation
<1>6. p \in Heads(db)
  <2>1. \A q \in Conversation(db, db[p].session) : q <= p
    BY <1>1, <1>4, <1>5 DEF Heads
  <2> QED BY <1>1, <1>4, <2>1 DEF Heads
<1>7. Delivered(db2, s) = Delivered(db, s)
  <2>1. {q \in Conversation(db2, s) : db2[q].submitted} = {q \in Conversation(db, s) : db[q].submitted}
    BY <1>2, <1>3 DEF Conversation
  <2>2. \A q \in {q \in Conversation(db, s) : db[q].submitted} : db2[q] = db[q]
    BY <1>2 DEF Conversation
  <2> QED BY <2>1, <2>2 DEF Delivered
<1>8. Delivered(db, s) \subseteq Exists(db)
  BY DEF Delivered, ToldOfRuns, Conversation
<1>9. \A k \in Kids(db2, s) : k \in Finished(db2) /\ k \in Exists(db)
  <2>1. \A k \in Kids(db2, s) : k \in Finished(db2)
    BY <1>1 DEF Due
  <2>2. Finished(db2) \subseteq Exists(db2)
    BY DEF Finished, Exists, Terminal
  <2> QED BY <1>3, <2>1, <2>2
<1>10. ASSUME NEW c \in Exists(db2), db2[c].parent = s, Latest(db2, c) \notin Exists(db)
       PROVE  FALSE
  <2>1. Latest(db2, c) \in Kids(db2, s)
    BY <1>7, <1>8, <1>10 DEF Kids
  <2> QED BY <1>9, <1>10, <2>1
<1>11. ASSUME NEW c \in Exists(db2), db2[c].parent = s
       PROVE  c \in Exists(db) /\ db[c].parent = s /\ Latest(db2, c) = Latest(db, c)
  <2>1. CASE db2[c].session = Nobody
    <3>1. Latest(db2, c) = c
      BY <2>1 DEF Latest
    <3>2. c \in Exists(db)
      BY <1>10, <1>11, <3>1
    <3> QED BY <1>2, <1>11, <2>1, <3>1, <3>2 DEF Latest
  <2>2. CASE db2[c].session # Nobody
    <3> DEFINE h == Latest(db2, c)
    <3>1. h \in Heads(db2) /\ db2[h].session = db2[c].session
      BY <2>2, LatestIsHead
    <3>2. h \in Exists(db)
      BY <1>10, <1>11
    <3> HIDE DEF h
    <3>3. c <= h /\ c \in Run /\ h \in Run
      BY <1>2, <3>1, <3>2 DEF Heads, Conversation
    <3>4. c \in Exists(db)
      <4> SUFFICES ASSUME c \notin Exists(db) PROVE FALSE
        OBVIOUS
      <4>1. h < c
        BY <1>3, <3>2
      <4> QED BY <3>3, <4>1, NobodyIsNoRun
    <3>5. db2[h] = db[h] /\ db2[c] = db[c]
      BY <1>2, <3>2, <3>4
    <3>6. h \in Heads(db)
      <4>1. \A q \in Conversation(db, db[h].session) : q \in Conversation(db2, db2[h].session)
        BY <1>2, <3>5 DEF Conversation
      <4> QED BY <3>1, <3>2, <3>5, <4>1 DEF Heads
    <3>7. Latest(db, c) = h
      BY <3>1, <3>5, <3>6, HeadIsLatest
    <3> QED BY <1>11, <3>4, <3>5, <3>7 DEF h
  <2> QED BY <2>1, <2>2
<1>12. ASSUME NEW c \in Exists(db), db[c].parent = s
       PROVE  c \in Exists(db2) /\ db2[c].parent = s
  BY <1>2, <1>12
<1>13. Kids(db2, s) = Kids(db, s)
  <2>1. {Latest(db2, c) : c \in {q \in Exists(db2) : db2[q].parent = s}}
           = {Latest(db, c) : c \in {q \in Exists(db) : db[q].parent = s}}
    BY <1>11, <1>12
  <2> QED BY <1>7, <2>1 DEF Kids
<1>14. ActiveParents(db) \subseteq ActiveParents(db2)
  BY <1>2 DEF ActiveParents, Nonterminal, Pending, Running, Exists
<1>15. \A k \in Kids(db, s) : /\ k \in Finished(db) /\ db2[k] = db[k]
                              /\ db[k].session # Nobody => db[k].session \notin ActiveParents(db)
  <2>1. \A k \in Kids(db, s) : /\ k \in Finished(db2) /\ k \in Exists(db)
                               /\ db2[k].session # Nobody => db2[k].session \notin ActiveParents(db2)
    BY <1>1, <1>9, <1>13 DEF Due
  <2> QED BY <1>2, <1>14, <2>1 DEF Finished
<1>16. p \in Due(db)
  <2>1. /\ db[p].submitted \/ db[p].completions = {}
        /\ db[p].depth < MaxDepth
        /\ Kids(db, s) # {}
    BY <1>1, <1>4, <1>13 DEF Due
  <2> HIDE DEF s
  <2>2. s = db[p].session
    BY <1>4 DEF s
  <2> QED BY <1>1, <1>4, <1>6, <1>15, <2>1, <2>2 DEF Due
<1>17. p \in Waiting(db, barred)
  <2>1. /\ db2[p].session \notin barred
        /\ \A k \in Kids(db2, s) \cap Delegators(db2) : db2[k].session \notin barred
    BY DEF Waiting
  <2>2. Delegators(db) \subseteq Delegators(db2)
    BY <1>2 DEF Delegators
  <2> QED BY <1>4, <1>13, <1>15, <1>16, <2>1, <2>2 DEF Waiting
<1> QED BY <1>4, <1>13, <1>17

\* Steps of single rows. The terminal rows, and whose child a row is, stay.
RowsStay(db, db2) ==
    /\ Exists(db2) = Exists(db) /\ Finished(db2) = Finished(db)
    /\ \A r \in Finished(db) : db2[r] = db[r]
    /\ \A r \in Exists(db) : db2[r].parent = db[r].parent

\* Nor does a step of rows that leaves alone the parent's conversation, what
\* was delivered there and which run is the latest of each conversation.
LEMMA NoneBeginsToWait ==
    ASSUME NEW db \in Ledger, NEW db2 \in Ledger, NEW barred, RowsStay(db, db2),
           NEW p \in Waiting(db2, barred),
           Conversation(db2, db2[p].session) = Conversation(db, db2[p].session),
           Delivered(db2, db2[p].session) = Delivered(db, db2[p].session),
           \A c \in Exists(db) : Latest(db2, c) = Latest(db, c)
    PROVE  p \in Waiting(db, barred)
<1>1. /\ p \in Due(db2) /\ p \in Heads(db2) /\ p \in Exists(db) /\ p \in Finished(db2)
      /\ db2[p].status = "completed"
  BY DEF Waiting, Due, Heads, Exists, Finished, Terminal, RowsStay
<1>2. db2[p] = db[p]
  BY <1>1 DEF RowsStay
<1> DEFINE s == db[p].session
<1>3. p \in Heads(db)
  BY <1>1, <1>2 DEF Heads
<1>4. Kids(db2, s) = Kids(db, s)
  <2>1. {q \in Exists(db2) : db2[q].parent = s} = {q \in Exists(db) : db[q].parent = s}
    BY DEF RowsStay
  <2>2. {Latest(db2, c) : c \in {q \in Exists(db2) : db2[q].parent = s}}
           = {Latest(db, c) : c \in {q \in Exists(db) : db[q].parent = s}}
    BY <2>1
  <2> QED BY <1>2, <2>2 DEF Kids
<1>5. ActiveParents(db2) = ActiveParents(db)
  <2>1. Nonterminal(db2) = Nonterminal(db)
    <3>1. Nonterminal(db2) = Exists(db2) \ Finished(db2) /\ Nonterminal(db) = Exists(db) \ Finished(db)
      BY DEF Nonterminal, Pending, Running, Exists, Finished, Terminal, Row, Status
    <3> QED BY <3>1 DEF RowsStay
  <2>2. \A r \in Nonterminal(db) : db2[r].parent = db[r].parent
    BY DEF Nonterminal, Pending, Running, Exists, RowsStay
  <2> QED BY <2>1, <2>2 DEF ActiveParents
<1>6. \A k \in Kids(db, s) : /\ k \in Finished(db) /\ db2[k] = db[k]
                             /\ db[k].session # Nobody => db[k].session \notin ActiveParents(db)
  <2>1. \A k \in Kids(db, s) : /\ k \in Finished(db2)
                               /\ db2[k].session # Nobody => db2[k].session \notin ActiveParents(db)
    BY <1>1, <1>2, <1>4, <1>5 DEF Due
  <2> QED BY <2>1 DEF RowsStay
<1>7. p \in Due(db)
  <2>1. /\ db[p].submitted \/ db[p].completions = {}
        /\ db[p].depth < MaxDepth /\ db[p].status = "completed"
        /\ Kids(db, s) # {}
    BY <1>1, <1>2, <1>4 DEF Due
  <2> QED BY <1>3, <1>6, <2>1 DEF Due
<1>8. /\ s \notin barred
      /\ \A k \in Kids(db, s) \cap Delegators(db2) : db2[k].session \notin barred
  BY <1>2, <1>4 DEF Waiting
<1>9. Kids(db, s) \cap Delegators(db) \subseteq Delegators(db2)
  <2> SUFFICES ASSUME NEW k \in Kids(db, s), k \in Delegators(db) PROVE k \in Delegators(db2)
    OBVIOUS
  <2>1. k \in Exists(db) /\ db2[k] = db[k] /\ db[k].status = "completed"
    BY <1>6 DEF Delegators
  <2>2. PICK c \in Exists(db) : db[c].parent = db[k].session
    BY DEF Delegators
  <2>3. c \in Exists(db2) /\ k \in Exists(db2) /\ db2[c].parent = db2[k].session
    BY <2>1, <2>2 DEF RowsStay
  <2> QED BY <2>1, <2>3 DEF Delegators
<1> QED BY <1>6, <1>7, <1>8, <1>9 DEF Waiting

\* Conversations and their latest runs are a matter of the session column.
LEMMA SameSessionsSameTalk ==
    ASSUME NEW db \in Ledger, NEW db2 \in Ledger, Exists(db2) = Exists(db),
           \A r \in Exists(db) : db2[r].session = db[r].session
    PROVE  /\ \A s : Conversation(db2, s) = Conversation(db, s)
           /\ \A c \in Exists(db) : Latest(db2, c) = Latest(db, c)
<1>1. \A s : Conversation(db2, s) = Conversation(db, s)
  BY DEF Conversation
<1>2. Heads(db2) = Heads(db)
  BY <1>1 DEF Heads
<1>3. Heads(db) \subseteq Exists(db)
  BY DEF Heads
<1>4. ASSUME NEW c \in Exists(db) PROVE Latest(db2, c) = Latest(db, c)
  <2>1. CASE db[c].session = Nobody
    BY <2>1 DEF Latest
  <2>2. CASE db[c].session # Nobody
    <3>1. Latest(db, c) \in Heads(db) /\ db[Latest(db, c)].session = db[c].session
      BY <2>2, LatestIsHead
    <3>2. Latest(db, c) \in Heads(db2) /\ db2[Latest(db, c)].session = db2[c].session
      BY <1>2, <1>3, <3>1
    <3> QED BY <3>2, HeadIsLatest
  <2> QED BY <2>1, <2>2
<1> QED BY <1>1, <1>4

\* The claim of a pump makes no parent wait.
LEMMA ClaimsMakeNoneWait ==
    ASSUME NEW db \in Ledger, NEW turns, Pumped(db, turns), NEW barred
    PROVE  Waiting(runs', barred) \subseteq Waiting(db, barred)
<1> DEFINE claimed == IF daemon = "stopping" THEN {} ELSE Claimable(db, turns)
<1>1. claimed \subseteq Pending(db) /\ runs' = SetStatus(db, claimed, "running")
  BY DEF Pumped, Claimable
<1> HIDE DEF claimed
<1>2. /\ runs' \in Ledger
      /\ Exists(runs') = Exists(db) /\ Finished(runs') = Finished(db)
      /\ \A r \in Finished(db) : runs'[r] = db[r]
  BY PumpShape DEF Tail
<1>3. ASSUME NEW r \in Run
      PROVE  /\ runs'[r].parent = db[r].parent /\ runs'[r].session = db[r].session
             /\ runs'[r].completions = db[r].completions
             /\ runs'[r].submitted = db[r].submitted
  <2>1. db[r] \in Row
    OBVIOUS
  <2> QED BY <1>1, <2>1 DEF SetStatus, Row
<1>4. Exists(db) \subseteq Run
  BY DEF Exists
<1>5. RowsStay(db, runs')
  BY <1>2, <1>3, <1>4 DEF RowsStay
<1>6. /\ \A s : Conversation(runs', s) = Conversation(db, s)
      /\ \A c \in Exists(db) : Latest(runs', c) = Latest(db, c)
  BY <1>2, <1>3, <1>4, SameSessionsSameTalk
<1>7. \A s : Conversation(db, s) \subseteq Run
  BY <1>4 DEF Conversation
<1>8. \A s : Delivered(runs', s) = Delivered(db, s)
  BY <1>3, <1>6, <1>7 DEF Delivered
<1> QED BY <1>2, <1>5, <1>6, <1>8, NoneBeginsToWait

\* A pass over the parents leaves none waiting: it continued the parent, or a
\* newer child conversation of the parent, which is then running again.
LEMMA PassLeavesNoneWaiting ==
    ASSUME NEW db \in Ledger, NEW disk_ \in SUBSET Run, NEW barred \in SUBSET Run,
           TalkInv(db, disk_), ToldOfRuns(db), Unused(Reconciled(db, disk_, barred)) # {}
    PROVE  Waiting(Reconciled(db, disk_, barred), barred) = {}
<1> DEFINE db2 == Reconciled(db, disk_, barred)
           P == {q \in Continuing(db) : ResumeAllowed(db, disk_, barred, q)}
           new == [p \in P |-> ResumeRow(db, disk_, p, Kids(db, db[p].session))]
<1>1. P \subseteq Run /\ new \in [P -> QueuedRow]
  <2>1. P \subseteq Run
    BY DEF Continuing, Due, Heads, Exists
  <2> QED BY <2>1, ResumeIsQueued, KidsAreRuns
<1>2. db2 = Insert(db, new)
  BY DEF Reconciled
<1>3. /\ db2 \in Ledger /\ Appended(db, db2, disk_) /\ Grown(db, db2)
  BY ReconcileKeepsTalk, ReconcileGrows
<1>4. ASSUME NEW q \in Continuing(db), db[q].session \notin barred
      PROVE  q \notin Heads(db2)
  <2>1. q \in Heads(db) /\ q \in Finished(db) /\ q \in Run /\ q \in Exists(db)
    BY DEF Continuing, Due, Heads, Exists, Finished, Terminal
  <2>2. ResumeAllowed(db, disk_, barred, q)
    BY <1>4, <2>1, HeadMayBeResumed
  <2>3. q \in P
    BY <2>2
  <2>4. new[q].session = db[q].session
    <3>1. SessionOf(db, disk_, q) = db[q].session
      BY <2>1, SessionOfTyped DEF Heads
    <3> QED BY <2>3, <3>1 DEF ResumeRow, Successor
  <2> HIDE DEF new, P
  <2>5. PICK i \in New(db, db2) : db2[i] = new[q]
    BY <1>1, <1>2, <2>3, InsertPlacesAll
  <2>6. q < i /\ i \in Exists(db2) /\ db2[q] = db[q]
    BY <1>3, <2>1, <2>5 DEF Appended, New
  <2>7. i \in Conversation(db2, db2[q].session)
    BY <2>4, <2>5, <2>6 DEF Conversation
  <2>8. i \in Run
    BY <2>6 DEF Exists
  <2> QED BY <2>1, <2>6, <2>7, <2>8, NobodyIsNoRun DEF Heads
<1> HIDE DEF db2
<1> SUFFICES ASSUME NEW p \in Waiting(db2, barred) PROVE FALSE
  BY DEF db2
<1>5. p \in Waiting(db, barred) /\ Kids(db2, db2[p].session) = Kids(db, db[p].session)
  BY <1>3, AddedMakeNoneWait
<1>6. /\ p \in Due(db) /\ p \in Due(db2) /\ p \in Heads(db2) /\ db[p].session \notin barred
      /\ \A k \in Kids(db, db[p].session) \cap Delegators(db) : db[k].session \notin barred
  BY <1>5 DEF Waiting, Due
<1>7. p \notin Continuing(db)
  BY <1>4, <1>6
<1>8. PICK k \in Kids(db, db[p].session) : k \in Heads(db) /\ k \in Continuing(db)
  BY <1>6, <1>7, PassTakes
<1>13. k \in Delegators(db)
  <2>1. k \in Exists(db) /\ db[k].status = "completed" /\ Kids(db, db[k].session) # {}
    BY <1>8 DEF Continuing, Due, Heads
  <2>2. \E c \in Exists(db) : db[c].parent = db[k].session
    BY <2>1 DEF Kids
  <2> QED BY <2>1, <2>2 DEF Delegators
<1>9. k \notin Heads(db2)
  BY <1>4, <1>6, <1>8, <1>13
<1>10. PICK c \in Exists(db2) : k = Latest(db2, c)
  BY <1>5, <1>8 DEF Kids
<1>11. db2[k] = db[k] /\ db[k].session # Nobody
  BY <1>3, <1>8 DEF Appended, Heads
<1>12. db2[c].session # Nobody
  BY <1>10, <1>11 DEF Latest
<1> QED BY <1>3, <1>9, <1>10, <1>12, LatestIsHead

\* A run is told of runs in the table when its row is inserted, and rows stay.
LEMMA InsertsTellOfRuns ==
    ASSUME NEW db \in Ledger, ToldOfRuns(db), NEW keys, NEW new \in [keys -> QueuedRow],
           \A k \in keys : new[k].completions \subseteq Exists(db)
    PROVE  ToldOfRuns(Insert(db, new))
<1> DEFINE db2 == Insert(db, new)
<1>1. \A r \in Exists(db) : db2[r] = db[r]
  BY InsertGrows DEF Grown
<1>2. ASSUME NEW q \in Exists(db2), q \notin Exists(db)
      PROVE  db2[q].completions \subseteq Exists(db)
  <2>1. q \in New(db, db2)
    BY <1>2 DEF New
  <2> QED BY <2>1, InsertPlaces
<1> HIDE DEF db2
<1>3. Exists(db) \subseteq Exists(db2)
  BY <1>1 DEF Exists
<1>4. ToldOfRuns(db2)
  BY <1>1, <1>2, <1>3 DEF ToldOfRuns
<1> QED BY <1>4 DEF db2

LEMMA KidsExist ==
    ASSUME NEW db \in Ledger, NEW s
    PROVE  Kids(db, s) \subseteq Exists(db)
<1>1. ASSUME NEW c \in Exists(db) PROVE Latest(db, c) \in Exists(db)
  <2>1. CASE db[c].session = Nobody
    BY <2>1 DEF Latest
  <2>2. CASE db[c].session # Nobody
    BY <2>2, LatestIsHead DEF Heads
  <2> QED BY <2>1, <2>2
<1> QED BY <1>1 DEF Kids

LEMMA PassTellsOfRuns ==
    ASSUME NEW db \in Ledger, NEW disk_ \in SUBSET Run, NEW barred \in SUBSET Run, ToldOfRuns(db)
    PROVE  ToldOfRuns(Reconciled(db, disk_, barred))
<1> DEFINE P == {q \in Continuing(db) : ResumeAllowed(db, disk_, barred, q)}
           new == [p \in P |-> ResumeRow(db, disk_, p, Kids(db, db[p].session))]
<1>1. P \subseteq Run /\ new \in [P -> QueuedRow]
  <2>1. P \subseteq Run
    BY DEF Continuing, Due, Heads, Exists
  <2> QED BY <2>1, ResumeIsQueued, KidsAreRuns
<1>2. \A p \in P : new[p].completions \subseteq Exists(db)
  BY KidsExist DEF ResumeRow, Successor
<1>3. Reconciled(db, disk_, barred) = Insert(db, new)
  BY DEF Reconciled
<1> HIDE DEF P, new
<1> QED BY <1>1, <1>2, <1>3, InsertsTellOfRuns

LEMMA RestartTellsOfRuns ==
    ASSUME NEW db \in Ledger, NEW disk_ \in SUBSET Run, NEW closed_, ToldOfRuns(db)
    PROVE  ToldOfRuns(FollowUpsRetried(db, disk_, closed_))
<1> DEFINE P == AutoRetries(db, disk_, closed_)
           new == [r \in P |-> RetryRow(db, disk_, r)]
<1>1. P \subseteq Exists(db) /\ P \subseteq Run
  BY DEF AutoRetries, Exists
<1>2. new \in [P -> QueuedRow]
  BY <1>1, RetryIsQueued
<1>3. \A r \in P : new[r].completions \subseteq Exists(db)
  BY <1>1 DEF RetryRow, Successor, ToldOfRuns
<1>4. FollowUpsRetried(db, disk_, closed_) = Insert(db, new)
  BY DEF FollowUpsRetried
<1> HIDE DEF P, new
<1> QED BY <1>2, <1>3, <1>4, InsertsTellOfRuns

\* What a change of status leaves alone.
LEMMA StatusTellsOfRuns ==
    ASSUME NEW db \in Ledger, ToldOfRuns(db), NEW S, S \subseteq Nonterminal(db),
           NEW status \in Status \ {"absent"}
    PROVE  SetStatus(db, S, status) \in Ledger /\ ToldOfRuns(SetStatus(db, S, status))
<1> DEFINE db2 == SetStatus(db, S, status)
<1>1. db2 \in Ledger /\ Exists(db2) = Exists(db)
  BY StatusShape DEF Moved
<1>2. ASSUME NEW r \in Run PROVE db2[r].completions = db[r].completions
  <2>1. db[r] \in Row
    OBVIOUS
  <2> QED BY <2>1 DEF SetStatus, Row
<1>3. Exists(db) \subseteq Run
  BY DEF Exists
<1> HIDE DEF db2
<1>4. ToldOfRuns(db2)
  BY <1>1, <1>2, <1>3 DEF ToldOfRuns
<1> QED BY <1>1, <1>4 DEF db2

\* A tail that makes a pass leaves no parent waiting.
LEMMA SettlingLeavesNoneWaiting ==
    ASSUME TypeOK, daemon # "stopping", NEW db \in Ledger, TalkInv(db, saved), ToldOfRuns(db),
           NEW turns, Settled(db, turns), Unused(runs') # {}
    PROVE  Waiting(runs', Barred) = {}
<1> DEFINE db2 == Reconciled(db, saved, Barred)
<1>1. saved \in SUBSET Run /\ Barred \in SUBSET Run
  BY DEF TypeOK, Barred
<1>2. Pumped(db2, turns)
  BY DEF Settled
<1>3. db2 \in Ledger
  BY <1>1, ReconcileKeepsTalk
<1>4. Unused(db2) # {} => Waiting(db2, Barred) = {}
  BY <1>1, PassLeavesNoneWaiting
<1> HIDE DEF db2
<1>5. Unused(db2) = Unused(runs')
  BY <1>2, <1>3, PumpShape DEF Unused
<1> QED BY <1>2, <1>3, <1>4, <1>5, ClaimsMakeNoneWait

-----------------------------------------------------------------------------
(* The invariant of the passes, action by action.                          *)

PassInv ==
    /\ ToldOfRuns(runs)
    /\ daemon = "up" /\ Orphans = {} /\ Unused(runs) # {} => Waiting(runs, Barred) = {}

LEMMA PumpTellsOfRuns ==
    ASSUME NEW db \in Ledger, ToldOfRuns(db), NEW turns, Pumped(db, turns)
    PROVE  ToldOfRuns(runs')
<1> DEFINE claimed == IF daemon = "stopping" THEN {} ELSE Claimable(db, turns)
<1>1. runs' = SetStatus(db, claimed, "running")
  BY DEF Pumped
<1>2. claimed \subseteq Nonterminal(db) /\ "running" \in Status \ {"absent"}
  BY DEF Claimable, Nonterminal, Status
<1> HIDE DEF claimed
<1> QED BY <1>1, <1>2, StatusTellsOfRuns

\* Every handler that ends with a pass over the parents.
LEMMA SettlingKeepsPass ==
    ASSUME TypeOK, NEW db \in Ledger, TalkInv(db, saved), ToldOfRuns(db),
           NEW turns, Settled(db, turns), Barred' = Barred,
           daemon = "stopping" => daemon' = "stopping"
    PROVE  PassInv'
<1> DEFINE db2 == IF daemon = "stopping" THEN db ELSE Reconciled(db, saved, Barred)
<1>1. saved \in SUBSET Run /\ Barred \in SUBSET Run
  BY DEF TypeOK, Barred
<1>2. db2 \in Ledger /\ ToldOfRuns(db2) /\ Pumped(db2, turns)
  BY <1>1, ReconcileKeepsTalk, PassTellsOfRuns DEF Settled
<1> HIDE DEF db2
<1>3. ToldOfRuns(runs')
  BY <1>2, PumpTellsOfRuns
<1>4. ASSUME daemon' = "up", Unused(runs') # {} PROVE Waiting(runs', Barred) = {}
  <2>1. daemon # "stopping"
    BY <1>4
  <2> QED BY <1>4, <2>1, SettlingLeavesNoneWaiting
<1> QED BY <1>3, <1>4 DEF PassInv

\* Rows end, and a pass follows.
LEMMA EndingKeepsPass ==
    ASSUME TypeOK, Talk, PassInv, NEW S, S \subseteq Nonterminal(runs), NEW status \in Terminal,
           NEW turns, Settled(SetStatus(runs, S, status), turns), UNCHANGED <<disk, daemon>>
    PROVE  PassInv'
<1> DEFINE db == SetStatus(runs, S, status)
<1>1. runs \in Ledger /\ saved \in SUBSET Run /\ status \in Status \ {"absent"}
  BY DEF TypeOK, Terminal, Status
<1>2. db \in Ledger /\ TalkInv(db, saved) /\ ToldOfRuns(db)
  BY <1>1, StatusKeepsTalk, StatusTellsOfRuns DEF Talk, PassInv
<1>3. Settled(db, turns) /\ Barred' = Barred /\ daemon' = daemon
  BY DEF disk, Barred
<1> HIDE DEF db
<1> QED BY <1>2, <1>3, SettlingKeepsPass

\* A pump alone takes no orphan away.
LEMMA PumpKeepsOrphans ==
    ASSUME NEW db \in Ledger, Running(db) = Running(runs), Pumped(db, live)
    PROVE  Orphans \subseteq Orphans'
<1> DEFINE claimed == IF daemon = "stopping" THEN {} ELSE Claimable(db, live)
<1>1. /\ claimed \subseteq Pending(db) /\ runs' = SetStatus(db, claimed, "running")
      /\ live' = live \cup claimed
  BY DEF Pumped, Claimable
<1> HIDE DEF claimed
<1>2. SUFFICES ASSUME NEW r \in Orphans PROVE r \in Orphans'
  OBVIOUS
<1>3. r \in Run /\ db[r].status = "running" /\ r \notin live
  BY DEF Orphans, Running
<1>4. r \notin claimed
  BY <1>1, <1>3 DEF Pending
<1>5. runs'[r] = db[r]
  BY <1>1, <1>3, <1>4 DEF SetStatus
<1> QED BY <1>1, <1>3, <1>4, <1>5 DEF Orphans, Running

\* The requests: rows are added and the queue is pumped, with no pass.
LEMMA RequestKeepsPass ==
    ASSUME IInv, Talk, PassInv, daemon = "up", Unused(runs) # {},
           NEW keys, NEW new \in [keys -> QueuedRow],
           \A k \in keys : \/ Opens(new[k])
                           \/ k \in Exists(runs) /\ Continues(runs, saved, k, new[k]),
           \A k \in keys : new[k].completions \subseteq Exists(runs),
           Pumped(Insert(runs, new), live), UNCHANGED <<disk, daemon>>
    PROVE  PassInv'
<1> DEFINE db == Insert(runs, new)
<1>1. runs \in Ledger /\ saved \in SUBSET Run /\ ToldOfRuns(runs) /\ Barred' = Barred
  BY DEF IInv, TypeOK, PassInv, disk, Barred
<1>2. db \in Ledger /\ Appended(runs, db, saved) /\ Grown(runs, db) /\ ToldOfRuns(db)
  BY <1>1, InsertAppends, InsertGrows, InsertsTellOfRuns
<1>3. Running(db) = Running(runs) /\ Pumped(db, live)
  BY <1>1, <1>2, GrownKeeps
<1> HIDE DEF db
<1>4. Waiting(runs', Barred) \subseteq Waiting(runs, Barred)
  BY <1>1, <1>2, <1>3, ClaimsMakeNoneWait, AddedMakeNoneWait
<1>5. Orphans \subseteq Orphans'
  BY <1>2, <1>3, PumpKeepsOrphans
<1>6. ToldOfRuns(runs')
  BY <1>2, <1>3, PumpTellsOfRuns
<1> QED BY <1>1, <1>4, <1>5, <1>6 DEF PassInv

LEMMA LaunchKeepsPass ==
    ASSUME IInv, Talk, PassInv, NEW parent \in RunOrNobody, Launch(parent)
    PROVE  PassInv'
<1> DEFINE row == [Blank EXCEPT !.status = "pending", !.parent = parent,
                                !.depth = DepthUnder(runs, parent)]
           new == [k \in {Nobody} |-> row]
<1>1. runs \in Ledger
  BY DEF IInv, TypeOK
<1>2. DepthUnder(runs, parent) \in 0..MaxDepth
  BY <1>1, DepthIsPositive, LedgerAssumption DEF Launch
<1>3. row \in QueuedRow /\ Opens(row) /\ row.completions = {}
  BY <1>2 DEF Blank, QueuedRow, Row, Status, RunOrNobody, Opens, Predecessors
<1>4. /\ new \in [{Nobody} -> QueuedRow]
      /\ \A k \in {Nobody} : Opens(new[k]) /\ new[k].completions \subseteq Exists(runs)
  BY <1>3
<1>5. /\ Pumped(Insert(runs, new), live) /\ daemon = "up" /\ Unused(runs) # {}
      /\ UNCHANGED <<disk, daemon>>
  BY DEF Launch
<1> HIDE DEF new
<1> QED BY <1>4, <1>5, RequestKeepsPass

LEMMA RetryKeepsPass ==
    ASSUME IInv, Talk, PassInv, NEW r \in Run, Retry(r)
    PROVE  PassInv'
<1> DEFINE new == [k \in {r} |-> RetryRow(runs, saved, r)]
<1>1. runs \in Ledger /\ saved \in SUBSET Run
  BY DEF IInv, TypeOK
<1>2. new \in [{r} -> QueuedRow]
  BY <1>1, RetryIsQueued
<1>3. r \in Exists(runs) /\ Continues(runs, saved, r, new[r])
  BY <1>1, RetryContinues DEF Retry
<1>4. new[r].completions \subseteq Exists(runs)
  BY <1>3 DEF RetryRow, Successor, PassInv, ToldOfRuns
<1>5. /\ Pumped(Insert(runs, new), live) /\ daemon = "up" /\ Unused(runs) # {}
      /\ UNCHANGED <<disk, daemon>>
  BY DEF Retry
<1> HIDE DEF new
<1> QED BY <1>2, <1>3, <1>4, <1>5, RequestKeepsPass

LEMMA ResumeKeepsPass ==
    ASSUME IInv, Talk, PassInv, NEW r \in Run, Resume(r)
    PROVE  PassInv'
<1> DEFINE carried == Undelivered(runs, r)
           new == [k \in {r} |-> ResumeRow(runs, saved, r, carried)]
<1>1. runs \in Ledger /\ saved \in SUBSET Run
  BY DEF IInv, TypeOK
<1>2. carried \in SUBSET Run
  BY <1>1 DEF Undelivered, Row
<1>3. new \in [{r} -> QueuedRow]
  BY <1>1, <1>2, ResumeIsQueued
<1>4. r \in Exists(runs) /\ Continues(runs, saved, r, ResumeRow(runs, saved, r, carried))
  BY <1>1, ResumeContinues DEF Resume
<1>5. new[r] = ResumeRow(runs, saved, r, carried) /\ new[r].completions = carried
  BY DEF ResumeRow, Successor
<1>6. carried \subseteq Exists(runs)
  BY <1>4 DEF Undelivered, PassInv, ToldOfRuns
<1>7. /\ Pumped(Insert(runs, new), live) /\ daemon = "up" /\ Unused(runs) # {}
      /\ UNCHANGED <<disk, daemon>>
  BY DEF Resume
<1> HIDE DEF new, carried
<1> QED BY <1>3, <1>4, <1>5, <1>6, <1>7, RequestKeepsPass

\* No turn speaks to a conversation whose newest run has ended.
LEMMA EndedTalkIsQuiet ==
    ASSUME NEW db \in Ledger, NEW disk_ \in SUBSET Run, TalkInv(db, disk_),
           NEW p \in Heads(db), p \in Finished(db), NEW r \in Nonterminal(db)
    PROVE  SessionOf(db, disk_, r) # db[p].session
<1> SUFFICES ASSUME SessionOf(db, disk_, r) = db[p].session PROVE FALSE
  OBVIOUS
<1>1. /\ p \in Run /\ r \in Run /\ p \in Exists(db) /\ r \in Exists(db)
      /\ r \notin Finished(db) /\ db[p].session # Nobody
  BY DEF Heads, Exists, Nonterminal, Pending, Running, Finished, Terminal
<1>2. SessionOf(db, disk_, p) = db[p].session
  BY <1>1, SessionOfTyped
<1>3. CASE r < p
  <2>1. Successors(db, r) # {}
    BY <1>1, <1>2, <1>3 DEF TalkInv, TalkGoesOn
  <2> QED BY <1>1, <2>1, ContinuedHaveEnded DEF TalkInv
<1>4. CASE p < r
  <2>1. PICK x \in Successors(db, p) : db[x].session = db[p].session
    BY <1>1, <1>2, <1>4 DEF TalkInv, TalkGoesOn
  <2>2. x \in Exists(db) /\ p \in Predecessors(db[x])
    BY <1>1, <2>1, NobodyIsNoRun DEF Successors, Predecessors
  <2>3. p < x /\ x <= p /\ x \in Run
    BY <2>1, <2>2 DEF TalkInv, PredecessorsHold, Heads, Conversation, Exists
  <2> QED BY <1>1, <2>3, NobodyIsNoRun
<1> QED BY <1>1, <1>3, <1>4, NobodyIsNoRun

\* A turn's own callbacks: its conversation is not the one of a waiting parent.
LEMMA OwnRowKeepsPass ==
    ASSUME IInv, Talk, Talk', PassInv, NEW r \in live, runs' \in Ledger, saved' = saved,
           \A q \in Run \ {r} : runs'[q] = runs[q],
           runs'[r].status = runs[r].status, runs'[r].parent = runs[r].parent,
           runs'[r].completions = runs[r].completions,
           runs'[r].session # Nobody, runs'[r].session = SessionOf(runs, saved, r),
           UNCHANGED <<Barred, daemon, live>>
    PROVE  PassInv'
<1>1. /\ runs \in Ledger /\ saved \in SUBSET Run /\ TalkInv(runs, saved) /\ TalkInv(runs', saved)
      /\ r \in Run /\ r \in Exists(runs) /\ r \in Nonterminal(runs) /\ r \notin Finished(runs)
  BY DEF IInv, TypeOK, LiveTurnIsRunning, Running, Exists, Nonterminal, Finished, Terminal, Talk
<1>2. Exists(runs') = Exists(runs) /\ Finished(runs') = Finished(runs)
      /\ Running(runs') = Running(runs) /\ Nonterminal(runs') = Nonterminal(runs)
      /\ Exists(runs) \subseteq Run
  BY <1>1 DEF Exists, Finished, Running, Nonterminal, Pending
<1>3. RowsStay(runs, runs')
  BY <1>1, <1>2 DEF RowsStay, Finished
<1>4. ToldOfRuns(runs')
  BY <1>1, <1>2 DEF ToldOfRuns, PassInv
<1>5. runs[r].session \in {Nobody, runs'[r].session}
  BY DEF SessionOf
<1>6. SessionOf(runs', saved, r) = runs'[r].session
  BY DEF SessionOf
<1>7. \A c \in Exists(runs) : Latest(runs', c) = Latest(runs, c)
  <2>1. CASE runs[r].session = runs'[r].session
    BY <1>1, <1>2, <2>1, SameSessionsSameTalk
  <2>2. CASE runs[r].session # runs'[r].session
    <3>1. runs[r].session = Nobody /\ runs'[r].session = r
      BY <1>5, <2>2 DEF SessionOf
    <3>2. ASSUME NEW q \in Conversation(runs', r), q # r PROVE FALSE
      <4>1. q \in Exists(runs') /\ runs'[q].session = r /\ q \in Run /\ r # Nobody
        BY <1>1, NobodyIsNoRun DEF Conversation, Exists
      <4>2. SessionOf(runs', saved, q) = r
        BY <4>1 DEF SessionOf
      <4>3. r < q
        <5>1. r <= q
          BY <4>1, <4>2, <1>1 DEF TalkInv, SessionsAreSaved
        <5> QED BY <1>1, <3>2, <4>1, <5>1, NobodyIsNoRun
      <4>4. Successors(runs', r) # {}
        BY <1>1, <1>2, <1>6, <3>1, <4>1, <4>2, <4>3 DEF TalkInv, TalkGoesOn
      <4> QED BY <1>1, <1>2, <4>4, ContinuedHaveEnded DEF TalkInv
    <3>3. r \in Heads(runs')
      <4>1. r <= r /\ r # Nobody
        BY <1>1, NobodyIsNoRun
      <4> QED BY <1>1, <1>2, <3>1, <3>2, <4>1 DEF Heads
    <3>4. Latest(runs', r) = r /\ Latest(runs, r) = r
      BY <3>1, <3>3, HeadIsLatest DEF Latest
    <3>5. ASSUME NEW c \in Exists(runs), c # r PROVE Latest(runs', c) = Latest(runs, c)
      <4>1. runs'[c] = runs[c]
        BY <1>2, <3>5
      <4>2. CASE runs[c].session = Nobody
        BY <4>1, <4>2 DEF Latest
      <4>3. CASE runs[c].session # Nobody
        <5> DEFINE h == Latest(runs, c)
        <5>1. h \in Heads(runs) /\ runs[h].session = runs[c].session
          BY <1>1, <4>3, LatestIsHead
        <5> HIDE DEF h
        <5>2. h # r /\ h \in Run /\ h \in Exists(runs)
          BY <1>2, <3>1, <5>1 DEF Heads
        <5>3. runs'[h] = runs[h]
          BY <5>2
        <5>4. runs[c].session # r
          BY <1>2, <3>2, <3>5, <4>1 DEF Conversation
        <5>5. ASSUME NEW q \in Conversation(runs', runs'[h].session) PROVE q <= h
          <6>1. q \in Exists(runs) /\ q # r /\ runs'[q].session = runs[c].session
            BY <1>2, <3>1, <5>1, <5>3, <5>4 DEF Conversation
          <6>2. q \in Conversation(runs, runs[h].session)
            BY <1>2, <5>1, <6>1 DEF Conversation
          <6> QED BY <5>1, <6>2 DEF Heads
        <5>6. h \in Heads(runs')
          BY <1>2, <4>3, <5>1, <5>2, <5>3, <5>5 DEF Heads
        <5>7. Latest(runs', c) = h
          BY <4>1, <5>1, <5>3, <5>6, HeadIsLatest
        <5> QED BY <5>7 DEF h
      <4> QED BY <4>2, <4>3
    <3> QED BY <3>4, <3>5
  <2> QED BY <2>1, <2>2
<1>8. ASSUME NEW p \in Waiting(runs', Barred) PROVE p \in Waiting(runs, Barred)
  <2> DEFINE s == runs'[p].session
  <2>1. p \in Heads(runs') /\ p \in Finished(runs') /\ s # Nobody
    BY DEF Waiting, Due, Heads, Exists, Finished, Terminal
  <2>2. s # runs'[r].session
    BY <1>1, <1>2, <1>6, <2>1, EndedTalkIsQuiet
  <2> HIDE DEF s
  <2>3. Conversation(runs', s) = Conversation(runs, s)
        /\ \A q \in Conversation(runs, s) : runs'[q] = runs[q]
    BY <1>1, <1>2, <1>5, <2>1, <2>2 DEF Conversation
  <2>4. Delivered(runs', s) = Delivered(runs, s)
    BY <2>3 DEF Delivered
  <2> QED BY <1>1, <1>3, <1>7, <2>3, <2>4, NoneBeginsToWait DEF s
<1>9. Orphans' = Orphans /\ Unused(runs') = Unused(runs)
  BY <1>2 DEF Orphans, Unused
<1> QED BY <1>4, <1>8, <1>9 DEF PassInv

LEMMA IdentifyKeepsPass ==
    ASSUME IInv, Talk, PassInv, NEW r \in Run, Identify(r)
    PROVE  PassInv'
<1>1. runs \in Ledger /\ saved \in SUBSET Run /\ runs[r] \in Row /\ r \in live
  BY DEF IInv, TypeOK, Identify
<1> DEFINE s == SessionOf(runs, saved, r)
           row == [runs[r] EXCEPT !.session = s, !.record = r]
<1>2. s \in RunOrNobody /\ s # Nobody
  BY <1>1, NobodyIsNoRun, SessionOfTyped DEF Identify, SessionOf
<1>3. /\ row \in Row /\ row.status = runs[r].status /\ row.session = s
      /\ row.parent = runs[r].parent /\ row.completions = runs[r].completions
  BY <1>1, <1>2 DEF Row, RunOrNobody
<1>4. runs' = [runs EXCEPT ![r] = row] /\ UNCHANGED <<disk, daemon, live>>
  BY <1>1 DEF Identify
<1> HIDE DEF row, s
<1>5. runs' \in Ledger /\ runs'[r] = row /\ \A q \in Run \ {r} : runs'[q] = runs[q]
  BY <1>1, <1>3, <1>4
<1>6. Talk'
  BY IdentifyKeepsTalk
<1>7. s = SessionOf(runs, saved, r) /\ saved' = saved /\ UNCHANGED <<Barred, daemon, live>>
  BY <1>4 DEF s, disk, Barred
<1> QED BY <1>1, <1>2, <1>3, <1>5, <1>6, <1>7, OwnRowKeepsPass

LEMMA SubmitKeepsPass ==
    ASSUME IInv, Talk, PassInv, NEW r \in Run, Submit(r)
    PROVE  PassInv'
<1>1. runs \in Ledger /\ saved \in SUBSET Run /\ runs[r] \in Row /\ r \in live
      /\ runs[r].session # Nobody
  BY DEF IInv, TypeOK, Submit, Identified
<1> DEFINE row == [runs[r] EXCEPT !.submitted = TRUE]
<1>2. /\ row \in Row /\ row.status = runs[r].status /\ row.session = runs[r].session
      /\ row.parent = runs[r].parent /\ row.completions = runs[r].completions
  BY <1>1 DEF Row
<1>3. runs' = [runs EXCEPT ![r] = row] /\ UNCHANGED <<disk, daemon, live>>
  BY <1>1 DEF Submit
<1> HIDE DEF row
<1>4. runs' \in Ledger /\ runs'[r] = row /\ \A q \in Run \ {r} : runs'[q] = runs[q]
  BY <1>1, <1>2, <1>3
<1>5. Talk'
  BY SubmitKeepsTalk
<1>6. runs[r].session = SessionOf(runs, saved, r) /\ saved' = saved
      /\ UNCHANGED <<Barred, daemon, live>>
  BY <1>1, <1>3 DEF SessionOf, disk, Barred
<1> QED BY <1>1, <1>2, <1>4, <1>5, <1>6, OwnRowKeepsPass

\* Steps that leave the rows and the turns alone; a conversation barred excuses.
LEMMA QuietKeepsPass ==
    ASSUME PassInv, UNCHANGED <<runs, live>>, Barred \subseteq Barred', daemon' = "up" => daemon = "up"
    PROVE  PassInv'
<1>1. Waiting(runs, Barred') \subseteq Waiting(runs, Barred)
  BY DEF Waiting
<1>2. runs' = runs /\ Orphans' = Orphans
  BY DEF Orphans
<1> QED BY <1>1, <1>2 DEF PassInv

LEMMA TurnsKeepPass ==
    ASSUME IInv, Talk, PassInv, Turns
    PROVE  PassInv'
<1>1. TypeOK /\ live \subseteq Running(runs) /\ Running(runs) \subseteq Nonterminal(runs)
      /\ runs \in Ledger /\ TalkInv(runs, saved) /\ ToldOfRuns(runs)
  BY DEF IInv, TypeOK, LiveTurnIsRunning, Nonterminal, Talk, PassInv
<1>2. ASSUME NEW r \in Run, SaveRecord(r) \/ Deadline(r) PROVE PassInv'
  BY <1>2, QuietKeepsPass DEF SaveRecord, Deadline, disk, Barred
<1>3. ASSUME NEW r \in Run, FinishThrows(r) PROVE PassInv'
  <2>1. Settled(runs, live \ {r}) /\ Barred' = Barred /\ daemon' = daemon
    BY <1>3 DEF FinishThrows, disk, Barred
  <2> QED BY <1>1, <2>1, SettlingKeepsPass
<1>4. ASSUME NEW r \in Run, NEW reported \in {"completed", "failed", "cancelled"},
             TurnEnds(r, reported)
      PROVE  PassInv'
  <2>1. Outcome(intent[r], reported) \in Terminal
    BY <1>1 DEF Outcome, Intent, Terminal, TypeOK
  <2>2. /\ Settled(SetStatus(runs, {r}, Outcome(intent[r], reported)), live \ {r})
        /\ UNCHANGED <<disk, daemon>> /\ {r} \subseteq Nonterminal(runs)
    BY <1>1, <1>4 DEF TurnEnds
  <2> HIDE DEF Outcome
  <2> QED BY <1>1, <2>1, <2>2, EndingKeepsPass
<1> QED BY <1>2, <1>3, <1>4, IdentifyKeepsPass, SubmitKeepsPass DEF Turns

LEMMA TimerKeepsPass ==
    ASSUME IInv, Talk, PassInv, Timer
    PROVE  PassInv'
<1>1. TypeOK /\ runs \in Ledger /\ ToldOfRuns(runs)
  BY DEF IInv, TypeOK, PassInv
<1>2. PICK stale \in SUBSET Orphans : Tick(stale) \/ \E bad \in stale : SweepThrows(stale, bad)
  BY DEF Timer
<1>3. stale \subseteq Nonterminal(runs) /\ "lost" \in Terminal /\ "lost" \in Status \ {"absent"}
  BY DEF Orphans, Nonterminal, Terminal, Status
<1>4. CASE Tick(stale)
  <2>1. UNCHANGED <<disk, daemon>>
    BY <1>4 DEF Tick
  <2>2. CASE stale = {}
    <3>1. Pumped(runs, live) /\ Barred' = Barred
      BY <1>4, <2>2 DEF Tick, disk, Barred
    <3>2. /\ ToldOfRuns(runs') /\ Orphans \subseteq Orphans'
          /\ Waiting(runs', Barred) \subseteq Waiting(runs, Barred)
      BY <1>1, <3>1, PumpTellsOfRuns, PumpKeepsOrphans, ClaimsMakeNoneWait
    <3>3. Unused(runs') = Unused(runs)
      BY <1>1, <3>1, PumpShape DEF Unused
    <3> QED BY <2>1, <3>1, <3>2, <3>3 DEF PassInv
  <2>3. CASE stale # {}
    <3>1. Settled(SetStatus(runs, stale, "lost"), live)
      BY <1>4, <2>3 DEF Tick
    <3> QED BY <1>1, <1>3, <2>1, <3>1, EndingKeepsPass
  <2> QED BY <2>2, <2>3
<1>5. ASSUME NEW bad \in stale, SweepThrows(stale, bad) PROVE PassInv'
  <2> DEFINE S == {r \in stale : r < bad}
  <2>1. runs' = SetStatus(runs, S, "lost") /\ S \subseteq Nonterminal(runs) /\ live' = live
    BY <1>3, <1>5 DEF SweepThrows
  <2>2. bad \in Run /\ bad \notin live /\ bad \in Running(runs) /\ bad \notin S
    BY NobodyIsNoRun DEF Orphans, Running
  <2> HIDE DEF S
  <2>3. bad \in Orphans'
    BY <2>1, <2>2 DEF SetStatus, Orphans, Running
  <2>4. ToldOfRuns(runs')
    BY <1>1, <1>3, <2>1, StatusTellsOfRuns
  <2> QED BY <2>3, <2>4 DEF PassInv
<1> QED BY <1>2, <1>4, <1>5

LEMMA StartKeepsPass ==
    ASSUME IInv, Talk, PassInv, Start
    PROVE  PassInv'
<1> DEFINE db1 == SetStatus(runs, Running(runs), "interrupted")
           db2 == FollowUpsRetried(db1, saved, closed)
<1>1. /\ TypeOK /\ runs \in Ledger /\ saved \in SUBSET Run /\ TalkInv(runs, saved)
      /\ ToldOfRuns(runs)
  BY DEF IInv, TypeOK, Talk, PassInv
<1>2. /\ Running(runs) \subseteq Nonterminal(runs)
      /\ "interrupted" \in Status \ {"absent"}
  BY DEF Nonterminal, Status, Terminal
<1>3. Settled(db2, live) /\ Barred' = Barred /\ daemon = "down"
  BY DEF Start, disk, Barred
<1> HIDE DEF db2
<1>4. db1 \in Ledger /\ TalkInv(db1, saved) /\ ToldOfRuns(db1)
  BY <1>1, <1>2, StatusKeepsTalk, StatusTellsOfRuns
<1> HIDE DEF db1
<1>5. db2 \in Ledger /\ TalkInv(db2, saved) /\ ToldOfRuns(db2)
  BY <1>1, <1>4, AutoRetriesKeepTalk, RestartTellsOfRuns DEF db2
<1> QED BY <1>1, <1>3, <1>5, SettlingKeepsPass

LEMMA NextKeepsPass ==
    ASSUME IInv, Talk, PassInv, Next
    PROVE  PassInv'
<1>1. TypeOK
  BY DEF IInv
<1>2. ASSUME NEW parent \in {Nobody} \cup {runs[r].session : r \in Exists(runs)},
             Launch(parent)
      PROVE  PassInv'
  <2>1. parent \in RunOrNobody
    BY <1>1 DEF TypeOK, Row, Exists, RunOrNobody
  <2> QED BY <1>2, <2>1, LaunchKeepsPass
<1>3. ASSUME NEW r \in Run, CancelQueued(r) PROVE PassInv'
  <2>1. /\ {r} \subseteq Nonterminal(runs) /\ "cancelled" \in Terminal
        /\ UNCHANGED <<disk, daemon>>
        /\ Settled(SetStatus(runs, {r}, "cancelled"), live)
    BY <1>3 DEF CancelQueued, Nonterminal, Terminal
  <2> QED BY <1>1, <2>1, EndingKeepsPass
<1>4. ASSUME NEW r \in Run, CancelLive(r) PROVE PassInv'
  BY <1>4, QuietKeepsPass DEF CancelLive, disk, Barred
<1>5. CASE Requests
  BY <1>2, <1>3, <1>4, <1>5, RetryKeepsPass, ResumeKeepsPass DEF Requests
<1>6. CASE Process
  <2>1. ASSUME NEW s \in Run, RemoveCwd(s) \/ CloseConversation(s) PROVE PassInv'
    BY <2>1, QuietKeepsPass DEF RemoveCwd, CloseConversation, Barred
  <2>2. CASE Stop \/ Exit
    BY <2>2, QuietKeepsPass DEF Stop, Exit, disk, Barred
  <2>3. CASE Crash
    BY <2>3 DEF Crash, PassInv
  <2> QED BY <1>6, <2>1, <2>2, <2>3, StartKeepsPass DEF Process
<1> QED BY <1>5, <1>6, TurnsKeepPass, TimerKeepsPass DEF Next

LEMMA InitPass == Init => PassInv
<1> SUFFICES ASSUME Init PROVE PassInv
  OBVIOUS
<1>1. Exists(runs) = {}
  BY DEF Init, Exists, Blank
<1> QED BY <1>1 DEF PassInv, ToldOfRuns, Waiting, Due, Heads

\* For every number of runs, every depth and every number of faults, in every
\* order of settlements, cancels, sweeps and restarts: when every child
\* conversation of a completed parent is finished, the parent has been resumed,
\* unless a folder or a record on disk bars it or a child it waits for. The pass
\* at the end of a handler finds it, and what happens between two passes, a
\* callback that names a conversation or a prompt that is submitted included,
\* makes no parent due that the last pass did not see.
THEOREM FollowUpsAreNotMissed == Spec => []FollowUpNotMissed
<1>1. Init => PassInv
  BY InitPass
<1>2. IInv /\ Talk /\ PassInv /\ [Next]_vars => PassInv'
  <2>1. ASSUME PassInv, UNCHANGED vars PROVE PassInv'
    BY <2>1, QuietKeepsPass DEF vars, Barred
  <2> QED BY <2>1, NextKeepsPass
<1>3. IInv /\ PassInv => FollowUpNotMissed
  BY NoneWaitingIsEnough DEF IInv, PassInv
<1> QED BY <1>1, <1>2, <1>3, Invariance, TalkInvariance, PTL DEF Spec

-----------------------------------------------------------------------------
(* What becomes of an aborted turn.                                        *)

\* Only a turn of this process is aborted.
AbortsAreLive == \A r \in Run : intent[r] # "none" => r \in live

\* A running row stays as it is through a tail: it is not claimed again, so it
\* belongs to a turn of this process afterwards if it did before.
LEMMA PumpKeepsRunning ==
    ASSUME NEW db \in Ledger, NEW turns, Pumped(db, turns), NEW r \in Running(db)
    PROVE  r \in Running(runs') /\ (r \in live' <=> r \in turns)
<1> DEFINE claimed == IF daemon = "stopping" THEN {} ELSE Claimable(db, turns)
<1>1. /\ claimed \subseteq Pending(db) /\ runs' = SetStatus(db, claimed, "running")
      /\ live' = turns \cup claimed
  BY DEF Pumped, Claimable
<1> HIDE DEF claimed
<1>2. r \in Run /\ db[r].status = "running" /\ r \notin claimed
  BY <1>1 DEF Running, Pending
<1> QED BY <1>1, <1>2 DEF SetStatus, Running

LEMMA TailKeepsRunning ==
    ASSUME TypeOK, NEW db \in Ledger, NEW turns, Settled(db, turns), NEW r \in Running(db)
    PROVE  r \in Running(runs') /\ (r \in live' <=> r \in turns)
<1> DEFINE db2 == IF daemon = "stopping" THEN db ELSE Reconciled(db, saved, Barred)
<1>1. saved \in SUBSET Run /\ Barred \in SUBSET Run
  BY DEF TypeOK, Barred
<1>2. /\ Reconciled(db, saved, Barred) \in Ledger
      /\ Running(Reconciled(db, saved, Barred)) = Running(db)
  <2>1. Grown(db, Reconciled(db, saved, Barred))
    BY <1>1, ReconcileGrows
  <2> QED BY <2>1, GrownKeeps DEF Grown
<1>3. db2 \in Ledger /\ Running(db2) = Running(db) /\ Pumped(db2, turns)
  BY <1>2 DEF Settled
<1> HIDE DEF db2
<1> QED BY <1>3, PumpKeepsRunning

\* Every turn that is left belongs to this process after the tail.
LEMMA TailKeepsTurns ==
    ASSUME NEW db, NEW turns, Pumped(db, turns) \/ Settled(db, turns)
    PROVE  turns \subseteq live'
BY DEF Pumped, Settled

\* Rows end, and a tail follows: what becomes of a row that was running.
LEMMA EndingMoves ==
    ASSUME TypeOK, NEW S, S \subseteq Nonterminal(runs), NEW status \in Terminal,
           NEW turns, Settled(SetStatus(runs, S, status), turns), NEW r \in Running(runs)
    PROVE  /\ r \in S => runs'[r].status = status
           /\ r \notin S => r \in Running(runs') /\ (r \in live' <=> r \in turns)
<1> DEFINE db == SetStatus(runs, S, status)
<1>1. runs \in Ledger /\ status \in Status \ {"absent"} /\ r \in Run
  BY DEF TypeOK, Terminal, Status, Running
<1>2. Moved(runs, db, S, status)
  BY <1>1, StatusShape
<1>3. Settled(db, turns)
  OBVIOUS
<1> HIDE DEF db
<1>4. ASSUME r \in S PROVE runs'[r].status = status
  <2>1. db[r].status = status
    BY <1>2, <1>4 DEF Moved
  <2>2. r \in Finished(db)
    BY <1>1, <2>1 DEF Finished
  <2> QED BY <1>2, <1>3, <2>1, <2>2, SettleShape DEF Moved, Tail
<1>5. ASSUME r \notin S PROVE r \in Running(runs') /\ (r \in live' <=> r \in turns)
  <2>1. db \in Ledger /\ r \in Running(db)
    BY <1>1, <1>2, <1>5 DEF Moved, Running
  <2> QED BY <1>3, <2>1, TailKeepsRunning
<1> QED BY <1>4, <1>5

\* A run that was aborted with an intent in `intents` ends in `ends`: its turn
\* is still to settle, or left its row running behind it, or it has ended so.
Doomed(r, intents, ends) ==
    \/ r \in live /\ intent[r] \in intents
    \/ r \in Running(runs) \ live
    \/ runs[r].status \in ends

\* What an abort is reported as; a sweep and a restart report no outcome.
Decides(intents, ends) ==
    /\ intents \subseteq Intent \ {"none"}
    /\ ends \subseteq Terminal /\ {"lost", "interrupted"} \subseteq ends
    /\ \A i \in intents : \A reported \in {"completed", "failed", "cancelled"} :
          Outcome(i, reported) \in ends

\* A request adds rows, and a pump follows.
LEMMA RequestKeepsDoom ==
    ASSUME IInv, NEW intents, NEW ends, NEW r \in Running(runs), Doomed(r, intents, ends),
           runs[r].status \notin ends,
           NEW db, Grown(runs, db), Pumped(db, live), UNCHANGED intent
    PROVE  Doomed(r, intents, ends)'
<1>1. runs \in Ledger
  BY DEF IInv, TypeOK
<1>2. db \in Ledger /\ r \in Running(db)
  BY <1>1, GrownKeeps DEF Grown
<1>3. r \in Running(runs') /\ (r \in live' <=> r \in live)
  BY <1>2, PumpKeepsRunning
<1> QED BY <1>3 DEF Doomed

\* Rows end, and a tail follows. A doomed row among them ends as it should, the
\* others keep their turn and its intent.
LEMMA EndingKeepsDoom ==
    ASSUME IInv, NEW intents, NEW ends, NEW r \in Running(runs), Doomed(r, intents, ends),
           runs[r].status \notin ends,
           NEW S, S \subseteq Nonterminal(runs), NEW status \in Terminal,
           NEW turns, Settled(SetStatus(runs, S, status), turns),
           r \in S => status \in ends,
           r \notin S => (r \in turns <=> r \in live) /\ intent'[r] = intent[r]
    PROVE  Doomed(r, intents, ends)'
<1>1. TypeOK
  BY DEF IInv
<1>2. /\ r \in S => runs'[r].status = status
      /\ r \notin S => r \in Running(runs') /\ (r \in live' <=> r \in turns)
  BY <1>1, EndingMoves
<1> QED BY <1>2 DEF Doomed

LEMMA RequestsKeepDoom ==
    ASSUME IInv, NEW intents, NEW ends, Decides(intents, ends), NEW r \in Running(runs),
           Doomed(r, intents, ends), runs[r].status \notin ends, Requests
    PROVE  Doomed(r, intents, ends)'
<1>1. TypeOK /\ runs \in Ledger /\ saved \in SUBSET Run /\ r \in Run /\ live \subseteq Running(runs)
      /\ intent \in [Run -> Intent]
  BY DEF IInv, TypeOK, Running, LiveTurnIsRunning
<1>2. ASSUME NEW parent \in {Nobody} \cup {runs[q].session : q \in Exists(runs)},
             Launch(parent)
      PROVE  Doomed(r, intents, ends)'
  <2> DEFINE row == [Blank EXCEPT !.status = "pending", !.parent = parent,
                                  !.depth = DepthUnder(runs, parent)]
             new == [k \in {Nobody} |-> row]
  <2>1. parent \in RunOrNobody
    BY <1>1 DEF Row, Exists, RunOrNobody
  <2>2. DepthUnder(runs, parent) \in 0..MaxDepth
    BY <1>1, <1>2, <2>1, DepthIsPositive, LedgerAssumption DEF Launch
  <2>3. row \in QueuedRow
    BY <2>1, <2>2 DEF Blank, QueuedRow, Row, Status, RunOrNobody
  <2>4. new \in [{Nobody} -> QueuedRow] /\ Pumped(Insert(runs, new), live) /\ UNCHANGED intent
    BY <1>2, <2>3 DEF Launch
  <2> HIDE DEF new
  <2> QED BY <1>1, <2>4, InsertGrows, RequestKeepsDoom
<1>3. ASSUME NEW q \in Run, Retry(q) PROVE Doomed(r, intents, ends)'
  <2> DEFINE new == [k \in {q} |-> RetryRow(runs, saved, q)]
  <2>1. new \in [{q} -> QueuedRow] /\ Pumped(Insert(runs, new), live) /\ UNCHANGED intent
    BY <1>1, <1>3, RetryIsQueued DEF Retry
  <2> HIDE DEF new
  <2> QED BY <1>1, <2>1, InsertGrows, RequestKeepsDoom
<1>4. ASSUME NEW q \in Run, Resume(q) PROVE Doomed(r, intents, ends)'
  <2> DEFINE new == [k \in {q} |-> ResumeRow(runs, saved, q, Undelivered(runs, q))]
  <2>1. Undelivered(runs, q) \in SUBSET Run
    BY <1>1 DEF Undelivered, Row
  <2>2. new \in [{q} -> QueuedRow] /\ Pumped(Insert(runs, new), live) /\ UNCHANGED intent
    BY <1>1, <1>4, <2>1, ResumeIsQueued DEF Resume
  <2> HIDE DEF new
  <2> QED BY <1>1, <2>2, InsertGrows, RequestKeepsDoom
<1>5. ASSUME NEW q \in Run, CancelQueued(q) PROVE Doomed(r, intents, ends)'
  <2>1. /\ {q} \subseteq Nonterminal(runs) /\ "cancelled" \in Terminal
        /\ Settled(SetStatus(runs, {q}, "cancelled"), live) /\ UNCHANGED intent
    BY <1>5 DEF CancelQueued, Nonterminal, Terminal
  <2>2. r \notin {q}
    BY <1>5 DEF CancelQueued, Pending, Running
  <2> QED BY <2>1, <2>2, EndingKeepsDoom
<1>6. ASSUME NEW q \in Run, CancelLive(q) PROVE Doomed(r, intents, ends)'
  BY <1>1, <1>6 DEF CancelLive, Doomed, Decides, disk
<1> QED BY <1>2, <1>3, <1>4, <1>5, <1>6 DEF Requests

LEMMA TurnsKeepDoom ==
    ASSUME IInv, NEW intents, NEW ends, Decides(intents, ends), NEW r \in Running(runs),
           Doomed(r, intents, ends), runs[r].status \notin ends, Turns
    PROVE  Doomed(r, intents, ends)'
<1>1. TypeOK /\ runs \in Ledger /\ r \in Run /\ live \subseteq Running(runs)
      /\ intent \in [Run -> Intent] /\ Running(runs) \subseteq Nonterminal(runs)
  BY DEF IInv, TypeOK, Running, LiveTurnIsRunning, Nonterminal
<1>2. ASSUME NEW q \in Run, SaveRecord(q) \/ Deadline(q) PROVE Doomed(r, intents, ends)'
  BY <1>1, <1>2 DEF SaveRecord, Deadline, Doomed, Decides, disk
<1>3. ASSUME NEW q \in Run, Identify(q) \/ Submit(q) PROVE Doomed(r, intents, ends)'
  <2>1. runs'[r].status = runs[r].status /\ UNCHANGED <<live, intent>>
    <3>1. runs[r] \in Row
      BY <1>1
    <3>2. CASE Identify(q)
      <4>1. runs' = [runs EXCEPT ![q] = [runs[q] EXCEPT !.session = SessionOf(runs, saved, q), !.record = q]]
        BY <1>1, <3>2 DEF Identify
      <4> QED BY <1>1, <3>1, <3>2, <4>1 DEF Identify, Row
    <3>3. CASE Submit(q)
      <4>1. runs' = [runs EXCEPT ![q] = [runs[q] EXCEPT !.submitted = TRUE]]
        BY <1>1, <3>3 DEF Submit
      <4> QED BY <1>1, <3>1, <3>3, <4>1 DEF Submit, Row
    <3> QED BY <1>3, <3>2, <3>3
  <2> QED BY <1>1, <2>1 DEF Doomed, Running
<1>4. ASSUME NEW q \in Run, FinishThrows(q) PROVE Doomed(r, intents, ends)'
  <2>1. Settled(runs, live \ {q}) /\ intent' = [intent EXCEPT ![q] = "none"]
    BY <1>4 DEF FinishThrows
  <2>2. r \in Running(runs') /\ (r \in live' <=> r \in live \ {q})
    BY <1>1, <2>1, TailKeepsRunning
  <2> QED BY <1>1, <2>1, <2>2 DEF Doomed
<1>5. ASSUME NEW q \in Run, NEW reported \in {"completed", "failed", "cancelled"},
             TurnEnds(q, reported)
      PROVE  Doomed(r, intents, ends)'
  <2>1. Outcome(intent[q], reported) \in Terminal
    BY <1>1 DEF Outcome, Intent, Terminal
  <2>2. /\ Settled(SetStatus(runs, {q}, Outcome(intent[q], reported)), live \ {q})
        /\ q \in live /\ {q} \subseteq Nonterminal(runs)
        /\ intent' = [intent EXCEPT ![q] = "none"]
    BY <1>1, <1>5 DEF TurnEnds
  <2>3. r = q => Outcome(intent[q], reported) \in ends
    BY <2>2 DEF Doomed, Decides
  <2>4. r # q => intent'[r] = intent[r]
    BY <1>1, <2>2
  <2> HIDE DEF Outcome
  <2> QED BY <2>1, <2>2, <2>3, <2>4, EndingKeepsDoom
<1> QED BY <1>2, <1>3, <1>4, <1>5 DEF Turns

LEMMA TimerKeepsDoom ==
    ASSUME IInv, NEW intents, NEW ends, Decides(intents, ends), NEW r \in Running(runs),
           Doomed(r, intents, ends), runs[r].status \notin ends, Timer
    PROVE  Doomed(r, intents, ends)'
<1>1. TypeOK /\ runs \in Ledger /\ r \in Run
  BY DEF IInv, TypeOK, Running
<1>2. PICK stale \in SUBSET Orphans : Tick(stale) \/ \E bad \in stale : SweepThrows(stale, bad)
  BY DEF Timer
<1>3. /\ stale \subseteq Nonterminal(runs) /\ "lost" \in Terminal
      /\ "lost" \in ends /\ "lost" \in Status \ {"absent"}
  BY DEF Orphans, Nonterminal, Terminal, Decides, Status
<1>4. CASE Tick(stale)
  <2>1. CASE stale = {}
    <3>1. Pumped(runs, live) /\ UNCHANGED intent
      BY <1>4, <2>1 DEF Tick
    <3>2. r \in Running(runs') /\ (r \in live' <=> r \in live)
      BY <1>1, <3>1, PumpKeepsRunning
    <3> QED BY <3>1, <3>2 DEF Doomed
  <2>2. CASE stale # {}
    <3>1. Settled(SetStatus(runs, stale, "lost"), live) /\ UNCHANGED intent
      BY <1>4, <2>2 DEF Tick
    <3> QED BY <1>3, <3>1, EndingKeepsDoom
  <2> QED BY <2>1, <2>2
<1>5. ASSUME NEW bad \in stale, SweepThrows(stale, bad) PROVE Doomed(r, intents, ends)'
  <2> DEFINE S == {q \in stale : q < bad}
  <2>1. /\ runs' = SetStatus(runs, S, "lost") /\ S \subseteq Nonterminal(runs)
        /\ UNCHANGED <<live, intent>>
    BY <1>3, <1>5 DEF SweepThrows
  <2> HIDE DEF S
  <2>2. Moved(runs, runs', S, "lost")
    BY <1>1, <1>3, <2>1, StatusShape
  <2> QED BY <1>1, <1>3, <2>1, <2>2 DEF Moved, Doomed, Running
<1> QED BY <1>2, <1>4, <1>5

LEMMA StartKeepsDoom ==
    ASSUME IInv, NEW intents, NEW ends, Decides(intents, ends), NEW r \in Running(runs), Start
    PROVE  Doomed(r, intents, ends)'
<1> DEFINE db1 == SetStatus(runs, Running(runs), "interrupted")
           db2 == FollowUpsRetried(db1, saved, closed)
<1>1. TypeOK /\ runs \in Ledger /\ saved \in SUBSET Run /\ r \in Run /\ live = {}
  BY DEF IInv, TypeOK, Running, Start
<1>2. /\ Running(runs) \subseteq Nonterminal(runs) /\ "interrupted" \in ends
      /\ "interrupted" \in Status \ {"absent"} /\ "interrupted" \in Terminal
  BY DEF Nonterminal, Status, Terminal, Decides
<1>3. Settled(db2, live)
  BY DEF Start
<1> HIDE DEF db2
<1>4. Moved(runs, db1, Running(runs), "interrupted")
  BY <1>1, <1>2, StatusShape
<1> HIDE DEF db1
<1>5. db1 \in Ledger /\ db1[r].status = "interrupted" /\ r \in Finished(db1)
  BY <1>1, <1>2, <1>4 DEF Moved, Finished
<1>6. db2 \in Ledger /\ db2[r] = db1[r] /\ r \in Finished(db2)
  <2>1. Grown(db1, db2)
    BY <1>1, <1>5, AutoRetriesGrow DEF db2
  <2>2. db2[r] = db1[r]
    BY <1>5, <2>1, GrownKeeps
  <2> QED BY <1>1, <1>5, <2>1, <2>2 DEF Grown, Finished
<1>7. runs'[r] = db2[r]
  BY <1>1, <1>3, <1>6, SettleShape DEF Tail
<1> QED BY <1>2, <1>5, <1>6, <1>7 DEF Doomed

\* No step of the system saves a doomed run.
LEMMA NextKeepsDoom ==
    ASSUME IInv, NEW intents, NEW ends, Decides(intents, ends), NEW r \in Run,
           Doomed(r, intents, ends), Next
    PROVE  Doomed(r, intents, ends)'
<1>1. /\ live \subseteq Running(runs) /\ runs \in Ledger /\ intent \in [Run -> Intent]
      /\ \A q \in Finished(runs) : runs'[q] = runs[q]
  BY NextKeepsInv DEF IInv, TypeOK, LiveTurnIsRunning, TerminalRowsKept
<1>2. CASE runs[r].status \in ends
  <2>1. r \in Finished(runs)
    BY <1>2 DEF Decides, Finished
  <2> QED BY <1>1, <1>2, <2>1 DEF Doomed
<1>3. CASE runs[r].status \notin ends
  <2>1. r \in Running(runs)
    BY <1>1, <1>3 DEF Doomed
  <2>2. CASE Process
    <3>1. CASE Stop
      BY <1>1, <3>1 DEF Stop, Doomed, Decides, disk
    <3>2. CASE Exit \/ \E s \in Run : RemoveCwd(s) \/ CloseConversation(s)
      BY <3>2 DEF Exit, RemoveCwd, CloseConversation, Doomed, disk
    <3>3. CASE Crash
      BY <2>1, <3>3 DEF Crash, Doomed
    <3> QED BY <2>1, <2>2, <3>1, <3>2, <3>3, StartKeepsDoom DEF Process
  <2> QED BY <1>3, <2>1, <2>2, RequestsKeepDoom, TurnsKeepDoom, TimerKeepsDoom DEF Next
<1> QED BY <1>2, <1>3

LEMMA AbortsStayLive ==
    ASSUME IInv, AbortsAreLive, [Next]_vars
    PROVE  AbortsAreLive'
<1>1. intent \in [Run -> Intent]
  BY DEF IInv, TypeOK
<1>2. ASSUME live \subseteq live', UNCHANGED intent PROVE AbortsAreLive'
  BY <1>2 DEF AbortsAreLive
<1>3. ASSUME NEW r \in Run, live \ {r} \subseteq live', intent' = [intent EXCEPT ![r] = "none"]
      PROVE  AbortsAreLive'
  BY <1>1, <1>3 DEF AbortsAreLive
<1>4. CASE Requests
  <2>1. ASSUME NEW parent, Launch(parent) PROVE AbortsAreLive'
    BY <1>2, <2>1, TailKeepsTurns DEF Launch
  <2>2. ASSUME NEW r \in Run, CancelLive(r) PROVE AbortsAreLive'
    BY <1>1, <2>2 DEF CancelLive, AbortsAreLive
  <2>3. ASSUME NEW r \in Run, CancelQueued(r) \/ Retry(r) \/ Resume(r) PROVE AbortsAreLive'
    BY <1>2, <2>3, TailKeepsTurns DEF CancelQueued, Retry, Resume
  <2> QED BY <1>4, <2>1, <2>2, <2>3 DEF Requests
<1>5. CASE Turns
  <2>1. ASSUME NEW r \in Run, Deadline(r) PROVE AbortsAreLive'
    BY <1>1, <2>1 DEF Deadline, AbortsAreLive
  <2>2. ASSUME NEW r \in Run, SaveRecord(r) \/ Identify(r) \/ Submit(r) PROVE AbortsAreLive'
    BY <1>2, <2>2 DEF SaveRecord, Identify, Submit
  <2>3. ASSUME NEW r \in Run, NEW reported, FinishThrows(r) \/ TurnEnds(r, reported)
        PROVE  AbortsAreLive'
    <3>1. live \ {r} \subseteq live' /\ intent' = [intent EXCEPT ![r] = "none"]
      BY <2>3, TailKeepsTurns DEF FinishThrows, TurnEnds
    <3> QED BY <1>3, <3>1
  <2> QED BY <1>5, <2>1, <2>2, <2>3 DEF Turns
<1>6. CASE Timer
  BY <1>2, <1>6, TailKeepsTurns DEF Timer, Tick, SweepThrows
<1>7. CASE Process
  <2>1. CASE Stop
    BY <1>1, <2>1 DEF Stop, AbortsAreLive
  <2>2. CASE Exit \/ \E s \in Run : RemoveCwd(s) \/ CloseConversation(s)
    BY <1>2, <2>2 DEF Exit, RemoveCwd, CloseConversation
  <2>3. CASE Crash
    BY <2>3 DEF Crash, AbortsAreLive
  <2>4. CASE Start
    BY <1>2, <2>4, TailKeepsTurns DEF Start
  <2> QED BY <1>7, <2>1, <2>2, <2>3, <2>4 DEF Process
<1>8. CASE UNCHANGED vars
  BY <1>2, <1>8 DEF vars
<1> QED BY <1>4, <1>5, <1>6, <1>7, <1>8 DEF Next

LEMMA AbortsLiveInvariance == Spec => []AbortsAreLive
<1>1. Init => AbortsAreLive
  BY DEF Init, AbortsAreLive
<1> QED BY <1>1, AbortsStayLive, Invariance, PTL DEF Spec

\* Once an intent is recorded, the run ends as `ends` says, and stays so.
LEMMA DoomStays ==
    ASSUME IInv, NEW intents, NEW ends, Decides(intents, ends), NEW r \in Run,
           Doomed(r, intents, ends), [Next]_vars
    PROVE  Doomed(r, intents, ends)'
<1>1. CASE UNCHANGED vars
  BY <1>1 DEF vars, Doomed
<1> QED BY <1>1, NextKeepsDoom

\* An abort is never reported as success and a cancel never overtaken by the
\* deadline, for every number of runs and of faults: neither the launcher's own
\* report, nor a late callback, nor a crash before the outcome is written, nor
\* the sweep or the restart that finds the row makes an aborted run complete.
THEOREM AbortsWin == Spec => AbortWins
<1> DEFINE any == Intent \ {"none"}
           notDone == Terminal \ {"completed"}
           notFailed == Terminal \ {"completed", "failed"}
<1>1. Decides(any, notDone) /\ Decides({"cancel"}, notFailed)
  BY DEF Decides, Intent, Terminal, Outcome
<1>2. ASSUME NEW CONSTANT r \in Run
      PROVE  Spec => /\ [](intent[r] # "none" => [](runs[r].status # "completed"))
                     /\ [](intent[r] = "cancel" => [](runs[r].status # "failed"))
  <2>1. /\ IInv /\ Doomed(r, any, notDone) => runs[r].status # "completed"
        /\ IInv /\ Doomed(r, {"cancel"}, notFailed) => runs[r].status # "failed"
    BY DEF IInv, LiveTurnIsRunning, Doomed, Running
  <2>2. IInv /\ AbortsAreLive =>
          /\ intent[r] # "none" => Doomed(r, any, notDone)
          /\ intent[r] = "cancel" => Doomed(r, {"cancel"}, notFailed)
    BY DEF IInv, TypeOK, AbortsAreLive, Doomed
  <2>3. /\ IInv /\ Doomed(r, any, notDone) /\ [Next]_vars => Doomed(r, any, notDone)'
        /\ IInv /\ Doomed(r, {"cancel"}, notFailed) /\ [Next]_vars =>
              Doomed(r, {"cancel"}, notFailed)'
    <3> HIDE DEF any, notDone, notFailed
    <3> QED BY <1>1, DoomStays
  <2> HIDE DEF any, notDone, notFailed
  <2> QED BY <2>1, <2>2, <2>3, Invariance, AbortsLiveInvariance, PTL DEF Spec
<1> QED BY <1>2 DEF AbortWins
=============================================================================
