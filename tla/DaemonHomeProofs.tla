-------------------------- MODULE DaemonHomeProofs --------------------------
(***************************************************************************)
(* What holds of the daemon and of the owner's own files, for every value  *)
(* of the constants: that one process at a time executes delegated runs    *)
(* and a write is executed once at most (DaemonLifecycle), that what the   *)
(* daemon tells of the harnesses is what they answered (HarnessSnapshot),  *)
(* that setup keeps its promises whatever its terminals do and wherever    *)
(* they die (OwnerSetup), that the skill's links spare what others put     *)
(* beside them (SkillLinks), that a client's connections stay usable       *)
(* (GatewayClient), and that the rows of the monitor follow the harnesses' *)
(* transcripts (TranscriptScan).  Only OwnerSetup and TranscriptScan have  *)
(* variables in common, the owner's files (OwnerHome), which each changes  *)
(* in its own specification.                                               *)
(***************************************************************************)
EXTENDS DaemonLifecycle, HarnessSnapshot, OwnerSetup, SkillLinks, GatewayClient,
        TranscriptScan, MCHome, WellFoundedInduction, FunctionTheorems, FiniteSetTheorems, SequenceTheorems, TLAPS

-----------------------------------------------------------------------------
(* One daemon at a time.                                                   *)

Phases == {"none", "opening", "serving", "ready", "stopping", "draining", "removing", "dead"}

Where == {"idle", "probing", "refused", "unreachable", "bound", "starting", "connecting",
          "connected", "replacing", "waiting", "gaveUp", "sent", "executed", "answered", "failed"}

\* Whoever listens holds the port: the processes that answer requests, and the
\* clients that bind it to see that it is free.
PortIsHeld ==
    /\ \A p \in Proc : Serving(p) => port = p
    /\ \A c \in Client : pc[c] = "bound" => port = c

\* An executor runs between the publication of its record and the end of its stop.
ExecutorsListen == \A p \in executors : phase[p] \in {"ready", "stopping"}

\* Only a daemon that answered is asked to end.
StopsAreAimed == \A c \in Client : pc[c] = "replacing" => target[c] \in Proc

DaemonInv == TypeOK /\ PortIsHeld /\ ExecutorsListen /\ StopsAreAimed

LEMMA PortHolders == Proc \cap Client = {} /\ Nobody \notin Proc /\ Nobody \notin Client
BY LifecycleAssumption

LEMMA DaemonInvInit == Init => DaemonInv
<1> SUFFICES ASSUME Init PROVE DaemonInv
  OBVIOUS
<1>1. First \in Proc
  BY LifecycleAssumption
<1>2. PICK before \in {"none", "dead", "ready"} :
        /\ phase = [p \in Proc |-> IF p = First THEN before ELSE "none"]
        /\ port = IF before = "ready" THEN First ELSE Nobody
        /\ discovery = IF before = "none" THEN Nobody ELSE First
        /\ executors = IF before = "ready" THEN {First} ELSE {}
        /\ old \in IF before = "ready" THEN {{}, {First}} ELSE {{}}
  BY DEF Init
<1>3. TypeOK
  BY <1>1, <1>2 DEF Init, TypeOK, Unseen
<1>4. PortIsHeld
  BY <1>1, <1>2 DEF Init, PortIsHeld, Serving
<1>5. ExecutorsListen /\ StopsAreAimed
  BY <1>1, <1>2 DEF Init, ExecutorsListen, StopsAreAimed
<1> QED BY <1>3, <1>4, <1>5 DEF DaemonInv

\* A signal ends a process, or makes it stop: nobody listens who did not before.
LEMMA SignalledKeeps ==
    ASSUME DaemonInv, NEW p \in Proc, Signalled(p), stale' \subseteq Proc,
           pc' \in [Client -> Where],
           UNCHANGED <<old, discovery, seen, target, execs>>,
           \A c \in Client : pc'[c] \in {"bound", "replacing"} => pc'[c] = pc[c]
    PROVE  DaemonInv'
<1> USE DEF DaemonInv
<1>1. phase' \in [Proc -> Phases] /\ executors' \subseteq executors
      /\ \A q \in Proc : q # p => phase'[q] = phase[q]
  BY DEF TypeOK, Signalled, Phases
<1>2. port' \in {port, Nobody} /\ (port' # port => port = p)
  BY DEF Signalled
<1>3. phase'[p] \in {"none", "stopping", "dead"}
      /\ (phase'[p] = "stopping" => phase[p] = "ready" /\ port' = port)
      /\ (phase'[p] # "stopping" => p \notin executors')
  BY DEF Signalled, TypeOK, Alive, ExecutorsListen
<1>4. TypeOK'
  BY <1>1, <1>2, pc' \in [Client -> Where] DEF TypeOK, Phases, Where
<1>5. PortIsHeld'
  <2>1. ASSUME NEW q \in Proc, Serving(q)' PROVE port' = q
    BY <2>1, <1>1, <1>2, <1>3 DEF PortIsHeld, Serving
  <2>2. ASSUME NEW c \in Client, pc'[c] = "bound" PROVE port' = c
    BY <2>2, <1>2, PortHolders DEF PortIsHeld
  <2> QED BY <2>1, <2>2 DEF PortIsHeld
<1>6. ExecutorsListen'
  BY <1>1, <1>3 DEF ExecutorsListen, TypeOK
<1>7. StopsAreAimed'
  BY DEF StopsAreAimed
<1> QED BY <1>4, <1>5, <1>6, <1>7

LEMMA DaemonInvNext == DaemonInv /\ [Next]_vars => DaemonInv'
<1> SUFFICES ASSUME DaemonInv, [Next]_vars PROVE DaemonInv'
  OBVIOUS
<1> USE DEF DaemonInv
<1> USE PortHolders
<1>1. ASSUME NEW p \in Proc, Listen(p) PROVE DaemonInv'
  BY <1>1 DEF Listen, clients, TypeOK, PortIsHeld, Serving, ExecutorsListen, StopsAreAimed
<1>2. ASSUME NEW p \in Proc, Publish(p) PROVE DaemonInv'
  BY <1>2 DEF Publish, clients, TypeOK, PortIsHeld, Serving, ExecutorsListen, StopsAreAimed
<1>3. ASSUME NEW p \in Proc, NoticeStale(p) PROVE DaemonInv'
  BY <1>3, SignalledKeeps DEF NoticeStale, clients, TypeOK, Where
<1>4. ASSUME NEW p \in Proc, StopExecutor(p) PROVE DaemonInv'
  BY <1>4 DEF StopExecutor, clients, TypeOK, PortIsHeld, Serving, ExecutorsListen, StopsAreAimed
<1>5. ASSUME NEW p \in Proc, ReleasePort(p) PROVE DaemonInv'
  BY <1>5 DEF ReleasePort, clients, TypeOK, PortIsHeld, Serving, ExecutorsListen, StopsAreAimed
<1>6. ASSUME NEW p \in Proc, ReadRecord(p) PROVE DaemonInv'
  BY <1>6 DEF ReadRecord, clients, TypeOK, PortIsHeld, Serving, ExecutorsListen, StopsAreAimed
<1>7. ASSUME NEW p \in Proc, RemoveRecord(p) PROVE DaemonInv'
  BY <1>7 DEF RemoveRecord, clients, TypeOK, PortIsHeld, Serving, ExecutorsListen, StopsAreAimed
<1> DEFINE Same(c) == /\ UNCHANGED <<phase, old, stale, executors, discovery, execs>>
                      /\ TypeOK'
                      /\ \A d \in Client : d # c => pc'[d] = pc[d] /\ target'[d] = target[d]
<1>8. ASSUME NEW c \in Client, Same(c), port' = port,
             pc'[c] # "bound", pc'[c] = "replacing" => target'[c] \in Proc
      PROVE  DaemonInv'
  BY <1>8 DEF PortIsHeld, Serving, ExecutorsListen, StopsAreAimed
<1>9. ASSUME NEW c \in Client, Same(c), port = Nobody, port' = c, pc'[c] = "bound"
      PROVE  DaemonInv'
  BY <1>9 DEF PortIsHeld, Serving, ExecutorsListen, StopsAreAimed
<1>10. ASSUME NEW c \in Client, ProbeHealth(c) PROVE DaemonInv'
  <2>1. Same(c) /\ port' = port /\ pc'[c] \notin {"bound", "replacing"}
    BY <1>10 DEF ProbeHealth, Becomes, daemons, TypeOK
  <2> QED BY <2>1, <1>8
<1>11. ASSUME NEW c \in Client, ProbeReady(c) PROVE DaemonInv'
  <2>1. Same(c) /\ port' = port /\ pc'[c] # "bound"
    BY <1>11 DEF ProbeReady, Becomes, daemons, TypeOK
  <2>2. pc'[c] = "replacing" => target'[c] \in Proc
    BY <1>11 DEF ProbeReady, Becomes, TypeOK, Answers
  <2> QED BY <2>1, <2>2, <1>8
<1>12. ASSUME NEW c \in Client, JudgeUnreachable(c) PROVE DaemonInv'
  <2>1. Same(c) /\ pc'[c] # "replacing"
        /\ (pc'[c] = "bound" => port = Nobody /\ port' = c)
        /\ (pc'[c] # "bound" => port' = port)
    BY <1>12 DEF JudgeUnreachable, Becomes, daemons, TypeOK
  <2> QED BY <2>1, <1>8, <1>9
<1>13. ASSUME NEW c \in Client, Unbind(c) PROVE DaemonInv'
  <2>1. Same(c) /\ port = c /\ port' = Nobody /\ pc'[c] = "starting"
    BY <1>13 DEF Unbind, Becomes, daemons, TypeOK, PortIsHeld
  <2> QED BY <2>1 DEF PortIsHeld, Serving, ExecutorsListen, StopsAreAimed
<1>14. ASSUME NEW c \in Client, RequestStop(c) PROVE DaemonInv'
  <2>1. target[c] \in Proc
    BY <1>14 DEF RequestStop, StopsAreAimed
  <2>2. pc'[c] = "waiting" /\ \A d \in Client : d # c => pc'[d] = pc[d]
    BY <1>14 DEF RequestStop, Becomes, TypeOK
  <2>3. pc' \in [Client -> Where]
    BY <1>14 DEF RequestStop, Becomes, TypeOK, Where
  <2> QED BY <1>14, <2>1, <2>2, <2>3, SignalledKeeps DEF RequestStop, TypeOK
<1>15. ASSUME NEW c \in Client, AwaitRelease(c) PROVE DaemonInv'
  <2>1. CASE ReadyDaemon(discovery) /\ Becomes(c, "connected") /\ UNCHANGED port
                /\ target' = [target EXCEPT ![c] = discovery]
    <3>1. Same(c) /\ pc'[c] = "connected"
      BY <1>15, <2>1 DEF AwaitRelease, Becomes, daemons, TypeOK, Answers, ReadyDaemon
    <3> QED BY <2>1, <3>1, <1>8
  <2>2. CASE port = Nobody /\ Becomes(c, "bound") /\ port' = c /\ UNCHANGED target
    <3>1. Same(c) /\ pc'[c] = "bound"
      BY <1>15, <2>2 DEF AwaitRelease, Becomes, daemons, TypeOK
    <3> QED BY <2>2, <3>1, <1>9
  <2> QED BY <1>15, <2>1, <2>2 DEF AwaitRelease
<1>16. ASSUME NEW c \in Client, AbandonRelease(c) PROVE DaemonInv'
  <2>1. Same(c) /\ port' = port /\ pc'[c] = "gaveUp"
    BY <1>16 DEF AbandonRelease, Becomes, daemons, TypeOK
  <2> QED BY <2>1, <1>8
<1>17. ASSUME NEW c \in Client, StartDaemonProcess(c) PROVE DaemonInv'
  <2>1. PICK p \in Unused : phase' = [phase EXCEPT ![p] = "opening"]
    BY <1>17 DEF StartDaemonProcess
  <2>2. p \in Proc /\ phase[p] = "none"
    BY <2>1 DEF Unused
  <2>3. pc' = [pc EXCEPT ![c] = "connecting"]
    BY <1>17 DEF StartDaemonProcess, Becomes
  <2>4. UNCHANGED <<old, stale, executors, port, discovery, seen, target, execs>>
    BY <1>17 DEF StartDaemonProcess
  <2>5. TypeOK'
    BY <2>1, <2>2, <2>3, <2>4 DEF TypeOK
  <2>6. \A q \in Proc : phase'[q] = IF q = p THEN "opening" ELSE phase[q]
    BY <2>1, <2>2 DEF TypeOK
  <2>7. \A d \in Client : pc'[d] = IF d = c THEN "connecting" ELSE pc[d]
    BY <2>3 DEF TypeOK
  <2>8. PortIsHeld' /\ StopsAreAimed'
    BY <2>4, <2>6, <2>7 DEF PortIsHeld, Serving, StopsAreAimed
  <2>9. ExecutorsListen'
    BY <2>2, <2>4, <2>6 DEF ExecutorsListen, TypeOK
  <2> QED BY <2>5, <2>8, <2>9
<1>18. ASSUME NEW c \in Client, Connect(c) PROVE DaemonInv'
  <2>1. Same(c) /\ port' = port /\ pc'[c] = "connected"
    BY <1>18 DEF Connect, Becomes, daemons, TypeOK, ReadyDaemon, Answers
  <2> QED BY <2>1, <1>8
<1>19. ASSUME NEW c \in Client, Writes(c) PROVE DaemonInv'
  <2>1. /\ UNCHANGED <<phase, old, stale, executors, discovery, port, seen>>
        /\ execs' \in [Client -> Nat] /\ target' \in [Client -> Proc \cup {Nobody}]
        /\ \E where \in {"sent", "failed", "executed", "answered"} : Becomes(c, where)
        /\ \A d \in Client : d # c => target'[d] = target[d]
    <3>1. CASE SendWrite(c)
      BY <3>1 DEF SendWrite, daemons, TypeOK, Answers
    <3>2. CASE ExecuteWrite(c)
      BY <3>2 DEF ExecuteWrite, daemons, TypeOK
    <3>3. CASE Answer(c)
      BY <3>3 DEF Answer, daemons, TypeOK
    <3>4. CASE LoseWrite(c)
      BY <3>4 DEF LoseWrite, daemons, TypeOK, Answers, MayReplayAfterTransportFailure
    <3> QED BY <1>19, <3>1, <3>2, <3>3, <3>4 DEF Writes
  <2>2. /\ pc'[c] \notin {"bound", "replacing"} /\ \A d \in Client : d # c => pc'[d] = pc[d]
        /\ TypeOK'
    BY <2>1 DEF Becomes, TypeOK
  <2> QED BY <2>1, <2>2 DEF PortIsHeld, Serving, ExecutorsListen, StopsAreAimed
<1>20. CASE UNCHANGED vars
  BY <1>20 DEF vars, TypeOK, PortIsHeld, Serving, ExecutorsListen, StopsAreAimed
<1> QED
  BY <1>1, <1>2, <1>3, <1>4, <1>5, <1>6, <1>7, <1>10, <1>11, <1>12, <1>13, <1>14, <1>15,
     <1>16, <1>17, <1>18, <1>19, <1>20 DEF Next, Starts, Ends, Ensures

\* One daemon at a time holds the port, answers requests and runs the executor,
\* however many are started, replaced and killed and however many clients judge
\* what they find at once (startDaemon, close, ensureDaemon).
THEOREM DaemonInvariance == Spec => []DaemonInv
BY DaemonInvInit, DaemonInvNext, PTL DEF Spec

\* No two daemons ever claim and run delegated turns at the same time.
THEOREM OneExecutorHolds == Spec => []OneExecutor
<1>1. DaemonInv => OneExecutor
  BY DEF DaemonInv, OneExecutor, TypeOK, PortIsHeld, ExecutorsListen, Serving
<1> QED BY <1>1, DaemonInvariance, PTL

-----------------------------------------------------------------------------
(* A write is executed once.                                               *)

\* Until its request was executed a client's write was not: what failed is not
\* sent again, and what is sent to another daemon was refused by the first.
WriteInv ==
    /\ TypeOK /\ WritesRunOnce
    /\ \A c \in Client : pc[c] \notin {"executed", "answered", "failed"} => execs[c] = 0

LEMMA WriteInvNext == TypeOK' /\ WriteInv /\ [Next]_vars => WriteInv'
<1> SUFFICES ASSUME TypeOK', WriteInv, [Next]_vars PROVE WriteInv'
  OBVIOUS
<1> USE DEF WriteInv, WritesRunOnce
<1>1. CASE UNCHANGED execs /\ \A c \in Client : pc'[c] # pc[c] =>
                pc[c] \notin {"executed", "answered", "failed"}
                  \/ pc'[c] \in {"executed", "answered", "failed"}
  BY <1>1
<1>2. ASSUME NEW p \in Proc, Starts(p) \/ Ends(p) PROVE UNCHANGED <<pc, execs>>
  BY <1>2 DEF Starts, Listen, Publish, Ends, NoticeStale, StopExecutor, ReleasePort, ReadRecord,
              RemoveRecord, clients
<1>3. ASSUME NEW c \in Client, Ensures(c)
      PROVE  /\ UNCHANGED execs /\ pc[c] \notin {"executed", "answered", "failed"}
             /\ \A d \in Client : d # c => pc'[d] = pc[d]
  BY <1>3 DEF Ensures, ProbeHealth, ProbeReady, JudgeUnreachable, Unbind, RequestStop, AwaitRelease,
              AbandonRelease, StartDaemonProcess, Connect, Becomes, TypeOK
<1>4. ASSUME NEW c \in Client, SendWrite(c) \/ Answer(c) \/ LoseWrite(c) PROVE WriteInv'
  BY <1>4 DEF SendWrite, Answer, LoseWrite, MayReplayAfterTransportFailure, Becomes, TypeOK
<1>5. ASSUME NEW c \in Client, ExecuteWrite(c) PROVE WriteInv'
  BY <1>5 DEF ExecuteWrite, Becomes, TypeOK
<1>6. CASE UNCHANGED vars
  BY <1>1, <1>6 DEF vars
<1> QED BY <1>1, <1>2, <1>3, <1>4, <1>5, <1>6 DEF Next, Writes

\* A write reaches the domain once at most, whichever daemons answer it, refuse
\* it or die with it (gatewayJson, mayReplayAfterTransportFailure).
THEOREM WritesStaySingle == Spec => []WritesRunOnce
<1>1. Init => WriteInv
  BY DaemonInvInit DEF Init, WriteInv, WritesRunOnce, DaemonInv
<1>2. DaemonInv => TypeOK
  BY DEF DaemonInv
<1>3. WriteInv => WritesRunOnce
  BY DEF WriteInv
<1> QED BY <1>1, <1>2, <1>3, WriteInvNext, DaemonInvariance, PTL DEF Spec

-----------------------------------------------------------------------------
(* The snapshot of the harnesses.                                          *)

Observations == {Null} \cup {Read(facts) : facts \in SUBSET Facts}
WindowLists == {Null} \cup {normalizeCodexAllowanceWindows(payload) : payload \in Limits}
Authentications == {Null, Read("yes"), Read("no")}

CapabilityRows ==
    [at : {"runtime", "opening", "confirming", "discarding", "projected"},
     runtime : BOOLEAN, session : Observations, confirmed : BOOLEAN,
     candidate : {Null, Read("candidate")}, failed : BOOLEAN]
AccountRows ==
    [at : {"idle", "asking", "ending", "read"}, plan : BOOLEAN,
     authenticated : Authentications, windows : WindowLists, failed : BOOLEAN,
     about : {"waiting", "done"}, status : {"waiting", "done"}]
Sayings == [session : Observations, confirmed : BOOLEAN, plan : BOOLEAN,
            authenticated : Authentications, windows : WindowLists]
Servers == [runs : BOOLEAN,
            does : {"nothing", "initialize", "account", "limits", "term", "kill"}]

SnapshotTypes ==
    /\ request \in [at : {"idle", "reading", "refused", "returned", "rejected"},
                    rows : SUBSET Harness, inspect : SUBSET Harness, candidates : BOOLEAN]
    /\ capability \in [Harness -> CapabilityRows]
    /\ account \in [Harness -> AccountRows]
    /\ server \in Servers
    /\ said \in [Harness -> Sayings]

\* What a row holds of its session is what the session said.
RowsAreSaid ==
    \A h \in Harness :
        capability[h].session = said[h].session /\ capability[h].confirmed = said[h].confirmed

\* So is what an account holds, but for what Codex is in the middle of telling,
\* which is taken back when the rest does not follow.
AccountsAreSaid ==
    /\ \A h \in Harness :
          /\ account[h].authenticated = said[h].authenticated
          /\ account[h].windows = said[h].windows
          /\ h # Codex \/ account[h].at # "asking" => account[h].plan = said[h].plan
    /\ said[Codex].authenticated = Null
    /\ account[Codex].at \in {"idle", "asking"} =>
          said[Codex].plan = FALSE /\ said[Codex].windows = Null

\* The child of Codex lives while its account is being read, and it is read while
\* the request waits for it.
ServerIsKept ==
    /\ account[Codex].at \in {"idle", "read"} => ~server.runs
    /\ account[Codex].at \in {"asking", "ending"} =>
          request.at = "reading" /\ Codex \in request.rows

\* Candidates are projected with the answer.
CandidatesAreFit ==
    \A h \in Harness : capability[h].candidate # Null =>
        request.at = "returned" /\ ~capability[h].failed /\ h \notin request.inspect

SnapshotInv ==
    SnapshotTypes /\ RowsAreSaid /\ AccountsAreSaid /\ ServerIsKept /\ CandidatesAreFit

LEMMA SnapshotInvInit == SnapshotInit => SnapshotInv
<1> SUFFICES ASSUME SnapshotInit PROVE SnapshotInv
  OBVIOUS
<1>1. Codex \in Harness
  BY SnapshotAssumption
<1>2. SnapshotTypes
  BY DEF SnapshotInit, SnapshotTypes, CapabilityRows, AccountRows, Sayings, Servers, NotAsked, NoRow, emptyAccount, Nothing, Observations,
         WindowLists, Authentications
<1>3. RowsAreSaid /\ AccountsAreSaid /\ ServerIsKept /\ CandidatesAreFit
  BY <1>1 DEF SnapshotInit, RowsAreSaid, AccountsAreSaid, ServerIsKept, CandidatesAreFit, NotAsked,
              NoRow, emptyAccount, Nothing
<1> QED BY <1>2, <1>3 DEF SnapshotInv

\* Asking changes nothing that was read.
LEMMA AskKeeps == SnapshotInv /\ Ask => SnapshotInv'
<1> SUFFICES ASSUME SnapshotInv, Ask PROVE SnapshotInv'
  OBVIOUS
<1> USE DEF SnapshotInv
<1>1. PICK r \in Request :
        LET ordinary == IF r.harnesses # {} THEN r.harnesses
                        ELSE IF r.inspect # {} THEN {} ELSE Harness
        IN  request' = [at |-> IF assertUniqueHarnessInspections(r) THEN "reading" ELSE "refused",
                        rows |-> ordinary \cup r.inspect,
                        inspect |-> r.inspect, candidates |-> r.candidates]
  BY DEF Ask
<1>2. r.harnesses \subseteq Harness /\ r.inspect \subseteq Harness /\ r.candidates \in BOOLEAN
  BY SnapshotAssumption
<1>3. request' \in [at : {"idle", "reading", "refused", "returned", "rejected"},
                    rows : SUBSET Harness, inspect : SUBSET Harness, candidates : BOOLEAN]
  BY <1>1, <1>2
<1>4. request.at = "idle" /\ UNCHANGED <<capability, account, server, said>>
  BY DEF Ask
<1>5. Codex \in Harness
  BY SnapshotAssumption
<1>6. SnapshotTypes'
  BY <1>3, <1>4 DEF SnapshotTypes
<1>7. RowsAreSaid' /\ AccountsAreSaid' /\ ServerIsKept' /\ CandidatesAreFit'
  BY <1>4 DEF RowsAreSaid, AccountsAreSaid, ServerIsKept, CandidatesAreFit
<1> QED BY <1>6, <1>7

\* A step of one harness's session changes what its row and the session say alike.
LEMMA RowKeeps ==
    ASSUME SnapshotInv, NEW h \in Harness,
           FindRuntime(h) \/ Observe(h) \/ Confirm(h) \/ GiveUp(h) \/ Discard(h)
    PROVE  SnapshotInv'
<1> USE DEF SnapshotInv
<1>1. UNCHANGED <<request, account, server>> /\ request.at = "reading"
  BY DEF FindRuntime, Observe, Confirm, GiveUp, Discard, RowAt, Reading
<1>2. Codex \in Harness
  BY SnapshotAssumption
<1> DEFINE Say(row) == [said[h] EXCEPT !.session = row.session, !.confirmed = row.confirmed]
<1>3. ASSUME NEW row \in CapabilityRows, capability' = [capability EXCEPT ![h] = row],
             said' = [said EXCEPT ![h] = Say(row)], row.candidate = capability[h].candidate
      PROVE  SnapshotInv'
  <2>1. Say(row) \in Sayings /\ Say(row).session = row.session /\ Say(row).confirmed = row.confirmed
        /\ Say(row).plan = said[h].plan /\ Say(row).windows = said[h].windows
        /\ Say(row).authenticated = said[h].authenticated
    <3>1. said[h] \in Sayings /\ row.session \in Observations /\ row.confirmed \in BOOLEAN
      BY <1>3 DEF SnapshotTypes, CapabilityRows
    <3> QED BY <3>1 DEF Sayings
  <2> HIDE DEF Say
  <2>2. SnapshotTypes'
    BY <1>1, <1>3, <2>1 DEF SnapshotTypes
  <2>3. \A g \in Harness : /\ capability'[g] = IF g = h THEN row ELSE capability[g]
                           /\ said'[g] = IF g = h THEN Say(row) ELSE said[g]
    BY <1>3 DEF SnapshotTypes
  <2>4. RowsAreSaid'
    BY <2>1, <2>3 DEF RowsAreSaid
  <2>5. AccountsAreSaid'
    BY <1>1, <1>2, <2>1, <2>3 DEF AccountsAreSaid
  <2>6. CandidatesAreFit'
    BY <1>1, <1>3, <2>3 DEF CandidatesAreFit
  <2>7. ServerIsKept'
    BY <1>1 DEF ServerIsKept
  <2> QED BY <2>2, <2>4, <2>5, <2>6, <2>7
<1>4. capability[h] \in CapabilityRows /\ said[h] \in Sayings
      /\ capability[h].session = said[h].session /\ capability[h].confirmed = said[h].confirmed
  BY DEF SnapshotTypes, RowsAreSaid
<1>5. ASSUME NEW row \in CapabilityRows, capability' = [capability EXCEPT ![h] = row],
             UNCHANGED said, row.session = capability[h].session,
             row.confirmed = capability[h].confirmed, row.candidate = capability[h].candidate
      PROVE  SnapshotInv'
  <2>1. Say(row) = said[h]
    BY <1>4, <1>5 DEF Sayings
  <2>2. said' = [said EXCEPT ![h] = Say(row)]
    BY <1>5, <2>1 DEF SnapshotTypes
  <2> QED BY <1>3, <1>5, <2>2
<1> HIDE DEF Say
<1>6. CASE FindRuntime(h)
  <2>1. PICK row \in {[capability[h] EXCEPT !.runtime = TRUE, !.at = "opening"],
                      [capability[h] EXCEPT !.failed = TRUE, !.at = "projected"]} :
            capability' = [capability EXCEPT ![h] = row]
    BY <1>6 DEF FindRuntime
  <2>2. row \in CapabilityRows /\ row.session = capability[h].session
        /\ row.confirmed = capability[h].confirmed /\ row.candidate = capability[h].candidate
    BY <1>4 DEF CapabilityRows
  <2> QED BY <1>5, <1>6, <2>1, <2>2 DEF FindRuntime
<1>7. CASE Observe(h)
  <2> DEFINE at == IF h \in request.inspect THEN "confirming" ELSE "discarding"
  <2>1. PICK facts \in Report :
            /\ capability' = [capability EXCEPT ![h].session = Read(facts), ![h].at = at]
            /\ said' = [said EXCEPT ![h].session = Read(facts)]
    BY <1>7 DEF Observe
  <2> DEFINE row == [capability[h] EXCEPT !.session = Read(facts), !.at = at]
  <2>2. Read(facts) \in Observations
    BY SnapshotAssumption DEF Observations
  <2>3. row \in CapabilityRows /\ row.candidate = capability[h].candidate
    BY <1>4, <2>2 DEF CapabilityRows
  <2>4. Say(row) = [said[h] EXCEPT !.session = Read(facts)]
    BY <1>4 DEF Say, Sayings, CapabilityRows
  <2>5. row.session = Read(facts) /\ row.confirmed = capability[h].confirmed
    BY <1>4, <2>2 DEF CapabilityRows
  <2>6. capability' = [capability EXCEPT ![h] = row]
    BY <2>1
  <2>7. said' = [said EXCEPT ![h] = Say(row)]
    BY <2>1, <2>4
  <2> HIDE DEF row
  <2> QED BY <1>3, <2>3, <2>6, <2>7
<1>8. CASE Confirm(h)
  <2> DEFINE now == {facts \cup {"options"} \cup (IF "models" \in facts THEN {"current"} ELSE {}) :
                        facts \in capability[h].session}
             row == [capability[h] EXCEPT !.confirmed = TRUE, !.at = "discarding", !.session = now]
  <2>1. now \in Observations
    <3>1. CASE capability[h].session = Null
      BY <3>1 DEF Observations, Null
    <3>2. CASE \E facts \in SUBSET Facts : capability[h].session = Read(facts)
      <4>1. PICK facts \in SUBSET Facts : capability[h].session = Read(facts)
        BY <3>2
      <4> DEFINE more == facts \cup {"options"}
                           \cup (IF "models" \in facts THEN {"current"} ELSE {})
      <4>2. now = Read(more)
        BY <4>1 DEF Read
      <4>3. more \in SUBSET Facts
        BY DEF Facts
      <4> QED BY <4>2, <4>3 DEF Observations
    <3> QED BY <1>4, <3>1, <3>2 DEF CapabilityRows, Observations
  <2>2. capability' = [capability EXCEPT ![h] = row]
    BY <1>8 DEF Confirm
  <2>3. row \in CapabilityRows /\ row.candidate = capability[h].candidate /\ row.session = now
        /\ row.confirmed = TRUE
    BY <1>4, <2>1 DEF CapabilityRows
  <2>4. capability'[h].session = now
    BY <2>2, <2>3 DEF SnapshotTypes
  <2>5. said' = [said EXCEPT ![h] = [@ EXCEPT !.session = now, !.confirmed = TRUE]]
    BY <1>8, <2>4 DEF Confirm
  <2> HIDE DEF row, now
  <2> QED BY <1>3, <2>2, <2>3, <2>5 DEF Say
<1>9. CASE GiveUp(h)
  <2>1. PICK at \in {"discarding", "projected"} :
            capability' = [capability EXCEPT ![h] = [WithError(@) EXCEPT !.at = at]]
    BY <1>9 DEF GiveUp
  <2> DEFINE row == [WithError(capability[h]) EXCEPT !.at = at]
  <2>2. row \in CapabilityRows /\ row.session = capability[h].session
        /\ row.confirmed = capability[h].confirmed /\ row.candidate = capability[h].candidate
    BY <1>4 DEF CapabilityRows, WithError
  <2>3. capability' = [capability EXCEPT ![h] = row]
    BY <2>1
  <2> HIDE DEF row
  <2> QED BY <1>5, <1>9, <2>2, <2>3 DEF GiveUp
<1>10. CASE Discard(h)
  <2>1. CASE capability' = [capability EXCEPT ![h].at = "projected"] /\ UNCHANGED said
    <3> DEFINE row == [capability[h] EXCEPT !.at = "projected"]
    <3>1. row \in CapabilityRows /\ row.session = capability[h].session
          /\ row.confirmed = capability[h].confirmed /\ row.candidate = capability[h].candidate
      BY <1>4 DEF CapabilityRows
    <3> QED BY <1>5, <2>1, <3>1
  <2>2. CASE /\ capability' = [capability EXCEPT ![h].at = "projected", ![h].confirmed = FALSE,
                                                 ![h].failed = TRUE]
             /\ said' = [said EXCEPT ![h].confirmed = FALSE]
    <3> DEFINE row == [capability[h] EXCEPT !.at = "projected", !.confirmed = FALSE, !.failed = TRUE]
    <3>1. row \in CapabilityRows /\ row.session = capability[h].session
          /\ row.confirmed = FALSE /\ row.candidate = capability[h].candidate
      BY <1>4 DEF CapabilityRows
    <3>2. Say(row) = [said[h] EXCEPT !.confirmed = FALSE]
      BY <1>4, <3>1 DEF Say, Sayings
    <3> QED BY <1>3, <2>2, <3>1, <3>2
  <2> QED BY <1>10, <2>1, <2>2 DEF Discard
<1> QED BY <1>6, <1>7, <1>8, <1>9, <1>10

\* An account's step: what is told of it is what was answered.
LEMMA AccountKeeps ==
    ASSUME SnapshotInv, NEW h \in Harness, NEW row \in AccountRows, NEW say \in Sayings,
           account' = [account EXCEPT ![h] = row], said' = [said EXCEPT ![h] = say],
           UNCHANGED <<request, capability>>, server' \in Servers,
           h = Codex \/ UNCHANGED server,
           say.session = said[h].session, say.confirmed = said[h].confirmed,
           row.authenticated = say.authenticated, row.windows = say.windows,
           h # Codex \/ row.at # "asking" => row.plan = say.plan,
           h = Codex => say.authenticated = Null,
           h = Codex /\ row.at \in {"idle", "asking"} => say.plan = FALSE /\ say.windows = Null,
           h = Codex /\ row.at \in {"idle", "read"} => ~server'.runs,
           h = Codex /\ row.at \in {"asking", "ending"} => Reading(Codex)
    PROVE  SnapshotInv'
<1> USE DEF SnapshotInv
<1>1. \A g \in Harness : /\ account'[g] = IF g = h THEN row ELSE account[g]
                         /\ said'[g] = IF g = h THEN say ELSE said[g]
  BY DEF SnapshotTypes
<1>2. Codex \in Harness
  BY SnapshotAssumption
<1>3. SnapshotTypes'
  BY DEF SnapshotTypes
<1>4. RowsAreSaid'
  BY <1>1 DEF RowsAreSaid
<1>5. AccountsAreSaid'
  BY <1>1, <1>2 DEF AccountsAreSaid
<1>6. ServerIsKept'
  BY <1>1, <1>2 DEF ServerIsKept, Reading
<1>7. CandidatesAreFit'
  BY DEF CandidatesAreFit
<1> QED BY <1>3, <1>4, <1>5, <1>6, <1>7

LEMMA AccountsTyped ==
    ASSUME SnapshotInv
    PROVE  /\ Codex \in Harness /\ Cursor \in Harness /\ Codex # Cursor
           /\ \A h \in Harness : account[h] \in AccountRows /\ said[h] \in Sayings
           /\ server \in Servers
BY SnapshotAssumption DEF Servers, SnapshotInv, SnapshotTypes

\* A step of Codex's account, and what Codex has then said.
CodexStep(row, say) ==
    /\ row \in AccountRows /\ say \in Sayings /\ server' \in Servers
    /\ account' = [account EXCEPT ![Codex] = row] /\ said' = [said EXCEPT ![Codex] = say]
    /\ Reading(Codex) /\ UNCHANGED <<request, capability>>
    /\ say.session = said[Codex].session /\ say.confirmed = said[Codex].confirmed
    /\ row.authenticated = Null /\ say.authenticated = Null /\ row.windows = say.windows
    /\ row.at # "asking" => row.plan = say.plan
    /\ row.at \in {"idle", "asking"} => say.plan = FALSE /\ say.windows = Null
    /\ row.at \in {"idle", "read"} => ~server'.runs

LEMMA CodexKeeps ==
    ASSUME SnapshotInv, NEW row, NEW say, CodexStep(row, say)
    PROVE  SnapshotInv'
BY AccountKeeps, AccountsTyped DEF Servers, CodexStep

LEMMA ServerKeeps ==
    ASSUME SnapshotInv, SpawnServer \/ ServerAnswers \/ ServerFails
    PROVE  SnapshotInv'
<1> USE AccountsTyped
<1> DEFINE row == account[Codex]
           say == said[Codex]
<1>2. /\ row \in AccountRows /\ say \in Sayings
      /\ row.authenticated = Null /\ row.windows = say.windows
      /\ say.authenticated = Null
      /\ row.at # "asking" => row.plan = say.plan
      /\ row.at \in {"idle", "asking"} => say.plan = FALSE /\ say.windows = Null
      /\ row.at \in {"idle", "read"} => ~server.runs
  BY DEF SnapshotInv, AccountsAreSaid, ServerIsKept
<1>3. said = [said EXCEPT ![Codex] = say] /\ account = [account EXCEPT ![Codex] = row]
  BY DEF SnapshotInv, SnapshotTypes
<1>4. CASE SpawnServer
  <2>0. row.at = "idle" /\ Reading(Codex) /\ UNCHANGED <<request, capability, said>>
    BY <1>4 DEF SpawnServer, AccountAt
  <2>1. CASE /\ server' = [runs |-> TRUE, does |-> "initialize"]
             /\ account' = [account EXCEPT ![Codex].at = "asking"]
    <3> DEFINE asked == [row EXCEPT !.at = "asking"]
    <3>1. asked \in AccountRows /\ asked.at = "asking" /\ asked.windows = row.windows
          /\ asked.authenticated = row.authenticated /\ asked.plan = row.plan
      BY <1>2 DEF AccountRows
    <3>2. account' = [account EXCEPT ![Codex] = asked]
      BY <2>1
    <3>3. server' \in Servers
      BY <2>1 DEF Servers
    <3>4. CodexStep(asked, say)
      BY <1>2, <1>3, <2>0, <3>1, <3>2, <3>3 DEF CodexStep
    <3> QED BY <3>4, CodexKeeps
  <2>2. CASE /\ UNCHANGED server
             /\ account' = [account EXCEPT ![Codex].at = "read", ![Codex].failed = TRUE]
    <3> DEFINE none == [row EXCEPT !.at = "read", !.failed = TRUE]
    <3>1. none \in AccountRows /\ none.at = "read" /\ none.windows = row.windows
          /\ none.authenticated = row.authenticated /\ none.plan = row.plan
      BY <1>2 DEF AccountRows
    <3>2. account' = [account EXCEPT ![Codex] = none]
      BY <2>2
    <3>3. CodexStep(none, say)
      BY <1>2, <1>3, <2>0, <2>2, <3>1, <3>2 DEF CodexStep, Servers
    <3> QED BY <3>3, CodexKeeps
  <2> QED BY <1>4, <2>1, <2>2 DEF SpawnServer
<1>5. CASE ServerFails
  <2> DEFINE none == [emptyAccount EXCEPT !.at = "ending", !.failed = TRUE]
  <2>1. none \in AccountRows /\ none.at = "ending" /\ none.windows = Null
        /\ none.authenticated = Null /\ none.plan = FALSE
    BY DEF AccountRows, emptyAccount, Authentications, WindowLists
  <2>2. row.at = "asking" /\ Reading(Codex) /\ UNCHANGED <<request, capability, said>>
        /\ account' = [account EXCEPT ![Codex] = none]
    BY <1>5 DEF ServerFails, AccountAt
  <2>3. server' \in Servers
    <3>1. PICK runs \in {server.runs, FALSE} : server' = [runs |-> runs, does |-> "nothing"]
      BY <1>5 DEF ServerFails
    <3>2. runs \in BOOLEAN
      BY <3>1 DEF Servers
    <3> QED BY <3>1, <3>2 DEF Servers
  <2> HIDE DEF none
  <2>4. CodexStep(none, say)
    BY <1>2, <1>3, <2>1, <2>2, <2>3 DEF CodexStep
  <2> QED BY <2>4, CodexKeeps
<1>6. CASE ServerAnswers
  <2>0. row.at = "asking" /\ Reading(Codex) /\ UNCHANGED <<request, capability>>
    BY <1>6 DEF ServerAnswers, AccountAt
  <2>1. CASE /\ server' = [server EXCEPT !.does = "account"] /\ UNCHANGED <<account, said>>
    <3>1. server' \in Servers
      BY <2>1 DEF Servers
    <3>2. CodexStep(row, say)
      BY <1>2, <1>3, <2>0, <2>1, <3>1 DEF CodexStep
    <3> QED BY <3>2, CodexKeeps
  <2>2. CASE /\ \E plan \in BOOLEAN : account' = [account EXCEPT ![Codex].plan = plan]
             /\ server' = [server EXCEPT !.does = "limits"] /\ UNCHANGED said
    <3>1. PICK plan \in BOOLEAN : account' = [account EXCEPT ![Codex].plan = plan]
      BY <2>2
    <3> DEFINE told == [row EXCEPT !.plan = plan]
    <3>2. told \in AccountRows /\ told.at = row.at /\ told.windows = row.windows
          /\ told.authenticated = row.authenticated
      BY <1>2 DEF AccountRows
    <3>3. account' = [account EXCEPT ![Codex] = told]
      BY <3>1
    <3>4. server' \in Servers
      BY <2>2 DEF Servers
    <3>5. CodexStep(told, say)
      BY <1>2, <1>3, <2>0, <2>2, <3>2, <3>3, <3>4 DEF CodexStep
    <3> QED BY <3>5, CodexKeeps
  <2>3. CASE /\ \E payload \in Limits :
                   account' = [account EXCEPT ![Codex].at = "ending",
                                  ![Codex].windows = normalizeCodexAllowanceWindows(payload)]
             /\ server' = [server EXCEPT !.does = "nothing"]
             /\ said' = [said EXCEPT ![Codex].plan = account[Codex].plan,
                                     ![Codex].windows = account'[Codex].windows]
    <3>1. PICK payload \in Limits :
                   account' = [account EXCEPT ![Codex].at = "ending",
                                  ![Codex].windows = normalizeCodexAllowanceWindows(payload)]
      BY <2>3
    <3> DEFINE list == normalizeCodexAllowanceWindows(payload)
    <3>2. list \in WindowLists /\ row.plan \in BOOLEAN
      BY <1>2 DEF WindowLists, AccountRows
    <3>3. account' = [account EXCEPT ![Codex].at = "ending", ![Codex].windows = list]
      BY <3>1
    <3> HIDE DEF list
    <3> DEFINE told == [row EXCEPT !.at = "ending", !.windows = list]
               says == [say EXCEPT !.plan = row.plan, !.windows = list]
    <3>4. told \in AccountRows /\ told.at = "ending" /\ told.windows = list
          /\ told.authenticated = row.authenticated /\ told.plan = row.plan
      BY <1>2, <3>2 DEF AccountRows
    <3>5. says \in Sayings /\ says.plan = row.plan /\ says.windows = list
          /\ says.authenticated = say.authenticated /\ says.session = say.session
          /\ says.confirmed = say.confirmed
      BY <1>2, <3>2 DEF Sayings
    <3>6. account' = [account EXCEPT ![Codex] = told]
      BY <3>3
    <3>7. account'[Codex].windows = list
      BY <3>4, <3>6 DEF SnapshotInv, SnapshotTypes
    <3>8. said' = [said EXCEPT ![Codex] = says]
      BY <2>3, <3>7
    <3>9. server' \in Servers
      BY <2>3 DEF Servers
    <3> HIDE DEF told, says
    <3>10. CodexStep(told, says)
      BY <1>2, <2>0, <3>4, <3>5, <3>6, <3>8, <3>9 DEF CodexStep
    <3> QED BY <3>10, CodexKeeps
  <2> QED BY <1>6, <2>1, <2>2, <2>3 DEF ServerAnswers
<1> QED BY <1>4, <1>5, <1>6

LEMMA EndingKeeps ==
    ASSUME SnapshotInv, EndServer \/ ServerExits
    PROVE  SnapshotInv'
<1> USE AccountsTyped
<1>1. server' \in Servers /\ (server'.runs => server.runs)
  BY DEF EndServer, ServerExits, Pressed, Servers
<1>2. CASE UNCHANGED account
  BY <1>1, <1>2 DEF EndServer, ServerExits, SnapshotInv, SnapshotTypes, RowsAreSaid, AccountsAreSaid,
                    ServerIsKept, CandidatesAreFit
<1>3. CASE EndServer /\ account' # account
  <2> DEFINE row == [account[Codex] EXCEPT !.at = "read"]
  <2>1. ~server.runs /\ UNCHANGED server /\ account' = [account EXCEPT ![Codex] = row]
        /\ UNCHANGED <<said, request, capability>> /\ account[Codex].at = "ending"
        /\ Reading(Codex)
    BY <1>3 DEF EndServer, HasEnded, AccountAt
  <2>2. row \in AccountRows /\ row.at = "read" /\ row.plan = account[Codex].plan
        /\ row.authenticated = account[Codex].authenticated /\ row.windows = account[Codex].windows
    BY DEF AccountRows
  <2>3. said' = [said EXCEPT ![Codex] = said[Codex]]
    BY <2>1 DEF SnapshotInv, SnapshotTypes
  <2>4. /\ account[Codex].authenticated = Null
        /\ account[Codex].windows = said[Codex].windows
        /\ account[Codex].plan = said[Codex].plan /\ said[Codex].authenticated = Null
    BY <2>1 DEF SnapshotInv, AccountsAreSaid
  <2> HIDE DEF row
  <2>5. CodexStep(row, said[Codex])
    BY <1>1, <2>1, <2>2, <2>3, <2>4 DEF CodexStep
  <2> QED BY <2>5, CodexKeeps
<1> QED BY <1>2, <1>3 DEF ServerExits

\* A step of another account, and what its harness has then said.
OtherStep(h, row, say) ==
    /\ row \in AccountRows /\ say \in Sayings
    /\ account' = [account EXCEPT ![h] = row] /\ said' = [said EXCEPT ![h] = say]
    /\ UNCHANGED <<request, capability, server>>
    /\ say.session = said[h].session /\ say.confirmed = said[h].confirmed
    /\ row.authenticated = say.authenticated /\ row.windows = say.windows /\ row.plan = say.plan

LEMMA OtherKeeps ==
    ASSUME SnapshotInv, NEW h \in Harness, h # Codex, NEW row, NEW say, OtherStep(h, row, say)
    PROVE  SnapshotInv'
BY AccountKeeps, AccountsTyped DEF Servers, OtherStep

LEMMA OtherAccountsKeep ==
    ASSUME SnapshotInv,
           \/ ReadCursor \/ CursorRead \/ \E asked \in {"about", "status"} : CursorAnswers(asked)
           \/ \E h \in Harness : ReadNoAccount(h)
    PROVE  SnapshotInv'
<1> USE AccountsTyped
<1>1. ASSUME NEW h \in Harness, h # Codex
      PROVE  /\ account[h].authenticated = said[h].authenticated
             /\ account[h].windows = said[h].windows /\ account[h].plan = said[h].plan
             /\ said = [said EXCEPT ![h] = said[h]]
  BY <1>1 DEF SnapshotInv, SnapshotTypes, AccountsAreSaid
<1>2. ASSUME NEW h \in Harness, h # Codex, NEW row \in AccountRows,
             UNCHANGED <<request, capability, server, said>>,
             account' = [account EXCEPT ![h] = row], row.plan = account[h].plan,
             row.authenticated = account[h].authenticated, row.windows = account[h].windows
      PROVE  SnapshotInv'
  <2>1. OtherStep(h, row, said[h])
    BY <1>1, <1>2 DEF OtherStep
  <2> QED BY <1>2, <2>1, OtherKeeps
<1>3. ASSUME NEW h \in Harness, ReadNoAccount(h) PROVE SnapshotInv'
  <2> DEFINE row == [account[h] EXCEPT !.at = "read"]
  <2>1. row \in AccountRows /\ row.plan = account[h].plan /\ row.windows = account[h].windows
        /\ row.authenticated = account[h].authenticated
    BY DEF AccountRows
  <2>2. h # Codex /\ account' = [account EXCEPT ![h] = row]
        /\ UNCHANGED <<request, capability, server, said>>
    BY <1>3 DEF ReadNoAccount
  <2> HIDE DEF row
  <2> QED BY <1>2, <2>1, <2>2
<1>4. CASE ReadCursor
  <2> DEFINE asked == [account[Cursor] EXCEPT !.at = "asking"]
             none  == [account[Cursor] EXCEPT !.at = "read", !.failed = TRUE]
  <2>1. \A row \in {asked, none} :
            /\ row \in AccountRows /\ row.plan = account[Cursor].plan
            /\ row.windows = account[Cursor].windows
            /\ row.authenticated = account[Cursor].authenticated
    BY DEF AccountRows
  <2>2. PICK row \in {asked, none} : account' = [account EXCEPT ![Cursor] = row]
    BY <1>4 DEF ReadCursor
  <2>3. UNCHANGED <<request, capability, server, said>>
    BY <1>4 DEF ReadCursor
  <2> HIDE DEF asked, none
  <2> QED BY <1>2, <2>1, <2>2, <2>3
<1>5. CASE CursorRead
  <2> DEFINE row == [account[Cursor] EXCEPT !.at = "read"]
  <2>1. row \in AccountRows /\ row.plan = account[Cursor].plan
        /\ row.windows = account[Cursor].windows
        /\ row.authenticated = account[Cursor].authenticated
    BY DEF AccountRows
  <2>2. account' = [account EXCEPT ![Cursor] = row] /\ UNCHANGED <<request, capability, server, said>>
    BY <1>5 DEF CursorRead
  <2> HIDE DEF row
  <2> QED BY <1>2, <2>1, <2>2
<1>6. ASSUME NEW asked \in {"about", "status"}, CursorAnswers(asked) PROVE SnapshotInv'
  <2>0. UNCHANGED <<request, capability, server>>
    BY <1>6 DEF CursorAnswers
  <2>1. CASE \E plan \in BOOLEAN :
                /\ account' = [account EXCEPT ![Cursor].plan = plan, ![Cursor].about = "done"]
                /\ said' = [said EXCEPT ![Cursor].plan = plan]
    <3>1. PICK plan \in BOOLEAN :
                /\ account' = [account EXCEPT ![Cursor].plan = plan, ![Cursor].about = "done"]
                /\ said' = [said EXCEPT ![Cursor].plan = plan]
      BY <2>1
    <3> DEFINE row == [account[Cursor] EXCEPT !.plan = plan, !.about = "done"]
               say == [said[Cursor] EXCEPT !.plan = plan]
    <3>2. row \in AccountRows /\ row.windows = account[Cursor].windows /\ row.plan = plan
          /\ row.authenticated = account[Cursor].authenticated
      BY DEF AccountRows
    <3>3. say \in Sayings /\ say.windows = said[Cursor].windows /\ say.plan = plan
          /\ say.authenticated = said[Cursor].authenticated
          /\ say.session = said[Cursor].session /\ say.confirmed = said[Cursor].confirmed
      BY DEF Sayings
    <3>4. account' = [account EXCEPT ![Cursor] = row] /\ said' = [said EXCEPT ![Cursor] = say]
      BY <3>1
    <3> HIDE DEF row, say
    <3>5. OtherStep(Cursor, row, say)
      BY <1>1, <2>0, <3>2, <3>3, <3>4 DEF OtherStep
    <3> QED BY <3>5, OtherKeeps
  <2>2. CASE \E is \in Authentications :
                /\ account' = [account EXCEPT ![Cursor].authenticated = is,
                      ![Cursor].status = "done", ![Cursor].failed = @ \/ is = Read("no")]
                /\ said' = [said EXCEPT ![Cursor].authenticated = is]
    <3>1. PICK is \in Authentications :
                /\ account' = [account EXCEPT ![Cursor].authenticated = is,
                      ![Cursor].status = "done", ![Cursor].failed = @ \/ is = Read("no")]
                /\ said' = [said EXCEPT ![Cursor].authenticated = is]
      BY <2>2
    <3> DEFINE row == [account[Cursor] EXCEPT !.authenticated = is, !.status = "done",
                                              !.failed = @ \/ is = Read("no")]
               say == [said[Cursor] EXCEPT !.authenticated = is]
    <3>2. row \in AccountRows /\ row.windows = account[Cursor].windows /\ row.authenticated = is
          /\ row.plan = account[Cursor].plan
      BY DEF AccountRows
    <3>3. say \in Sayings /\ say.windows = said[Cursor].windows /\ say.plan = said[Cursor].plan
          /\ say.authenticated = is
          /\ say.session = said[Cursor].session /\ say.confirmed = said[Cursor].confirmed
      BY DEF Sayings
    <3>4. account' = [account EXCEPT ![Cursor] = row] /\ said' = [said EXCEPT ![Cursor] = say]
      BY <3>1
    <3> HIDE DEF row, say
    <3>5. OtherStep(Cursor, row, say)
      BY <1>1, <2>0, <3>2, <3>3, <3>4 DEF OtherStep
    <3> QED BY <3>5, OtherKeeps
  <2>3. CASE UNCHANGED said /\ account' = [account EXCEPT ![Cursor] = OneFails(@, asked)]
    <3> DEFINE row == OneFails(account[Cursor], asked)
    <3>1. row \in AccountRows /\ row.windows = account[Cursor].windows
          /\ row.authenticated = account[Cursor].authenticated /\ row.plan = account[Cursor].plan
      BY <1>6 DEF AccountRows, OneFails
    <3>2. account' = [account EXCEPT ![Cursor] = row]
      BY <2>3
    <3> HIDE DEF row
    <3> QED BY <1>2, <2>0, <2>3, <3>1, <3>2
  <2> QED BY <1>6, <2>1, <2>2, <2>3 DEF CursorAnswers, Authentications
<1> QED BY <1>3, <1>4, <1>5, <1>6

\* With the answer every row gets what its failure or its session allow.
LEMMA ReturnKeeps == SnapshotInv /\ Return => SnapshotInv'
<1> SUFFICES ASSUME SnapshotInv, Return PROVE SnapshotInv'
  OBVIOUS
<1> USE AccountsTyped
<1>1. request.at = "reading" /\ UNCHANGED <<account, server, said>>
      /\ \A h \in request.rows : account[h].at = "read"
  BY DEF Return
<1>2. PICK at \in {"returned", "rejected"} : request' = [request EXCEPT !.at = at]
  BY DEF Return
<1>3. request' \in [at : {"idle", "reading", "refused", "returned", "rejected"},
                    rows : SUBSET Harness, inspect : SUBSET Harness, candidates : BOOLEAN]
      /\ request'.at = at /\ request'.inspect = request.inspect /\ request'.rows = request.rows
  BY <1>2 DEF SnapshotInv, SnapshotTypes
<1>4. \A h \in Harness : capability[h] \in CapabilityRows /\ capability[h].candidate = Null
  BY <1>1 DEF SnapshotInv, SnapshotTypes, CandidatesAreFit
<1>5. /\ capability' \in [Harness -> CapabilityRows]
      /\ \A h \in Harness :
            /\ capability'[h].session = capability[h].session
            /\ capability'[h].confirmed = capability[h].confirmed
            /\ capability'[h].candidate # Null =>
                  request'.at = "returned" /\ ~capability'[h].failed /\ h \notin request.inspect
  <2>1. CASE UNCHANGED capability
    BY <1>4, <2>1 DEF SnapshotInv, SnapshotTypes
  <2>2. CASE /\ request' = [request EXCEPT !.at = "returned"]
             /\ \E usable \in SUBSET request.rows :
                  capability' = [h \in Harness |->
                     IF h \in request.rows
                     THEN Projected(capability[h], h \in request.inspect, h \in usable)
                     ELSE capability[h]]
    <3>1. PICK usable \in SUBSET request.rows :
             capability' = [h \in Harness |->
                IF h \in request.rows
                THEN Projected(capability[h], h \in request.inspect, h \in usable)
                ELSE capability[h]]
      BY <2>2
    <3>2. request'.at = "returned"
      BY <2>2 DEF SnapshotInv, SnapshotTypes
    <3>3. ASSUME NEW h \in Harness
          PROVE  /\ capability'[h] \in CapabilityRows
                 /\ capability'[h].session = capability[h].session
                 /\ capability'[h].confirmed = capability[h].confirmed
                 /\ capability'[h].candidate # Null => ~capability'[h].failed /\ h \notin request.inspect
      <4> DEFINE row == capability[h]
                 unfit == row.failed \/ "current" \notin UNION row.session \/ h \notin usable
      <4>0. row \in CapabilityRows /\ row.candidate = Null
        BY <1>4
      <4>1. CASE h \notin request.rows \/ ~request.candidates \/ h \in request.inspect
        <5>1. capability'[h] = row
          BY <3>1, <4>1 DEF Projected
        <5> QED BY <4>0, <5>1
      <4>2. CASE h \in request.rows /\ request.candidates /\ h \notin request.inspect /\ unfit
        <5>1. capability'[h] = [row EXCEPT !.candidate = Null, !.failed = TRUE]
          BY <3>1, <4>2 DEF Projected
        <5> QED BY <4>0, <5>1 DEF CapabilityRows
      <4>3. CASE h \in request.rows /\ request.candidates /\ h \notin request.inspect /\ ~unfit
        <5>1. capability'[h] = [row EXCEPT !.candidate = Read("candidate")]
          BY <3>1, <4>3 DEF Projected
        <5>2. ~row.failed
          BY <4>3
        <5> QED BY <4>0, <4>3, <5>1, <5>2 DEF CapabilityRows
      <4> QED BY <4>1, <4>2, <4>3
    <3> QED BY <3>1, <3>2, <3>3
  <2> QED BY <2>1, <2>2 DEF Return
<1>6. SnapshotTypes'
  BY <1>1, <1>3, <1>5 DEF SnapshotInv, SnapshotTypes
<1>7. RowsAreSaid' /\ AccountsAreSaid'
  BY <1>1, <1>5 DEF SnapshotInv, RowsAreSaid, AccountsAreSaid
<1>8. ServerIsKept'
  BY <1>1 DEF SnapshotInv, ServerIsKept
<1>9. CandidatesAreFit'
  BY <1>3, <1>5 DEF CandidatesAreFit
<1> QED BY <1>6, <1>7, <1>8, <1>9 DEF SnapshotInv

LEMMA SnapshotInvNext == SnapshotInv /\ [SnapshotNext]_snapshotVars => SnapshotInv'
<1>1. SnapshotInv /\ UNCHANGED snapshotVars => SnapshotInv'
  BY DEF snapshotVars, SnapshotInv, SnapshotTypes, RowsAreSaid, AccountsAreSaid, ServerIsKept,
         CandidatesAreFit
<1> QED BY <1>1, AskKeeps, RowKeeps, ServerKeeps, EndingKeeps, OtherAccountsKeep, ReturnKeeps
        DEF SnapshotNext

\* What the daemon tells of the harnesses, and of each account, is what they said,
\* at every step of every request (readHarnessDetails, observeAcpHarness).
THEOREM SnapshotInvariance == SnapshotSpec => []SnapshotInv
BY SnapshotInvInit, SnapshotInvNext, PTL DEF SnapshotSpec

\* What the type of a row says of its unknowns.
LEMMA RowUnknowns ==
    ASSUME NEW row \in CapabilityRows
    PROVE  LET told == (IF row.runtime THEN {"runtime"} ELSE {})
                       \cup (IF row.session = Null THEN {} ELSE {"session"} \cup UNION row.session)
               unknown == UnknownOfRow(row)
           IN  /\ unknown \cap told = {} /\ {"runtime", "session"} \subseteq unknown \cup told
               /\ unknown \cup told \subseteq {"runtime", "session"} \cup Facts
               /\ "session" \in told => Facts \ (unknown \cup told) \subseteq {"current"}
               /\ "models" \in told => "current" \in unknown \cup told
<1>1. CASE row.session = Null
  BY <1>1 DEF UnknownOfRow, Null
<1>2. CASE \E facts \in SUBSET Facts : row.session = Read(facts)
  <2>1. PICK facts \in SUBSET Facts : row.session = Read(facts)
    BY <1>2
  <2>2. UNION row.session = facts /\ row.session # Null
    BY <2>1 DEF Read, Null
  <2>3. UnknownOfRow(row) = (IF row.runtime THEN {} ELSE {"runtime"})
            \cup (({IF "models" \in facts THEN "current" ELSE "models"}
                     \cup {"options", "usage"}) \ facts)
    BY <2>2 DEF UnknownOfRow, UnknownModels
  <2> DEFINE told == (IF row.runtime THEN {"runtime"} ELSE {})
                       \cup (IF row.session = Null THEN {} ELSE {"session"} \cup UNION row.session)
             unknown == UnknownOfRow(row)
  <2>4. told = (IF row.runtime THEN {"runtime"} ELSE {}) \cup {"session"} \cup facts
    BY <2>2
  <2> HIDE DEF told, unknown
  <2>5. \A x \in facts : x \in {"models", "current", "options", "usage"}
    BY DEF Facts
  <2>6. CASE "models" \in facts
    <3>1. unknown = (IF row.runtime THEN {} ELSE {"runtime"}) \cup ({"current", "options", "usage"} \ facts)
      BY <2>3, <2>6 DEF unknown
    <3>2. unknown \cap told = {} /\ {"runtime", "session"} \subseteq unknown \cup told
      BY <2>4, <2>5, <3>1
    <3>3. unknown \cup told \subseteq {"runtime", "session"} \cup Facts
      BY <2>4, <2>5, <3>1 DEF Facts
    <3>4. Facts \ (unknown \cup told) \subseteq {"current"} /\ "current" \in unknown \cup told
      BY <2>4, <2>6, <3>1 DEF Facts
    <3> QED BY <3>2, <3>3, <3>4 DEF told, unknown
  <2>7. CASE "models" \notin facts
    <3>1. unknown = (IF row.runtime THEN {} ELSE {"runtime"}) \cup ({"models", "options", "usage"} \ facts)
      BY <2>3, <2>7 DEF unknown
    <3>2. unknown \cap told = {} /\ {"runtime", "session"} \subseteq unknown \cup told
      BY <2>4, <2>5, <3>1
    <3>3. unknown \cup told \subseteq {"runtime", "session"} \cup Facts
      BY <2>4, <2>5, <3>1 DEF Facts
    <3>4. Facts \ (unknown \cup told) \subseteq {"current"} /\ "models" \notin told
      BY <2>4, <2>7, <3>1 DEF Facts
    <3> QED BY <3>2, <3>3, <3>4 DEF told, unknown
  <2> QED BY <2>6, <2>7
<1> QED BY <1>1, <1>2 DEF CapabilityRows, Observations

\* So for an account.
LEMMA AccountUnknowns ==
    ASSUME NEW row \in AccountRows
    PROVE  LET told == (IF row.plan THEN {"plan"} ELSE {})
                       \cup (IF row.authenticated = Null THEN {} ELSE {"authenticated"})
                       \cup (IF row.windows = Null THEN {} ELSE {"windows"})
           IN  /\ UnknownOfAccount(row) \cap told = {}
               /\ UnknownOfAccount(row) \cup told = {"plan", "authenticated", "windows"}
BY DEF UnknownOfAccount

\* The answer names every unknown fact of every row, and no other.
LEMMA UnknownsOf ==
    ASSUME SnapshotInv, NEW h \in request.rows
    PROVE  LET unknown == {u[2] : u \in {v \in unknownsIn : v[1] = h}}
               listed  == UnknownOfRow(capability[h]) \cup UnknownOfAccount(account[h])
           IN  listed \subseteq unknown /\ unknown \subseteq listed \cup {"preferences"}
<1> DEFINE unknown == {u[2] : u \in {v \in unknownsIn : v[1] = h}}
           listed(g)  == UnknownOfRow(capability[g]) \cup UnknownOfAccount(account[g])
<1>1. ASSUME NEW fact \in listed(h) PROVE fact \in unknown
  <2>1. <<h, fact>> \in unknownsIn
    BY <1>1 DEF unknownsIn
  <2>2. <<h, fact>>[1] = h /\ <<h, fact>>[2] = fact
    OBVIOUS
  <2> QED BY <2>1, <2>2
<1>2. ASSUME NEW fact \in unknown PROVE fact \in listed(h) \cup {"preferences"}
  <2>1. PICK u \in unknownsIn : u[1] = h /\ fact = u[2]
    BY <1>2
  <2>2. u = <<"owner", "preferences">> \/ \E g \in request.rows : \E f \in listed(g) : u = <<g, f>>
    BY <2>1 DEF unknownsIn
  <2> QED BY <2>1, <2>2
<1> QED BY <1>1, <1>2

\* A failing source loses nothing another said, no fact is both told and unknown or
\* neither, and an answer leaves no child of Codex behind and no candidate of a row
\* that failed (readHarnessDetails, unknownsIn, terminate).
THEOREM SnapshotStaysTrue == SnapshotSpec => []SnapshotIsTrue
<1>1. SnapshotInv => SnapshotIsTrue
  <2> SUFFICES ASSUME SnapshotInv PROVE SnapshotIsTrue
    OBVIOUS
  <2>1. request.rows \subseteq Harness
    BY DEF SnapshotInv, SnapshotTypes
  <2>2. SourcesStandAlone
    <3>1. request.at = "returned" => account[Codex].at \notin {"asking"}
      BY DEF SnapshotInv, ServerIsKept
    <3> QED BY <2>1, <3>1 DEF SourcesStandAlone, SnapshotInv, RowsAreSaid, AccountsAreSaid
  <2>3. NothingIsMissing
    <3> SUFFICES ASSUME NEW h \in request.rows
                 PROVE  LET unknown == {u[2] : u \in {v \in unknownsIn : v[1] = h}} IN
                        /\ unknown \cap Told(h) = {}
                        /\ {"runtime", "session", "plan", "authenticated", "windows"}
                              \subseteq unknown \cup Told(h)
                        /\ "session" \in Told(h) => Facts \ (unknown \cup Told(h)) \subseteq {"current"}
                        /\ "models" \in Told(h) => "current" \in unknown \cup Told(h)
      BY DEF NothingIsMissing
    <3> DEFINE unknown == {u[2] : u \in {v \in unknownsIn : v[1] = h}}
               row == capability[h]
               acc == account[h]
               told1 == (IF row.runtime THEN {"runtime"} ELSE {})
                       \cup (IF row.session = Null THEN {} ELSE {"session"} \cup UNION row.session)
               told2 == (IF acc.plan THEN {"plan"} ELSE {})
                       \cup (IF acc.authenticated = Null THEN {} ELSE {"authenticated"})
                       \cup (IF acc.windows = Null THEN {} ELSE {"windows"})
    <3>1. row \in CapabilityRows /\ acc \in AccountRows
      BY <2>1 DEF SnapshotInv, SnapshotTypes
    <3>2. Told(h) = told1 \cup told2
      BY DEF Told
    <3>3. UnknownOfRow(row) \cup UnknownOfAccount(acc) \subseteq unknown
          /\ unknown \subseteq UnknownOfRow(row) \cup UnknownOfAccount(acc) \cup {"preferences"}
      BY UnknownsOf
    <3>4. /\ UnknownOfRow(row) \cap told1 = {}
          /\ {"runtime", "session"} \subseteq UnknownOfRow(row) \cup told1
          /\ UnknownOfRow(row) \cup told1 \subseteq {"runtime", "session"} \cup Facts
          /\ "session" \in told1 => Facts \ (UnknownOfRow(row) \cup told1) \subseteq {"current"}
          /\ "models" \in told1 => "current" \in UnknownOfRow(row) \cup told1
      BY <3>1, RowUnknowns
    <3>5. /\ UnknownOfAccount(acc) \cap told2 = {}
          /\ UnknownOfAccount(acc) \cup told2 = {"plan", "authenticated", "windows"}
      BY <3>1, AccountUnknowns
    <3> HIDE DEF unknown, row, acc, told1, told2
    <3> DEFINE known == Told(h)
    <3>6. /\ unknown \cap known = {}
          /\ {"runtime", "session", "plan", "authenticated", "windows"} \subseteq unknown \cup known
          /\ "session" \in known => Facts \ (unknown \cup known) \subseteq {"current"}
          /\ "models" \in known => "current" \in unknown \cup known
      BY <3>2, <3>3, <3>4, <3>5 DEF Facts
    <3> QED BY <3>6 DEF unknown
  <2>4. NothingIsLeft
    BY <2>1, SnapshotAssumption DEF NothingIsLeft, SnapshotInv, SnapshotTypes, AccountRows, ServerIsKept,
                                    CandidatesAreFit
  <2> QED BY <2>2, <2>3, <2>4 DEF SnapshotIsTrue
<1> QED BY <1>1, SnapshotInvariance, PTL

-----------------------------------------------------------------------------
(* The owner's setup, in any number of terminals.                          *)

\* Where a terminal may stand: outside the flow, at a step, or within one.
AtSteps == {"intro", "privacy", "auth", "permissions", "session-sources", "always-on",
            "active-window", "skills"}
Outside == {"closed", "chat", "finish"}
Between == {"privacy-policy", "permissions-policy", "command-policy"}
Within == Between \cup {"privacy-mark", "auth-imported", "auth-declined", "auth-check",
            "permissions-mark", "review", "sources-hosts", "sources-mark",
            "always-on-installed", "always-on-mark", "active-window-mark", "skills-mark"}

Value == {"unset", "old", "declined", "installed", "1d", "owner-operator"} \cup Modes
Screen == [enabled : SUBSET Format, defaults : SUBSET Format, explicit : SUBSET Store,
           edits : Nat, base : SUBSET Store]
Terminal == [at : AtSteps \cup Outside \cup Within, todo : SUBSET StepSet,
             forced : BOOLEAN, screen : Screen]

SetupTypeOK ==
    /\ HomeTypeOK
    /\ marker \in Marker
    /\ settings \in [Key -> Value]
    /\ pi \in [auth : BOOLEAN, model : BOOLEAN]
    /\ installed \in BOOLEAN
    /\ term \in [Term -> Terminal]

\* What was done before a terminal stands where it marks a step.
Due(at, values, up, roots) ==
    /\ at \in {"permissions-policy", "permissions-mark"} => values["mode"] # "unset"
    /\ at = "always-on-installed" => up
    /\ at = "always-on-mark" => values["alwaysOn"] # "unset"
    /\ at = "active-window-mark" => values["window"] # "unset"
    /\ at = "skills-mark" => values["skills"] # "unset"
    /\ at = "sources-mark" => HostRoots \subseteq roots
DueIsDone == \A t \in Term : Due(term[t].at, settings, installed, hosts)

\* A review that nobody edited proposes what was read before, and what was declared.
Narrow(to) == to.at = "review" /\ to.screen.edits = 0 =>
                Authorized(to.screen) \subseteq to.screen.base \cup Declared
ReviewsAreNarrow == \A t \in Term : Narrow(term[t])

SetupInv == /\ SetupTypeOK /\ DueIsDone /\ ReviewsAreNarrow
            /\ ConsentsAreSaved /\ ApertureIsReviewed /\ PolicyFollows

\* A terminal moves.
Moves(t, to) == to \in Terminal /\ term' = [term EXCEPT ![t] = to]

LEMMA TheSteps == StepSet = AtSteps /\ Steps \in [1..8 -> AtSteps]
BY DEF StepSet, AtSteps, Steps, ToSet

LEMMA TheKeys == /\ Key = {"mode", "window", "skills", "alwaysOn"}
                 /\ StepOf["mode"] = "permissions" /\ StepOf["window"] = "active-window"
                 /\ StepOf["skills"] = "skills" /\ StepOf["alwaysOn"] = "always-on"
BY DEF Key, StepOf

\* The next step to ask about is one of those left; without one, the flow ends.
LEMMA NextIsLeft ==
    ASSUME NEW todo \in SUBSET StepSet
    PROVE  NextPrompt(todo) \in AtSteps \cup {"finish"}
<1> DEFINE Least(i) == Steps[i] \in todo /\ \A j \in 1..(i - 1) : Steps[j] \notin todo
<1>1. DOMAIN Steps = 1..8
  BY TheSteps
<1>2. CASE todo = {}
  BY <1>2 DEF NextPrompt
<1>3. CASE todo # {}
  <2>1. PICK i \in 1..8 : Steps[i] \in todo
    BY <1>3 DEF StepSet, Steps, ToSet
  <2>2. \E n \in 1..8 : Least(n)
    <3>1. CASE Steps[1] \in todo
      BY <3>1
    <3>2. CASE Steps[1] \notin todo /\ Steps[2] \in todo
      BY <3>2
    <3>3. CASE Steps[1] \notin todo /\ Steps[2] \notin todo /\ Steps[3] \in todo
      BY <3>3
    <3>4. CASE Steps[1] \notin todo /\ Steps[2] \notin todo /\ Steps[3] \notin todo /\ Steps[4] \in todo
      BY <3>4
    <3>5. CASE (\A j \in 1..4 : Steps[j] \notin todo) /\ Steps[5] \in todo
      BY <3>5
    <3>6. CASE (\A j \in 1..5 : Steps[j] \notin todo) /\ Steps[6] \in todo
      BY <3>6
    <3>7. CASE (\A j \in 1..6 : Steps[j] \notin todo) /\ Steps[7] \in todo
      BY <3>7
    <3>8. CASE (\A j \in 1..7 : Steps[j] \notin todo) /\ Steps[8] \in todo
      BY <3>8
    <3> HIDE DEF Least
    <3> QED BY <2>1, <3>1, <3>2, <3>3, <3>4, <3>5, <3>6, <3>7, <3>8
  <2>3. NextPrompt(todo) = Steps[CHOOSE n \in 1..8 : Least(n)]
    BY <1>1, <1>3 DEF NextPrompt
  <2> HIDE DEF Least
  <2>4. (CHOOSE n \in 1..8 : Least(n)) \in 1..8
    BY <2>2
  <2> QED BY <2>3, <2>4, TheSteps
<1> QED BY <1>2, <1>3

\* Where each way of moving on leads.
LEMMA ClosedIsATerminal == Closed \in Terminal
BY DEF Closed, NoScreen, Terminal, Screen, Outside

LEMMA GotoMoves ==
    ASSUME SetupTypeOK, NEW t \in Term, NEW at \in AtSteps \cup Outside \cup Within, Goto(t, at)
    PROVE  \E to : Moves(t, to) /\ to.at = at
<1> DEFINE to == [term[t] EXCEPT !.at = at]
<1>1. term[t] \in Terminal
  BY DEF SetupTypeOK
<1>2. to \in Terminal /\ to.at = at
  BY <1>1 DEF Terminal
<1>3. term' = [term EXCEPT ![t] = to]
  BY DEF Goto
<1> QED BY <1>2, <1>3 DEF Moves

LEMMA ChatMoves ==
    ASSUME NEW t \in Term, Chat(t)
    PROVE  \E to : Moves(t, to) /\ to.at = "chat"
<1> DEFINE to == [Closed EXCEPT !.at = "chat"]
<1>1. to \in Terminal /\ to.at = "chat"
  BY ClosedIsATerminal DEF Terminal, Outside
<1> QED BY <1>1 DEF Moves, Chat

LEMMA DoneMoves ==
    ASSUME SetupTypeOK, NEW t \in Term, NEW step, Done(t, step)
    PROVE  \E to : Moves(t, to) /\ to.at \in AtSteps \cup {"finish"}
<1> DEFINE todo == term[t].todo \ {step}
           at == NextPrompt(todo)
           to == [Closed EXCEPT !.at = at, !.todo = todo, !.forced = term[t].forced]
<1>1. term[t] \in Terminal
  BY DEF SetupTypeOK
<1>2. todo \in SUBSET StepSet /\ term[t].forced \in BOOLEAN
  BY <1>1 DEF Terminal
<1>3. at \in AtSteps \cup {"finish"}
  BY <1>2, NextIsLeft
<1>4. term' = [term EXCEPT ![t] = to]
  BY DEF Done
<1> HIDE DEF at, todo
<1>5. to \in Terminal /\ to.at = at
  BY <1>2, <1>3, ClosedIsATerminal DEF Terminal, Outside
<1> QED BY <1>3, <1>4, <1>5 DEF Moves

LEMMA RunMoves ==
    ASSUME NEW t \in Term, NEW force \in BOOLEAN, Run(t, force)
    PROVE  \E to : Moves(t, to) /\ to.at \in AtSteps \cup {"finish", "chat"}
<1>1. CASE ~force /\ isOnboarded
  BY <1>1, ChatMoves DEF Run
<1>2. CASE ~(~force /\ isOnboarded)
  <2> DEFINE todo == IF force THEN StepSet ELSE pendingOnboardingSteps
             at == NextPrompt(todo)
             to == [Closed EXCEPT !.at = at, !.todo = todo, !.forced = force]
  <2>1. todo \in SUBSET StepSet
    BY DEF pendingOnboardingSteps
  <2>2. at \in AtSteps \cup {"finish"}
    BY <2>1, NextIsLeft
  <2>3. term' = [term EXCEPT ![t] = to]
    BY <1>2 DEF Run
  <2> HIDE DEF at, todo
  <2>4. to \in Terminal /\ to.at = at
    BY <2>1, <2>2, ClosedIsATerminal DEF Terminal, Outside
  <2> QED BY <2>2, <2>3, <2>4 DEF Moves
<1> QED BY <1>1, <1>2

\* A move keeps what terminals know, when nothing that was done is undone and the
\* terminal that moved did what is due.
LEMMA MoveKeeps ==
    ASSUME SetupInv, NEW t \in Term, NEW to, Moves(t, to), Narrow(to),
           Due(to.at, settings', installed', hosts'),
           \A k \in Key : settings[k] # "unset" => settings'[k] # "unset",
           installed => installed', hosts \subseteq hosts'
    PROVE  term' \in [Term -> Terminal] /\ DueIsDone' /\ ReviewsAreNarrow'
<1>1. term \in [Term -> Terminal]
  BY DEF SetupInv, SetupTypeOK
<1>2. /\ term' \in [Term -> Terminal] /\ term'[t] = to
      /\ \A u \in Term \ {t} : term'[u] = term[u]
  BY <1>1 DEF Moves
<1>3. \A u \in Term : Narrow(term'[u])
  BY <1>2 DEF SetupInv, ReviewsAreNarrow
<1>4. ASSUME NEW u \in Term PROVE Due(term'[u].at, settings', installed', hosts')
  <2>1. CASE u = t
    BY <2>1, <1>2
  <2>2. CASE u # t
    <3>1. Due(term[u].at, settings, installed, hosts) /\ term'[u] = term[u]
      BY <2>2, <1>2 DEF SetupInv, DueIsDone
    <3> QED BY <3>1, TheKeys DEF Due
  <2> QED BY <2>1, <2>2
<1> QED BY <1>2, <1>3, <1>4 DEF DueIsDone, ReviewsAreNarrow, Narrow, Authorized

\* Most places ask for nothing.
LEMMA NothingDue ==
    ASSUME NEW at, NEW values, NEW up, NEW roots,
           \/ at \in AtSteps \cup Outside
           \/ at \in {"privacy-policy", "command-policy", "privacy-mark", "auth-imported",
                      "auth-declined", "auth-check", "review", "sources-hosts"}
    PROVE  Due(at, values, up, roots)
BY DEF Due, AtSteps, Outside

\* What the policy, the aperture and the consents need of a step.
LEMMA PolicyStays ==
    ASSUME SetupInv, NEW t \in Term, NEW to, Moves(t, to), term[t].at \notin Between,
           UNCHANGED <<blacklist, policy>>, torn => torn', settings'["mode"] = settings["mode"]
    PROVE  PolicyFollows'
<1>1. term \in [Term -> Terminal]
  BY DEF SetupInv, SetupTypeOK
<1>2. \A u \in Term \ {t} : term'[u] = term[u]
  BY <1>1 DEF Moves
<1>3. PolicyFollows
  BY DEF SetupInv
<1>4. CASE torn
  BY <1>4 DEF PolicyFollows
<1>5. CASE \E u \in Term : term[u].at \in Between
  BY <1>2, <1>5 DEF PolicyFollows, Between
<1>6. CASE policy = permissionPolicy(blacklist, loadPermissionMode)
  BY <1>6 DEF PolicyFollows, permissionPolicy, loadPermissionMode
<1> QED BY <1>3, <1>4, <1>5, <1>6 DEF PolicyFollows, Between

LEMMA PolicyMade ==
    ASSUME reconcilePermissionSettings, UNCHANGED <<blacklist, settings>>
    PROVE  PolicyFollows'
BY DEF PolicyFollows, reconcilePermissionSettings, permissionPolicy, loadPermissionMode

LEMMA PolicyUnderway ==
    ASSUME SetupInv, NEW t \in Term, NEW to, Moves(t, to), to.at \in Between
    PROVE  PolicyFollows'
<1>1. term'[t] = to
  BY DEF SetupInv, SetupTypeOK, Moves
<1> QED BY <1>1 DEF PolicyFollows, Between

LEMMA ApertureStays ==
    ASSUME SetupInv, UNCHANGED <<sources, shown, widened>>
    PROVE  ApertureIsReviewed'
BY DEF SetupInv, ApertureIsReviewed, loadTranscriptStores

LEMMA ConsentsStay ==
    ASSUME SetupInv, UNCHANGED <<marker, blacklist, named, settings, chose>>,
           installed => installed', hosts \subseteq hosts', Ready(pi) => Ready(pi')
    PROVE  ConsentsAreSaved'
BY DEF SetupInv, ConsentsAreSaved, Ready

\* A step is marked when what it asked was done.
LEMMA MarkKeeps ==
    ASSUME SetupInv, NEW step \in AtSteps, markOnboardingStep(step),
           step = "auth" => Ready(pi),
           step = "session-sources" => HostRoots \subseteq hosts,
           \A k \in Key : StepOf[k] = step => settings[k] # "unset",
           UNCHANGED <<homeVars, settings, pi, installed, named, chose>>
    PROVE  marker' \in Marker /\ ConsentsAreSaved'
<1>1. marker \in Marker /\ ConsentsAreSaved
  BY DEF SetupInv, SetupTypeOK
<1>2. PICK made : /\ made \in Marker
                  /\ made.completed = marker.completed \cup {step}
                  /\ made.authCurrent = (marker.authCurrent \/ step = "auth")
                  /\ made.catalogCurrent = (marker.catalogCurrent \/ step = "session-sources")
                  /\ marker' = made
  <2> DEFINE made == [marker EXCEPT !.versionCurrent = TRUE, !.completed = @ \cup {step},
                           !.authCurrent = @ \/ step = "auth",
                           !.catalogCurrent = @ \/ step = "session-sources"]
  <2>1. made \in Marker
    BY <1>1, TheSteps DEF Marker
  <2>2. /\ made.completed = marker.completed \cup {step}
        /\ made.authCurrent = (marker.authCurrent \/ step = "auth")
        /\ made.catalogCurrent = (marker.catalogCurrent \/ step = "session-sources")
    BY <1>1 DEF Marker
  <2> QED BY <2>1, <2>2 DEF markOnboardingStep
<1>3. UNCHANGED <<blacklist, sources, hosts>>
  BY DEF homeVars
<1>4. ("auth" \in made.completed /\ made.authCurrent) => Ready(pi)
  BY <1>1, <1>2 DEF ConsentsAreSaved
<1>5. ("session-sources" \in made.completed /\ made.catalogCurrent) => HostRoots \subseteq hosts
  BY <1>1, <1>2 DEF ConsentsAreSaved
<1>6. \A k \in Key : StepOf[k] \in made.completed => settings[k] # "unset"
  BY <1>1, <1>2 DEF ConsentsAreSaved
<1> QED BY <1>1, <1>2, <1>3, <1>4, <1>5, <1>6 DEF ConsentsAreSaved, Ready

\* A value is saved: the key is set, the others are kept.
LEMMA SaveKeeps ==
    ASSUME SetupInv, NEW key \in Key, NEW value \in Value \ {"unset"},
           saveHarnessSettings(key, value), key = "alwaysOn" /\ value = "installed" => installed,
           UNCHANGED <<homeVars, marker, pi, installed, named>>
    PROVE  /\ settings' \in [Key -> Value] /\ ConsentsAreSaved'
           /\ settings'[key] # "unset"
           /\ \A k \in Key : settings[k] # "unset" => settings'[k] # "unset"
           /\ \A k \in Key \ {key} : settings'[k] = settings[k]
<1>1. settings \in [Key -> Value] /\ ConsentsAreSaved
  BY DEF SetupInv, SetupTypeOK
<1>2. /\ settings' \in [Key -> Value] /\ settings'[key] = value
      /\ \A k \in Key \ {key} : settings'[k] = settings[k]
  BY <1>1 DEF saveHarnessSettings
<1>3. settings' = chose'
  BY <1>1 DEF saveHarnessSettings, ConsentsAreSaved
<1>4. \A k \in Key : settings[k] # "unset" => settings'[k] # "unset"
  BY <1>2
<1>5. settings'["alwaysOn"] = "installed" => installed
  BY <1>1, <1>2, TheKeys DEF ConsentsAreSaved
<1>6. UNCHANGED <<blacklist, sources, hosts>>
  BY DEF homeVars
<1> QED BY <1>1, <1>2, <1>3, <1>4, <1>5, <1>6 DEF ConsentsAreSaved, Ready

\* The types of what a step left alone.
LEMMA TypeStays ==
    ASSUME SetupInv, HomeTypeOK', marker' \in Marker, settings' \in [Key -> Value],
           pi' \in [auth : BOOLEAN, model : BOOLEAN], installed' \in BOOLEAN,
           term' \in [Term -> Terminal]
    PROVE  SetupTypeOK'
BY DEF SetupTypeOK

\* A step that moves a terminal and leaves the files alone.
LEMMA OnlyMoves ==
    ASSUME SetupInv, NEW t \in Term, NEW to, Moves(t, to), Narrow(to),
           Due(to.at, settings, installed, hosts), PolicyFollows',
           UNCHANGED <<homeVars, marker, settings, pi, installed, named, chose, shown, widened>>
    PROVE  SetupInv'
<1>1. /\ UNCHANGED <<blacklist, sources, hosts>> /\ HomeTypeOK /\ SetupTypeOK
  BY DEF homeVars, SetupInv, SetupTypeOK
<1>2. term' \in [Term -> Terminal] /\ DueIsDone' /\ ReviewsAreNarrow'
  BY <1>1, MoveKeeps
<1>3. ConsentsAreSaved' /\ ApertureIsReviewed'
  BY <1>1, ConsentsStay, ApertureStays
<1>4. SetupTypeOK'
  BY <1>1, <1>2 DEF SetupTypeOK, HomeTypeOK
<1> QED BY <1>2, <1>3, <1>4 DEF SetupInv

\* A step that marks and goes on.
LEMMA OnlyMarks ==
    ASSUME SetupInv, NEW t \in Term, NEW step \in AtSteps, term[t].at \notin Between,
           markOnboardingStep(step), Done(t, step),
           step = "auth" => Ready(pi),
           step = "session-sources" => HostRoots \subseteq hosts,
           \A k \in Key : StepOf[k] = step => settings[k] # "unset",
           UNCHANGED <<homeVars, settings, policy, pi, installed, named, chose, shown, torn, widened>>
    PROVE  SetupInv'
<1>1. /\ UNCHANGED <<blacklist, sources, hosts>> /\ HomeTypeOK /\ SetupTypeOK
  BY DEF homeVars, SetupInv, SetupTypeOK
<1>2. PICK to : Moves(t, to) /\ to.at \in AtSteps \cup {"finish"}
  BY <1>1, DoneMoves
<1>3. Narrow(to) /\ Due(to.at, settings', installed', hosts')
  BY <1>2, NothingDue DEF Narrow, AtSteps, Outside
<1>4. term' \in [Term -> Terminal] /\ DueIsDone' /\ ReviewsAreNarrow'
  BY <1>1, <1>2, <1>3, MoveKeeps
<1>5. marker' \in Marker /\ ConsentsAreSaved'
  BY MarkKeeps
<1>6. ApertureIsReviewed' /\ PolicyFollows'
  BY <1>1, <1>2, ApertureStays, PolicyStays
<1>7. SetupTypeOK'
  BY <1>1, <1>4, <1>5 DEF SetupTypeOK, HomeTypeOK
<1> QED BY <1>4, <1>5, <1>6, <1>7 DEF SetupInv

LEMMA SetupInvInit == SetupStart => SetupInv
<1> SUFFICES ASSUME SetupStart PROVE SetupInv
  OBVIOUS
<1>1. marker \in Marker /\ HomeTypeOK /\ (marker.catalogCurrent => HostRoots \subseteq hosts)
  BY SetupAssumption DEF SetupStart, SetupInit
<1>2. /\ settings \in [Key -> {"old", "unset"}] /\ chose = settings
      /\ \A k \in Key : StepOf[k] \in marker.completed => settings[k] # "unset"
  BY DEF SetupStart, SetupInit
<1>3. pi \in [auth : BOOLEAN, model : BOOLEAN] /\ (marker.authCurrent => Ready(pi))
  BY <1>1 DEF SetupStart, SetupInit, Ready, Marker
<1>4. \A t \in Term : term[t] = Closed
  BY DEF SetupStart, SetupInit
<1>5. SetupTypeOK
  BY <1>1, <1>2, <1>3, ClosedIsATerminal DEF SetupTypeOK, SetupStart, SetupInit, Value
<1>6. DueIsDone /\ ReviewsAreNarrow
  BY <1>4, NothingDue DEF DueIsDone, ReviewsAreNarrow, Narrow, Closed, Outside
<1>7. ConsentsAreSaved
  <2>1. named = blacklist
    BY DEF SetupStart, SetupInit
  <2>2. settings["alwaysOn"] # "installed"
    BY <1>2, TheKeys
  <2> QED BY <1>1, <1>2, <1>3, <2>1, <2>2 DEF ConsentsAreSaved
<1>8. ApertureIsReviewed
  BY DEF SetupStart, SetupInit, ApertureIsReviewed
<1>9. PolicyFollows
  <2>1. settings["mode"] \notin Modes
    BY <1>2, TheKeys DEF Modes
  <2> QED BY <2>1 DEF SetupStart, SetupInit, PolicyFollows, loadPermissionMode
<1> QED BY <1>5, <1>6, <1>7, <1>8, <1>9 DEF SetupInv

\* A review, as it is built and as it is saved.
LEMMA ReviewOpensNarrow ==
    ASSUME SetupInv, NEW t \in Term, buildSessionCatalogReview(t)
    PROVE  \E to : Moves(t, to) /\ to.at = "review" /\ Narrow(to)
<1> DEFINE access == loadTranscriptAccess(sources)
           stores == loadTranscriptStores(sources)
           screen == [enabled |-> access.selected, defaults |-> access.defaults,
                      explicit |-> detectSessionSourceCandidates(FALSE), edits |-> 0,
                      base |-> stores]
           to == [term[t] EXCEPT !.at = "review", !.screen = screen]
<1>1. term[t] \in Terminal /\ term \in [Term -> Terminal] /\ sources \in [disable : SUBSET Format, add : SUBSET Store]
  BY DEF SetupInv, SetupTypeOK, HomeTypeOK
<1>2. stores \in SUBSET Store
  BY <1>1 DEF loadTranscriptStores
<1>3. access.selected = {s.format : s \in stores} /\ access.defaults = Format \ sources.disable
  BY DEF loadTranscriptAccess
<1>4. access.selected \in SUBSET Format
  BY <1>2, <1>3 DEF Store
<1>5. detectSessionSourceCandidates(FALSE) \subseteq sources.add \cup Declared
  BY DEF detectSessionSourceCandidates
<1>6. screen \in Screen
  BY <1>1, <1>2, <1>3, <1>4, <1>5, SetupAssumption DEF Screen
<1>7. to \in Terminal /\ to.at = "review" /\ to.screen = screen
  <2> HIDE DEF screen
  <2> QED BY <1>1, <1>6 DEF Terminal, Within
<1>8. term' = [term EXCEPT ![t] = to]
  <2> HIDE DEF access, stores
  <2> QED BY <1>1 DEF buildSessionCatalogReview, access, stores
<1>9. Authorized(screen) \subseteq screen.base \cup Declared
  BY <1>1, <1>3, <1>5 DEF Authorized, loadTranscriptStores, Store
<1> HIDE DEF to, screen
<1> QED BY <1>7, <1>8, <1>9 DEF Moves, Narrow

\* What is read after a save is what the screen says may be read.
LEMMA SavedIsAuthorized ==
    ASSUME NEW screen \in Screen
    PROVE  LET saved == saveTranscriptAccess(resultFrom(screen).selected, resultFrom(screen).roots,
                                             resultFrom(screen).defaults)
           IN  /\ saved \in [disable : SUBSET Format, add : SUBSET Store]
               /\ loadTranscriptStores(saved) = Authorized(screen)
<1> DEFINE result == resultFrom(screen)
           saved == saveTranscriptAccess(result.selected, result.roots, result.defaults)
<1>1. /\ saved.disable = Format \ (screen.enabled \cap screen.defaults)
      /\ saved.add = {s \in screen.explicit : s.format \in screen.enabled}
  BY DEF resultFrom, saveTranscriptAccess
<1>2. saved \in [disable : SUBSET Format, add : SUBSET Store]
  BY DEF resultFrom, saveTranscriptAccess, Screen
<1>3. loadTranscriptStores(saved) = Authorized(screen)
  <2> HIDE DEF saved
  <2>1. \A s \in Store : s.format \in Format
    BY DEF Store
  <2>2. screen.explicit \subseteq Store
    BY DEF Screen
  <2> QED BY <1>1, <2>1, <2>2 DEF loadTranscriptStores, Authorized
<1> QED BY <1>2, <1>3

LEMMA SaveReviewKeeps ==
    ASSUME SetupInv, NEW t \in Term, NEW screen \in Screen, term[t].at = "review", SaveReview(t, screen)
    PROVE  SetupInv'
<1>1. /\ UNCHANGED <<blacklist, hosts, marker, settings, policy, pi, installed, named, chose, torn>>
      /\ HomeTypeOK /\ SetupTypeOK
  BY DEF SaveReview, SetupInv, SetupTypeOK
<1>2. PICK to : Moves(t, to) /\ to.at = "sources-hosts"
  BY <1>1, GotoMoves DEF SaveReview, Within
<1>3. Narrow(to) /\ Due(to.at, settings', installed', hosts')
  BY <1>2, NothingDue DEF Narrow
<1>4. term' \in [Term -> Terminal] /\ DueIsDone' /\ ReviewsAreNarrow'
  BY <1>1, <1>2, <1>3, MoveKeeps
<1>5. /\ sources' \in [disable : SUBSET Format, add : SUBSET Store]
      /\ loadTranscriptStores(sources') = Authorized(screen)
  BY SavedIsAuthorized DEF SaveReview
<1>6. shown' = Authorized(screen)
  BY DEF SaveReview
<1>7. ~widened'
  <2>1. ~widened /\ Narrow(term[t])
    BY DEF SetupInv, ApertureIsReviewed, ReviewsAreNarrow
  <2>2. CASE screen = term[t].screen /\ screen.edits = 0
    BY <1>5, <2>1, <2>2 DEF SaveReview, Narrow
  <2>3. CASE ~(screen = term[t].screen /\ screen.edits = 0)
    BY <2>1, <2>3 DEF SaveReview
  <2> QED BY <2>2, <2>3
<1>8. ApertureIsReviewed'
  BY <1>5, <1>6, <1>7 DEF ApertureIsReviewed, loadTranscriptStores
<1>9. ConsentsAreSaved'
  BY <1>1, ConsentsStay
<1>10. PolicyFollows'
  BY <1>1, <1>2, PolicyStays DEF Between
<1>11. SetupTypeOK'
  BY <1>1, <1>4, <1>5 DEF SetupTypeOK, HomeTypeOK
<1> QED BY <1>4, <1>8, <1>9, <1>10, <1>11 DEF SetupInv

\* The keys of the screen and the reply keep it a screen.
LEMMA PressKeeps ==
    ASSUME SetupInv, NEW t \in Term, Press(t)
    PROVE  SetupInv'
<1>1. /\ term[t].at = "review" /\ HomeTypeOK
      /\ UNCHANGED <<homeVars, marker, settings, policy, pi, installed, named, chose, shown, torn, widened>>
  BY DEF Press, SetupInv, SetupTypeOK
<1>2. PICK screen \in Edited(term[t].screen) :
        term' = [term EXCEPT ![t].screen = [screen EXCEPT !.edits = @ + 1]]
  BY DEF Press
<1>3. term \in [Term -> Terminal] /\ term[t] \in Terminal /\ term[t].screen \in Screen
  BY DEF SetupInv, SetupTypeOK, Terminal
<1>4. sources.add \subseteq Store
  BY <1>1 DEF HomeTypeOK
<1>5. detectSessionSourceCandidates(TRUE) \subseteq Store
  BY <1>4, SetupAssumption DEF detectSessionSourceCandidates
<1>6. screen \in Screen
  <2> DEFINE was == term[t].screen
  <2>1. CASE \E f \in Format : screen = Toggle(was, f)
    <3>1. PICK f \in Format : screen = Toggle(was, f)
      BY <2>1
    <3>2. CASE f \in was.enabled
      BY <1>3, <3>1, <3>2 DEF Toggle, Screen
    <3>3. CASE f \notin was.enabled
      BY <1>3, <3>1, <3>3 DEF Toggle, Screen
    <3> QED BY <3>2, <3>3
  <2>2. CASE \E f \in Format : screen = ToggleDefault(was, f)
    BY <1>3, <2>2 DEF ToggleDefault, Screen
  <2>3. CASE \E s \in Deep : screen = AddRoot(was, s)
    <3>1. PICK s \in Deep : screen = AddRoot(was, s)
      BY <2>3
    <3>2. s \in Store /\ s.format \in Format
      BY SetupAssumption DEF Store
    <3> QED BY <1>3, <3>1, <3>2 DEF AddRoot, Screen
  <2>4. CASE screen = SearchMore(was)
    BY <1>3, <1>5, <2>4 DEF SearchMore, Screen
  <2> QED BY <1>2, <2>1, <2>2, <2>3, <2>4 DEF Edited
<1>7. PICK counted \in Screen : counted = [screen EXCEPT !.edits = @ + 1] /\ counted.edits # 0
  <2> DEFINE counted == [screen EXCEPT !.edits = @ + 1]
  <2>1. counted \in Screen /\ counted.edits = screen.edits + 1 /\ screen.edits \in Nat
    BY <1>6 DEF Screen
  <2> HIDE DEF counted
  <2>2. counted.edits # 0
    BY <2>1
  <2> QED BY <2>1, <2>2 DEF counted
<1>8. PICK to : Moves(t, to) /\ to.at = "review" /\ to.screen = counted
  <2> DEFINE to == [term[t] EXCEPT !.screen = counted]
  <2>1. to \in Terminal /\ to.at = "review" /\ to.screen = counted
    BY <1>1, <1>3 DEF Terminal
  <2>2. term' = [term EXCEPT ![t] = to]
    BY <1>2, <1>3, <1>7
  <2> QED BY <2>1, <2>2 DEF Moves
<1>9. Narrow(to) /\ Due(to.at, settings, installed, hosts)
  BY <1>7, <1>8, NothingDue DEF Narrow
<1>10. PolicyFollows'
  BY <1>1, <1>8, PolicyStays DEF homeVars, Between
<1> QED BY <1>1, <1>8, <1>9, <1>10, OnlyMoves

LEMMA ReplyKeeps ==
    ASSUME SetupInv, NEW t \in Term, Reply(t)
    PROVE  SetupInv'
<1>1. PICK ignored \in Replies, included \in Replies :
        term[t].at = "review" /\ SaveReview(t, Answered(term[t].screen, ignored, included))
  BY DEF Reply
<1>2. term[t].screen \in Screen
  BY DEF SetupInv, SetupTypeOK, Terminal
<1>3. Answered(term[t].screen, ignored, included) \in Screen
  BY <1>2, SetupAssumption DEF Answered, Screen
<1> QED BY <1>1, <1>3, SaveReviewKeeps

\* The steps of a terminal, in the order of the flow.
LEMMA OpeningKeeps ==
    ASSUME SetupInv, NEW t \in Term, OpenTerminal(t) \/ OnboardingCommand(t)
    PROVE  SetupInv'
<1>1. UNCHANGED <<homeVars, marker, settings, pi, installed, named, chose, shown, widened>>
  BY DEF OpenTerminal, OnboardingCommand
<1>2. \E force \in BOOLEAN : Run(t, force)
  BY DEF OpenTerminal, OnboardingCommand, isOnboarded
<1>3. PICK to : Moves(t, to) /\ to.at \in AtSteps \cup {"finish", "chat"}
  BY <1>2, RunMoves
<1>4. Narrow(to) /\ Due(to.at, settings, installed, hosts)
  BY <1>3, NothingDue DEF Narrow, AtSteps, Outside
<1>5. PolicyFollows'
  <2>1. CASE OpenTerminal(t)
    BY <1>1, <2>1, PolicyMade DEF OpenTerminal, homeVars
  <2>2. CASE OnboardingCommand(t)
    BY <1>1, <1>3, <2>2, PolicyStays DEF OnboardingCommand, homeVars, Between
  <2> QED BY <2>1, <2>2
<1> QED BY <1>1, <1>3, <1>4, <1>5, OnlyMoves

LEMMA PrivacyKeeps ==
    ASSUME SetupInv, NEW t \in Term, NEW answer \in Entry, Privacy(t, answer)
    PROVE  SetupInv'
<1>1. /\ UNCHANGED <<sources, hosts, marker, settings, policy, pi, installed, chose, shown, torn, widened>>
      /\ HomeTypeOK /\ SetupTypeOK
  BY DEF Privacy, SetupInv, SetupTypeOK
<1>2. answer \in Blocking
  BY SetupAssumption
<1>3. /\ blacklist' \in Blocking
      /\ blacklist'.paths = blacklist.paths \cup answer.paths
      /\ blacklist'.repos = blacklist.repos \cup answer.repos
      /\ named'.paths = named.paths \cup answer.paths
      /\ named'.repos = named.repos \cup answer.repos
  BY <1>1, <1>2 DEF Privacy, addBlacklistEntries, HomeTypeOK, Blocking
<1>4. PICK to : Moves(t, to) /\ to.at = "privacy-policy"
  BY <1>1, GotoMoves DEF Privacy, Within, Between
<1>5. Narrow(to) /\ Due(to.at, settings', installed', hosts')
  BY <1>4, NothingDue DEF Narrow
<1>6. term' \in [Term -> Terminal] /\ DueIsDone' /\ ReviewsAreNarrow'
  BY <1>1, <1>4, <1>5, MoveKeeps
<1>7. ConsentsAreSaved'
  BY <1>1, <1>3 DEF SetupInv, ConsentsAreSaved, Ready
<1>8. ApertureIsReviewed' /\ PolicyFollows'
  BY <1>1, <1>4, ApertureStays, PolicyUnderway DEF Between
<1>9. SetupTypeOK'
  BY <1>1, <1>3, <1>6 DEF SetupTypeOK, HomeTypeOK, Blocking
<1> QED BY <1>6, <1>7, <1>8, <1>9 DEF SetupInv

LEMMA PolicyStepsKeep ==
    ASSUME SetupInv, NEW t \in Term, PrivacyPolicy(t) \/ PermissionsPolicy(t)
    PROVE  SetupInv'
<1>1. /\ UNCHANGED <<homeVars, marker, settings, pi, installed, named, chose, shown, widened>>
      /\ SetupTypeOK
  BY DEF PrivacyPolicy, PermissionsPolicy, SetupInv
<1>2. PolicyFollows'
  BY <1>1, PolicyMade DEF PrivacyPolicy, PermissionsPolicy, homeVars
<1>3. PICK to : /\ Moves(t, to)
                /\ \/ to.at \in {"privacy-mark", "chat"}
                   \/ to.at = "permissions-mark" /\ term[t].at = "permissions-policy"
  <2>1. CASE PrivacyPolicy(t)
    BY <1>1, <2>1, GotoMoves DEF PrivacyPolicy, Within
  <2>2. CASE PermissionsPolicy(t) /\ term[t].at = "command-policy"
    BY <2>2, ChatMoves DEF PermissionsPolicy
  <2>3. CASE PermissionsPolicy(t) /\ term[t].at = "permissions-policy"
    BY <1>1, <2>3, GotoMoves DEF PermissionsPolicy, Within
  <2> QED BY <2>1, <2>2, <2>3 DEF PermissionsPolicy
<1>4. Due(to.at, settings, installed, hosts)
  <2>1. CASE to.at \in {"privacy-mark", "chat"}
    BY <2>1, NothingDue DEF Outside
  <2>2. CASE to.at = "permissions-mark" /\ term[t].at = "permissions-policy"
    BY <2>2 DEF SetupInv, DueIsDone, Due
  <2> QED BY <1>3, <2>1, <2>2
<1>5. Narrow(to)
  BY <1>3 DEF Narrow
<1> QED BY <1>1, <1>2, <1>3, <1>4, <1>5, OnlyMoves

LEMMA MarksKeep ==
    ASSUME SetupInv, NEW t \in Term,
           \/ Intro(t) \/ PrivacyMark(t) \/ PermissionsMark(t) \/ SourcesMark(t) \/ MarkSetting(t)
    PROVE  SetupInv'
<1>1. /\ UNCHANGED <<homeVars, settings, policy, pi, installed, named, chose, shown, torn, widened>>
      /\ Due(term[t].at, settings, installed, hosts)
  BY DEF Intro, PrivacyMark, PermissionsMark, SourcesMark, MarkSetting, SetupInv, DueIsDone
<1>2. PICK step \in AtSteps :
        /\ markOnboardingStep(step) /\ Done(t, step)
        /\ \/ term[t].at = "intro" /\ step = "intro"
           \/ term[t].at = "privacy-mark" /\ step = "privacy"
           \/ term[t].at = "permissions-mark" /\ step = "permissions"
           \/ term[t].at = "sources-mark" /\ step = "session-sources"
           \/ term[t].at = "always-on-mark" /\ step = "always-on"
           \/ term[t].at = "active-window-mark" /\ step = "active-window"
           \/ term[t].at = "skills-mark" /\ step = "skills"
  <2>1. CASE Intro(t) \/ PrivacyMark(t)
    BY <2>1 DEF Intro, PrivacyMark, AtSteps
  <2>2. CASE PermissionsMark(t) \/ SourcesMark(t)
    BY <2>2 DEF PermissionsMark, SourcesMark, AtSteps
  <2>3. CASE MarkSetting(t)
    <3>1. CASE term[t].at = "always-on-mark"
      BY <2>3, <3>1 DEF MarkSetting, StepMarked, AtSteps
    <3>2. CASE term[t].at = "active-window-mark"
      BY <2>3, <3>2 DEF MarkSetting, StepMarked, AtSteps
    <3>3. CASE term[t].at = "skills-mark"
      BY <2>3, <3>3 DEF MarkSetting, StepMarked, AtSteps
    <3> QED BY <2>3, <3>1, <3>2, <3>3 DEF MarkSetting
  <2> QED BY <2>1, <2>2, <2>3
<1>3. step # "auth" /\ term[t].at \notin Between
  BY <1>2 DEF Between
<1>4. step = "session-sources" => HostRoots \subseteq hosts
  BY <1>1, <1>2 DEF Due
<1>5. \A k \in Key : StepOf[k] = step => settings[k] # "unset"
  BY <1>1, <1>2, TheKeys DEF Due
<1> QED BY <1>1, <1>2, <1>3, <1>4, <1>5, OnlyMarks

LEMMA AuthKeeps ==
    ASSUME SetupInv, NEW t \in Term, AuthCheck(t)
    PROVE  SetupInv'
<1>1. /\ term[t].at \in {"auth", "auth-check"}
      /\ UNCHANGED <<homeVars, settings, policy, pi, installed, named, chose, shown, torn, widened>>
  BY DEF AuthCheck
<1>2. CASE Ready(pi)
  <2>1. markOnboardingStep("auth") /\ Done(t, "auth")
    BY <1>2 DEF AuthCheck
  <2>2. \A k \in Key : StepOf[k] # "auth"
    BY TheKeys
  <2> QED BY <1>1, <1>2, <2>1, <2>2, OnlyMarks DEF AtSteps, Between
<1>3. CASE ~Ready(pi)
  <2>1. PICK to : Moves(t, to) /\ to.at = "chat"
    BY <1>3, ChatMoves DEF AuthCheck
  <2>2. Narrow(to) /\ Due(to.at, settings, installed, hosts)
    BY <2>1, NothingDue DEF Narrow, Outside
  <2>3. PolicyFollows'
    BY <1>1, <2>1, PolicyStays DEF homeVars, Between
  <2>4. UNCHANGED marker
    BY <1>3 DEF AuthCheck
  <2> QED BY <1>1, <2>1, <2>2, <2>3, <2>4, OnlyMoves
<1> QED BY <1>2, <1>3

\* Signing in adds to what the agent directory holds.
LEMMA SigningInKeeps ==
    ASSUME SetupInv, NEW t \in Term, Login(t) \/ \E imported \in BOOLEAN : Import(t, imported)
    PROVE  SetupInv'
<1>1. /\ UNCHANGED <<homeVars, marker, settings, policy, installed, named, chose, shown, torn, widened>>
      /\ SetupTypeOK
  BY DEF Login, Import, SetupInv
<1>2. UNCHANGED <<blacklist, sources, hosts>> /\ HomeTypeOK
  BY <1>1 DEF homeVars, SetupTypeOK
<1>3. pi' \in [auth : BOOLEAN, model : BOOLEAN] /\ (Ready(pi) => Ready(pi'))
  <2>1. pi \in [auth : BOOLEAN, model : BOOLEAN]
    BY <1>1 DEF SetupTypeOK
  <2>2. CASE Login(t)
    BY <2>1, <2>2 DEF Login, Ready
  <2>3. CASE \E imported \in BOOLEAN : Import(t, imported)
    BY <2>1, <2>3 DEF Import, Ready
  <2> QED BY <2>2, <2>3
<1>4. ConsentsAreSaved' /\ ApertureIsReviewed'
  BY <1>1, <1>2, <1>3, ConsentsStay, ApertureStays
<1>5. PICK to : /\ Moves(t, to) /\ Narrow(to) /\ Due(to.at, settings, installed, hosts)
                /\ term[t].at \notin Between
  <2>1. CASE Login(t)
    <3>1. term[t] \in Terminal /\ term[t].at = "chat" /\ term \in [Term -> Terminal] /\ term' = term
      BY <1>1, <2>1 DEF Login, SetupTypeOK
    <3>2. Moves(t, term[t])
      BY <3>1 DEF Moves
    <3> QED BY <3>1, <3>2, NothingDue DEF Narrow, Outside, Between
  <2>2. CASE \E imported \in BOOLEAN : Import(t, imported)
    <3>1. term[t].at = "auth" /\ (Goto(t, "auth-imported") \/ Goto(t, "auth-declined"))
      BY <2>2 DEF Import
    <3>2. PICK to : Moves(t, to) /\ to.at \in {"auth-imported", "auth-declined"}
      BY <1>1, <3>1, GotoMoves DEF Within
    <3> QED BY <3>1, <3>2, NothingDue DEF Narrow, Between
  <2> QED BY <2>1, <2>2
<1>6. term' \in [Term -> Terminal] /\ DueIsDone' /\ ReviewsAreNarrow'
  BY <1>1, <1>2, <1>5, MoveKeeps
<1>7. PolicyFollows'
  BY <1>1, <1>2, <1>5, PolicyStays
<1>8. SetupTypeOK'
  BY <1>1, <1>2, <1>3, <1>6 DEF SetupTypeOK, HomeTypeOK
<1> QED BY <1>4, <1>6, <1>7, <1>8 DEF SetupInv

LEMMA RecordImportKeeps ==
    ASSUME SetupInv, NEW t \in Term, RecordImport(t)
    PROVE  SetupInv'
<1>1. /\ UNCHANGED <<homeVars, settings, policy, pi, installed, named, chose, shown, torn, widened>>
      /\ SetupTypeOK /\ term[t].at \notin Between
  BY DEF RecordImport, SetupInv, Between
<1>2. UNCHANGED <<blacklist, sources, hosts>> /\ HomeTypeOK /\ marker \in Marker
  BY <1>1 DEF homeVars, SetupTypeOK
<1>3. /\ marker' \in Marker /\ marker'.completed = marker.completed
      /\ marker'.authCurrent = marker.authCurrent /\ marker'.catalogCurrent = marker.catalogCurrent
  BY <1>2 DEF RecordImport, Marker
<1>4. ConsentsAreSaved' /\ ApertureIsReviewed'
  <2>1. ConsentsAreSaved
    BY DEF SetupInv
  <2> QED BY <1>1, <1>2, <1>3, <2>1, ApertureStays DEF ConsentsAreSaved, Ready
<1>5. PICK to : Moves(t, to) /\ to.at = "auth-check"
  BY <1>1, GotoMoves DEF RecordImport, Within
<1>6. term' \in [Term -> Terminal] /\ DueIsDone' /\ ReviewsAreNarrow'
  <2>1. Narrow(to) /\ Due(to.at, settings', installed', hosts')
    BY <1>5, NothingDue DEF Narrow
  <2> QED BY <1>1, <1>2, <1>5, <2>1, MoveKeeps
<1>7. PolicyFollows'
  BY <1>1, <1>2, <1>5, PolicyStays
<1>8. SetupTypeOK'
  BY <1>1, <1>2, <1>3, <1>6 DEF SetupTypeOK, HomeTypeOK
<1> QED BY <1>4, <1>6, <1>7, <1>8 DEF SetupInv

\* Values are saved before the step that asked for them is marked.
LEMMA PermissionsKeep ==
    ASSUME SetupInv, NEW t \in Term, NEW mode \in Modes, Permissions(t, mode)
    PROVE  SetupInv'
<1>1. /\ UNCHANGED <<homeVars, marker, policy, pi, installed, named, shown, torn, widened>>
      /\ SetupTypeOK
  BY DEF Permissions, SetupInv
<1>2. UNCHANGED <<blacklist, sources, hosts>> /\ HomeTypeOK
  BY <1>1 DEF homeVars, SetupTypeOK
<1>3. mode \in Value \ {"unset"} /\ "mode" \in Key /\ "mode" # "alwaysOn"
  BY TheKeys DEF Value, Modes
<1>4. /\ settings' \in [Key -> Value] /\ ConsentsAreSaved' /\ settings'["mode"] # "unset"
      /\ \A k \in Key : settings[k] # "unset" => settings'[k] # "unset"
  BY <1>1, <1>3, SaveKeeps DEF Permissions
<1>5. PICK to : Moves(t, to) /\ to.at \in {"command-policy", "permissions-policy"}
  <2>1. Goto(t, "command-policy") \/ Goto(t, "permissions-policy")
    BY DEF Permissions
  <2> QED BY <1>1, <2>1, GotoMoves DEF Within, Between
<1>6. Narrow(to) /\ Due(to.at, settings', installed', hosts')
  BY <1>4, <1>5 DEF Narrow, Due
<1>7. term' \in [Term -> Terminal] /\ DueIsDone' /\ ReviewsAreNarrow'
  BY <1>1, <1>2, <1>4, <1>5, <1>6, MoveKeeps
<1>8. ApertureIsReviewed' /\ PolicyFollows'
  BY <1>1, <1>2, <1>5, ApertureStays, PolicyUnderway DEF Between
<1>9. SetupTypeOK'
  BY <1>1, <1>2, <1>4, <1>7 DEF SetupTypeOK, HomeTypeOK
<1> QED BY <1>4, <1>7, <1>8, <1>9 DEF SetupInv

LEMMA SettingKeeps ==
    ASSUME SetupInv, NEW t \in Term, SaveSetting(t)
    PROVE  SetupInv'
<1>1. /\ UNCHANGED <<homeVars, marker, policy, pi, installed, named, shown, torn, widened>>
      /\ SetupTypeOK /\ term[t].at \in Asks /\ term[t].at \notin Between
  BY DEF SaveSetting, SetupInv, Asks, Between
<1>2. UNCHANGED <<blacklist, sources, hosts>> /\ HomeTypeOK
  BY <1>1 DEF homeVars, SetupTypeOK
<1>3. PICK key \in Key, value \in Value \ {"unset"}, mark \in Within :
        /\ saveHarnessSettings(key, value) /\ Goto(t, mark)
        /\ key # "mode" /\ (value = "installed" => term[t].at = "always-on-installed")
        /\ \/ key = "alwaysOn" /\ mark = "always-on-mark"
           \/ key = "window" /\ mark = "active-window-mark"
           \/ key = "skills" /\ mark = "skills-mark"
  <2>1. CASE term[t].at = "always-on"
    BY <2>1, TheKeys DEF SaveSetting, ValueFor, Value, Within
  <2>2. CASE term[t].at = "always-on-installed"
    BY <2>2, TheKeys DEF SaveSetting, ValueFor, Value, Within
  <2>3. CASE term[t].at = "active-window"
    BY <2>3, TheKeys DEF SaveSetting, ValueFor, Value, Within
  <2>4. CASE term[t].at = "skills"
    BY <2>4, TheKeys DEF SaveSetting, ValueFor, Value, Within
  <2> QED BY <1>1, <2>1, <2>2, <2>3, <2>4 DEF Asks
<1>4. value = "installed" => installed
  BY <1>3 DEF SetupInv, DueIsDone, Due
<1>5. /\ settings' \in [Key -> Value] /\ ConsentsAreSaved' /\ settings'[key] # "unset"
      /\ \A k \in Key : settings[k] # "unset" => settings'[k] # "unset"
      /\ \A k \in Key \ {key} : settings'[k] = settings[k]
  BY <1>1, <1>3, <1>4, SaveKeeps
<1>6. PICK to : Moves(t, to) /\ to.at = mark
  BY <1>1, <1>3, GotoMoves
<1>7. Narrow(to) /\ Due(to.at, settings', installed', hosts')
  BY <1>3, <1>5, <1>6 DEF Narrow, Due
<1>8. term' \in [Term -> Terminal] /\ DueIsDone' /\ ReviewsAreNarrow'
  BY <1>1, <1>2, <1>5, <1>6, <1>7, MoveKeeps
<1>9. settings'["mode"] = settings["mode"]
  BY <1>3, <1>5, TheKeys
<1>10. ApertureIsReviewed' /\ PolicyFollows'
  BY <1>1, <1>2, <1>6, <1>9, ApertureStays, PolicyStays
<1>11. SetupTypeOK'
  BY <1>1, <1>2, <1>5, <1>8 DEF SetupTypeOK, HomeTypeOK
<1> QED BY <1>5, <1>8, <1>10, <1>11 DEF SetupInv

\* What is installed, and the folders attributed, only grow.
LEMMA InstallKeeps ==
    ASSUME SetupInv, NEW t \in Term, NEW succeeds \in BOOLEAN, Install(t, succeeds)
    PROVE  SetupInv'
<1>1. /\ UNCHANGED <<homeVars, marker, settings, policy, pi, named, chose, shown, torn, widened>>
      /\ SetupTypeOK /\ term[t].at \notin Between
  BY DEF Install, SetupInv, Between
<1>2. UNCHANGED <<blacklist, sources, hosts>> /\ HomeTypeOK
  BY <1>1 DEF homeVars, SetupTypeOK
<1>3. installed' \in BOOLEAN /\ (installed => installed') /\ (succeeds => installed')
  BY <1>1 DEF Install, SetupTypeOK
<1>4. PICK to : Moves(t, to) /\ (to.at = "chat" \/ (to.at = "always-on-installed" /\ succeeds))
  <2>1. CASE succeeds
    BY <1>1, <2>1, GotoMoves DEF Install, Within
  <2>2. CASE ~succeeds
    BY <2>2, ChatMoves DEF Install
  <2> QED BY <2>1, <2>2
<1>5. Narrow(to) /\ Due(to.at, settings', installed', hosts')
  BY <1>3, <1>4 DEF Narrow, Due
<1>6. term' \in [Term -> Terminal] /\ DueIsDone' /\ ReviewsAreNarrow'
  BY <1>1, <1>2, <1>3, <1>4, <1>5, MoveKeeps
<1>7. ConsentsAreSaved' /\ ApertureIsReviewed' /\ PolicyFollows'
  BY <1>1, <1>2, <1>3, <1>4, ConsentsStay, ApertureStays, PolicyStays
<1>8. SetupTypeOK'
  BY <1>1, <1>2, <1>3, <1>6 DEF SetupTypeOK, HomeTypeOK
<1> QED BY <1>6, <1>7, <1>8 DEF SetupInv

LEMMA HostsKeep ==
    ASSUME SetupInv, NEW t \in Term, saveSessionHostRoots(t)
    PROVE  SetupInv'
<1>1. /\ UNCHANGED <<blacklist, sources, marker, settings, policy, pi, installed, named, chose, shown, torn, widened>>
      /\ SetupTypeOK /\ HomeTypeOK /\ term[t].at \notin Between
  BY DEF saveSessionHostRoots, SetupInv, SetupTypeOK, Between
<1>2. hosts' = hosts \cup HostRoots /\ hosts' \in SUBSET Dir
  BY <1>1, SetupAssumption DEF saveSessionHostRoots, HomeTypeOK
<1>3. PICK to : Moves(t, to) /\ to.at = "sources-mark"
  BY <1>1, GotoMoves DEF saveSessionHostRoots, Within
<1>4. Narrow(to) /\ Due(to.at, settings', installed', hosts')
  BY <1>2, <1>3 DEF Narrow, Due
<1>5. term' \in [Term -> Terminal] /\ DueIsDone' /\ ReviewsAreNarrow'
  BY <1>1, <1>2, <1>3, <1>4, MoveKeeps
<1>6. ConsentsAreSaved' /\ ApertureIsReviewed' /\ PolicyFollows'
  BY <1>1, <1>2, <1>3, ConsentsStay, ApertureStays, PolicyStays
<1>7. SetupTypeOK'
  BY <1>1, <1>2, <1>5 DEF SetupTypeOK, HomeTypeOK
<1> QED BY <1>5, <1>6, <1>7 DEF SetupInv

\* The ways out: the end of the flow, a cancelled prompt, a terminal that closes.
LEMMA FinishKeeps ==
    ASSUME SetupInv, NEW t \in Term, Finish(t)
    PROVE  SetupInv'
<1>1. /\ UNCHANGED <<homeVars, settings, policy, pi, installed, named, chose, shown, torn, widened>>
      /\ SetupTypeOK /\ term[t].at \notin Between
  BY DEF Finish, SetupInv, Between
<1>2. UNCHANGED <<blacklist, sources, hosts>> /\ HomeTypeOK /\ marker \in Marker /\ ConsentsAreSaved
  BY <1>1 DEF homeVars, SetupTypeOK, SetupInv
<1>3. /\ marker' \in Marker /\ marker'.completed = marker.completed
      /\ marker'.authCurrent = marker.authCurrent /\ marker'.catalogCurrent = marker.catalogCurrent
  <2>1. CASE pendingOnboardingSteps = {}
    <3>1. markOnboarded
      BY <2>1 DEF Finish
    <3>2. /\ marker' \in Marker /\ marker'.completed = StepSet
          /\ marker'.authCurrent = TRUE /\ marker'.catalogCurrent = TRUE
      BY <1>2, <3>1 DEF markOnboarded, Marker
    <3>3. "auth" \in StepSet /\ "session-sources" \in StepSet
      BY TheSteps DEF AtSteps
    <3>4. marker.completed = StepSet /\ marker.authCurrent = TRUE /\ marker.catalogCurrent = TRUE
      BY <1>2, <2>1, <3>3 DEF pendingOnboardingSteps, Marker
    <3> QED BY <3>2, <3>4
  <2>2. CASE pendingOnboardingSteps # {}
    BY <1>2, <2>2 DEF Finish
  <2> QED BY <2>1, <2>2
<1>4. ConsentsAreSaved' /\ ApertureIsReviewed'
  BY <1>1, <1>2, <1>3, ApertureStays DEF ConsentsAreSaved, Ready
<1>5. PICK to : Moves(t, to) /\ to.at = "chat"
  BY ChatMoves DEF Finish
<1>6. term' \in [Term -> Terminal] /\ DueIsDone' /\ ReviewsAreNarrow'
  <2>1. Narrow(to) /\ Due(to.at, settings', installed', hosts')
    BY <1>5, NothingDue DEF Narrow, Outside
  <2> QED BY <1>1, <1>2, <1>5, <2>1, MoveKeeps
<1>7. PolicyFollows'
  BY <1>1, <1>2, <1>5, PolicyStays
<1>8. SetupTypeOK'
  BY <1>1, <1>2, <1>3, <1>6 DEF SetupTypeOK, HomeTypeOK
<1> QED BY <1>4, <1>6, <1>7, <1>8 DEF SetupInv

LEMMA LeavingKeeps ==
    ASSUME SetupInv, NEW t \in Term, Cancel(t) \/ CloseTerminal(t)
    PROVE  SetupInv'
<1>1. UNCHANGED <<homeVars, marker, settings, policy, pi, installed, named, chose, shown, widened>>
  BY DEF Cancel, CloseTerminal
<1>2. PICK to : Moves(t, to) /\ to.at \in {"chat", "closed"}
  <2>1. CASE Cancel(t)
    BY <2>1, ChatMoves DEF Cancel
  <2>2. CASE CloseTerminal(t)
    <3>1. Closed.at = "closed"
      BY DEF Closed
    <3> QED BY <2>2, <3>1, ClosedIsATerminal DEF CloseTerminal, Moves
  <2> QED BY <2>1, <2>2
<1>3. Narrow(to) /\ Due(to.at, settings, installed, hosts)
  BY <1>2, NothingDue DEF Narrow, Outside
<1>4. PolicyFollows'
  <2>1. CASE term[t].at \notin Between
    <3>1. UNCHANGED policy
      BY DEF Cancel, CloseTerminal
    <3>2. CASE Cancel(t)
      BY <1>1, <1>2, <2>1, <3>1, <3>2, PolicyStays DEF Cancel, homeVars
    <3>3. CASE CloseTerminal(t)
      <4>1. torn => torn'
        BY <3>3 DEF CloseTerminal
      <4> QED BY <1>1, <1>2, <2>1, <3>1, <4>1, PolicyStays DEF homeVars
    <3> QED BY <3>2, <3>3
  <2>2. CASE term[t].at \in Between
    BY <2>2 DEF Cancel, CloseTerminal, Prompts, Between, PolicyFollows
  <2> QED BY <2>1, <2>2
<1> QED BY <1>1, <1>2, <1>3, <1>4, OnlyMoves

LEMMA SetupInvStep == SetupInv /\ [SetupNext]_<<homeVars, setupVars>> => SetupInv'
<1> SUFFICES ASSUME SetupInv, [SetupNext]_<<homeVars, setupVars>> PROVE SetupInv'
  OBVIOUS
<1>1. CASE UNCHANGED <<homeVars, setupVars>>
  BY <1>1 DEF homeVars, setupVars, SetupInv, SetupTypeOK, HomeTypeOK, DueIsDone, ReviewsAreNarrow,
              Narrow, Authorized, ConsentsAreSaved, Ready, ApertureIsReviewed, loadTranscriptStores,
              PolicyFollows, permissionPolicy, loadPermissionMode
<1>2. ASSUME NEW t \in Term, SetupStep(t) PROVE SetupInv'
  <2>1. CASE OpenTerminal(t) \/ OnboardingCommand(t)
    BY <2>1, OpeningKeeps
  <2>2. CASE Intro(t) \/ PrivacyMark(t) \/ PermissionsMark(t) \/ SourcesMark(t) \/ MarkSetting(t)
    BY <2>2, MarksKeep
  <2>3. CASE \E answer \in Entry : Privacy(t, answer)
    BY <2>3, PrivacyKeeps
  <2>4. CASE PrivacyPolicy(t) \/ PermissionsPolicy(t)
    BY <2>4, PolicyStepsKeep
  <2>5. CASE Login(t) \/ \E imported \in BOOLEAN : Import(t, imported)
    BY <2>5, SigningInKeeps
  <2>6. CASE RecordImport(t)
    BY <2>6, RecordImportKeeps
  <2>7. CASE AuthCheck(t)
    BY <2>7, AuthKeeps
  <2>8. CASE \E mode \in Modes : Permissions(t, mode)
    BY <2>8, PermissionsKeep
  <2>9. CASE buildSessionCatalogReview(t)
    <3>1. PICK to : Moves(t, to) /\ to.at = "review" /\ Narrow(to)
      BY <2>9, ReviewOpensNarrow
    <3>2. Due(to.at, settings, installed, hosts)
      BY <3>1, NothingDue
    <3>3. PolicyFollows'
      BY <2>9, <3>1, PolicyStays DEF buildSessionCatalogReview, homeVars, Between
    <3> QED BY <2>9, <3>1, <3>2, <3>3, OnlyMoves DEF buildSessionCatalogReview
  <2>10. CASE Press(t)
    BY <2>10, PressKeeps
  <2>11. CASE ConfirmReview(t)
    <3>1. term[t].screen \in Screen
      BY DEF SetupInv, SetupTypeOK, Terminal
    <3> QED BY <2>11, <3>1, SaveReviewKeeps DEF ConfirmReview
  <2>12. CASE Reply(t)
    BY <2>12, ReplyKeeps
  <2>13. CASE saveSessionHostRoots(t)
    BY <2>13, HostsKeep
  <2>14. CASE \E succeeds \in BOOLEAN : Install(t, succeeds)
    BY <2>14, InstallKeeps
  <2>15. CASE SaveSetting(t)
    BY <2>15, SettingKeeps
  <2>16. CASE Finish(t)
    BY <2>16, FinishKeeps
  <2>17. CASE Cancel(t) \/ CloseTerminal(t)
    BY <2>17, LeavingKeeps
  <2> QED BY <1>2, <2>1, <2>2, <2>3, <2>4, <2>5, <2>6, <2>7, <2>8, <2>9, <2>10, <2>11,
             <2>12, <2>13, <2>14, <2>15, <2>16, <2>17 DEF SetupStep
<1> QED BY <1>1, <1>2 DEF SetupNext

\* The file tools keep out of whatever the blacklist says, by the real path of both sides.
LEMMA GuardKeepsOut == HomeTypeOK => ToolsKeepOut
<1> SUFFICES ASSUME HomeTypeOK, NEW d \in Dir, NEW mayTraverse \in BOOLEAN,
                    ~guardOwnerOperatorToolCall(blacklist, mayTraverse, d)
             PROVE  /\ RepoOf[Real[d]] \notin blacklist.repos
                    /\ \A p \in blacklist.paths :
                         /\ ~Inside(Real[d], Real[p])
                         /\ mayTraverse => ~Inside(Real[p], Real[d])
  BY DEF ToolsKeepOut
<1>1. /\ toolBlacklist(blacklist).repos = blacklist.repos
      /\ toolBlacklist(blacklist).paths = UNION {pathIdentities(p) : p \in blacklist.paths}
  BY DEF toolBlacklist, HomeTypeOK
<1>2. Real[d] \in pathIdentities(d)
  BY DEF pathIdentities
<1>3. ~isBlacklisted(toolBlacklist(blacklist), Real[d], RepoOf[Real[d]])
  BY <1>2 DEF guardOwnerOperatorToolCall, blacklistedPathVerdict
<1>4. RepoOf[Real[d]] \notin blacklist.repos
  BY <1>1, <1>3 DEF isBlacklisted
<1>5. ASSUME NEW p \in blacklist.paths
      PROVE  ~Inside(Real[d], Real[p]) /\ (mayTraverse => ~Inside(Real[p], Real[d]))
  <2>1. Real[p] \in toolBlacklist(blacklist).paths
    BY <1>1 DEF pathIdentities
  <2>2. ~Inside(Real[d], Real[p])
    BY <1>3, <2>1 DEF isBlacklisted
  <2>3. mayTraverse => ~Inside(Real[p], Real[d])
    BY <1>2, <2>1 DEF guardOwnerOperatorToolCall, blacklistedDescendantVerdict
  <2> QED BY <2>2, <2>3
<1> QED BY <1>4, <1>5

\* What setup promises holds at every moment, for any number of terminals, whatever is
\* answered, cancelled or saved by another, and wherever a process dies: a step marked
\* done was done, the stores read are those of the last saved review, the generated
\* policy follows the blacklist and the mode unless a process is or died between the
\* two writes, and the file tools keep out (runOnboarding, onboarding.ts:97-274).
THEOREM SetupStaysTrue == SetupSpec => []SetupHolds
<1>1. SetupInv => SetupHolds
  BY GuardKeepsOut DEF SetupInv, SetupTypeOK, SetupHolds
<1>2. SetupInv /\ [SetupNext]_<<homeVars, setupVars>> => SetupInv'
  BY SetupInvStep
<1> QED BY SetupInvInit, <1>1, <1>2, PTL DEF SetupSpec

-----------------------------------------------------------------------------
(* The links to the skill.                                                 *)

Place == Checkout \cup {Agents, "elsewhere"}
EntryKind == {No, Copy, Other} \cup {Link(to, by) : to \in Place, by \in {"owner", "oo"}}
OnFile == [Folder -> Place \cup {Unrecorded}]
Turn == [at : Folder, as : {"skipped", "already-linked", "linked", "failed", "removed"}]
CommandType ==
    [at : {"done", "look", "record", "link", "unrecord", "uninstall"},
     verb : {"none", "install", "uninstall", "stopped"}, from : Checkout \cup {"nowhere"},
     todo : Seq(Folder), owned : OnFile, report : SUBSET Turn]

SkillTypeOK ==
    /\ folder \in [Folder -> {"none", "open", "locked", "file"}]
    /\ entry \in [Folder -> EntryKind]
    /\ manifest \in OnFile
    /\ backups \in Int /\ copies \in Int
    /\ checkouts \subseteq Checkout
    /\ command \in CommandType

\* A link that can be followed, and a folder from which an agent arrives.
Points(f, to) == folder[f] = "open" /\ entry[f].is = "link" /\ entry[f].to = to
Arrives(f) == Points(f, Target(f, command.from)) /\ Points(Agents, command.from)

VerbFits ==
    /\ command.at \in {"look", "record", "link", "unrecord"} => command.verb = "install"
    /\ command.at = "uninstall" => command.verb = "uninstall"
    /\ command.verb = "install" => command.from \in checkouts
UnmadeAreEmpty == \A f \in Folder : folder[f] = "none" => entry[f] = No
\* Whose turn it is has its record, and nothing in the way where the link will be.
TurnHolds ==
    /\ command.at \in {"record", "link", "unrecord"} => command.todo # <<>>
    /\ command.at \in {"record", "link"} =>
         /\ command.owned[Visited] = Target(Visited, command.from)
         /\ folder[Visited] \in {"none", "open"} => entry[Visited] = No
         /\ Visited # Agents => Points(Agents, command.from)
    /\ command.at = "link" => manifest = command.owned
\* A command owns no link it can see that is not on record.
NothingElseIsOwned ==
    command.at # "done" =>
      \A f \in Folder : folder[f] = "open" /\ entry[f].is = "link" /\ entry[f].to # manifest[f] =>
                          command.owned[f] # entry[f].to
ArrivalsHold ==
    command.verb = "install" =>
      \A r \in command.report : r.as \in {"linked", "already-linked"} => Arrives(r.at)

SkillInv == /\ SkillTypeOK /\ VerbFits /\ UnmadeAreEmpty /\ TurnHolds /\ NothingElseIsOwned
            /\ ArrivalsHold /\ CopiesAreKept

\* No name of a place is a word for the lack of one.
LEMMA NamesDiffer ==
    /\ Unrecorded \notin Place /\ "nowhere" \notin Place /\ Agents \notin Checkout
    /\ "elsewhere" \notin Checkout /\ "itself" \notin Checkout /\ Agents # "elsewhere"
    /\ "nowhere" \notin Checkout
BY SkillAssumption DEF Place, Unrecorded

LEMMA KindsDiffer ==
    /\ No.is = "none" /\ Copy.is = "copy" /\ Other.is = "other"
    /\ No \in EntryKind /\ Copy \in EntryKind /\ Other \in EntryKind
    /\ \A e \in EntryKind : /\ e.is = "link" => e # No /\ e # Copy /\ e.to \in Place
                            /\ e.is = "none" => e = No
                            /\ e.by = "owner" => e # No
    /\ \A to \in Place, by \in {"owner", "oo"} :
         Link(to, by) \in EntryKind /\ Link(to, by).is = "link" /\ Link(to, by).to = to
         /\ Link(to, by).by = by
<1>1. /\ No.is = "none" /\ Copy.is = "copy" /\ Other.is = "other"
      /\ No \in EntryKind /\ Copy \in EntryKind /\ Other \in EntryKind
      /\ No.by = "nobody"
  BY DEF No, Copy, Other, EntryKind
<1>2. \A to, by : Link(to, by).is = "link" /\ Link(to, by).to = to /\ Link(to, by).by = by
  BY DEF Link
<1>3. \A to \in Place, by \in {"owner", "oo"} : Link(to, by) \in EntryKind
  BY DEF EntryKind
<1>4. ASSUME NEW e \in EntryKind
      PROVE  /\ e.is = "link" => e # No /\ e # Copy /\ e.to \in Place
             /\ e.is = "none" => e = No
             /\ e.by = "owner" => e # No
  <2>1. CASE e \in {No, Copy, Other}
    BY <1>1, <2>1
  <2>2. CASE \E to \in Place, by \in {"owner", "oo"} : e = Link(to, by)
    BY <1>1, <1>2, <2>2
  <2> QED BY <2>1, <2>2 DEF EntryKind
<1> QED BY <1>1, <1>2, <1>3, <1>4

\* How many copies there are, when one folder's entry changes.
Copied(entries) == {f \in Folder : entries[f] = Copy}
LEMMA OneEntryChanges ==
    ASSUME NEW before \in [Folder -> EntryKind], NEW f \in Folder, NEW e \in EntryKind,
           NEW after \in [Folder -> EntryKind], after = [before EXCEPT ![f] = e]
    PROVE  Cardinality(Copied(after)) = Cardinality(Copied(before))
               + (IF e = Copy THEN 1 ELSE 0) - (IF before[f] = Copy THEN 1 ELSE 0)
<1> DEFINE Was == Copied(before)
           Is == Copied(after)
<1>1. IsFiniteSet(Was) /\ IsFiniteSet(Is) /\ Cardinality(Was) \in Int /\ Cardinality(Is) \in Int
  BY SkillAssumption, FS_Subset, FS_CardinalityType DEF Copied
<1>2. CASE e = Copy
  <2>1. Is = Was \cup {f}
    BY <1>2 DEF Copied
  <2>2. f \in Was <=> before[f] = Copy
    BY DEF Copied
  <2> HIDE DEF Was, Is
  <2>3. Cardinality(Is) = IF f \in Was THEN Cardinality(Was) ELSE Cardinality(Was) + 1
    BY <1>1, <2>1, FS_AddElement
  <2> QED BY <1>1, <1>2, <2>2, <2>3 DEF Was, Is
<1>3. CASE e # Copy
  <2>1. Is = Was \ {f}
    BY <1>3 DEF Copied
  <2>2. f \in Was <=> before[f] = Copy
    BY DEF Copied
  <2> HIDE DEF Was, Is
  <2>3. Cardinality(Is) = IF f \in Was THEN Cardinality(Was) - 1 ELSE Cardinality(Was)
    BY <1>1, <2>1, FS_RemoveElement
  <2> QED BY <1>1, <1>3, <2>2, <2>3 DEF Was, Is
<1> QED BY <1>2, <1>3

\* Every set of folders is listed.
LEMMA Listed ==
    ASSUME NEW S \in SUBSET Folder
    PROVE  SetToSeq(S) \in Seq(Folder)
<1>1. IsFiniteSet(S)
  BY SkillAssumption, FS_Subset
<1>2. Cardinality(S) \in Nat /\ ExistsBijection(1..Cardinality(S), S)
  BY <1>1, FS_CardinalityType
<1>3. \E f \in [1..Cardinality(S) -> S] : IsInjective(f)
  BY <1>2 DEF ExistsBijection, Bijection, Injection, Surjection, IsInjective
<1>4. SetToSeq(S) \in [1..Cardinality(S) -> S]
  BY <1>3 DEF SetToSeq
<1>5. SetToSeq(S) \in [1..Cardinality(S) -> Folder]
  BY <1>4
<1> QED BY <1>2, <1>5

LEMMA WhereToGo ==
    ASSUME NEW from \in Checkout, NEW environment \in Environments
    PROVE  locations(from, environment) \in Seq(Folder)
<1>1. environment \in Seq(Folder) /\ Len(environment) \in Nat
  BY SkillAssumption
<1>2. \A i \in 2..Len(environment) + 1 : environment[i - 1] \in Folder
  BY <1>1
<1>3. locations(from, environment) \in [1..Len(environment) + 1 -> Folder]
  BY <1>1, <1>2, SkillAssumption DEF locations
<1> QED BY <1>1, <1>3

\* What the commands conclude from what they see.
LEMMA ArrivingResolves ==
    ASSUME SkillTypeOK, NEW f \in Folder, NEW from \in checkouts,
           Points(f, Target(f, from)), Points(Agents, from)
    PROVE  Resolved(f) = from
<1>1. from # Agents /\ Agents \in Folder
  BY NamesDiffer, SkillAssumption DEF SkillTypeOK
<1>2. CASE f = Agents
  BY <1>1, <1>2 DEF Points, Target, Resolved, Seen
<1>3. CASE f # Agents
  BY <1>1, <1>3 DEF Points, Target, Resolved, Seen
<1> QED BY <1>2, <1>3

LEMMA AgentsResolve ==
    ASSUME SkillTypeOK, NEW from \in checkouts, Resolved(Agents) = from
    PROVE  Points(Agents, from)
<1>1. /\ from # "itself" /\ from # "nowhere" /\ from # "elsewhere" /\ from # Agents
      /\ Agents \in Folder /\ entry[Agents] \in EntryKind
  BY NamesDiffer, SkillAssumption DEF SkillTypeOK
<1>2. folder[Agents] = "open"
  BY <1>1, KindsDiffer DEF Resolved, Seen
<1>3. Seen(Agents) = entry[Agents]
  BY <1>2 DEF Seen
<1> QED BY <1>1, <1>2, <1>3, KindsDiffer DEF Resolved, Points

LEMMA StatusSays ==
    ASSUME SkillTypeOK, NEW f \in Folder, NEW from
    PROVE  /\ statusOf(f, from) = "linked" => Points(f, Target(f, from))
           /\ Points(f, Target(f, from)) /\ Resolved(f) # "nowhere" => statusOf(f, from) = "linked"
           /\ statusOf(f, from) = "absent" => Seen(f) = No /\ (folder[f] # "open" \/ entry[f] = No)
           /\ statusOf(f, from) \in {"dangling", "other-link"} => folder[f] = "open" /\ entry[f].is = "link"
           /\ Seen(f) # No => folder[f] = "open" /\ Seen(f) = entry[f]
<1>1. entry[f] \in EntryKind
  BY DEF SkillTypeOK
<1>2. CASE folder[f] = "open"
  BY <1>1, <1>2, KindsDiffer DEF statusOf, Seen, Points
<1>3. CASE folder[f] # "open"
  BY <1>1, <1>3, KindsDiffer DEF statusOf, Seen, Points
<1> QED BY <1>2, <1>3

\* What the end of a folder's turn leaves of the command.
LEMMA ReportGives ==
    ASSUME SkillTypeOK, command.todo # <<>>,
           NEW as \in {"skipped", "already-linked", "linked", "failed", "removed"}, Reports(as)
    PROVE  /\ Visited \in Folder /\ command' \in CommandType
           /\ command'.at = IF command.at = "uninstall" THEN "uninstall" ELSE "look"
           /\ command'.verb = command.verb /\ command'.from = command.from
           /\ command'.owned = command.owned
           /\ command'.report = command.report \cup {[at |-> Visited, as |-> as]}
<1>1. command \in CommandType /\ command.todo \in Seq(Folder)
  BY DEF SkillTypeOK, CommandType
<1>2. Visited \in Folder /\ Tail(command.todo) \in Seq(Folder)
  BY <1>1, HeadTailProperties DEF Visited
<1>3. [at |-> Visited, as |-> as] \in Turn
  BY <1>2 DEF Turn
<1> QED BY <1>1, <1>2, <1>3 DEF Reports, CommandType

LEMMA RestIsACommand == AtRest \in CommandType /\ AtRest.at = "done" /\ AtRest.verb = "none"
BY DEF AtRest, CommandType, OnFile

LEMMA SkillInvInit == SkillInit => SkillInv
<1> SUFFICES ASSUME SkillInit PROVE SkillInv
  OBVIOUS
<1>1. /\ \A f \in Folder : entry[f] = No
      /\ entry \in [Folder -> EntryKind]
  BY KindsDiffer DEF SkillInit
<1>2. command = AtRest /\ AtRest \in CommandType /\ AtRest.at = "done" /\ AtRest.verb = "none"
  BY RestIsACommand DEF SkillInit
<1>3. SkillTypeOK
  BY <1>1, <1>2 DEF SkillInit, SkillTypeOK, OnFile
<1>4. {f \in Folder : entry[f] = Copy} = {}
  BY <1>1, KindsDiffer
<1>5. CopiesAreKept
  BY <1>4, FS_EmptySet DEF SkillInit, CopiesAreKept
<1> QED BY <1>1, <1>2, <1>3, <1>5 DEF SkillInv, VerbFits, UnmadeAreEmpty, TurnHolds, NothingElseIsOwned, ArrivalsHold

\* A command begins: with the manifest as it is, and nothing reported.
LEMMA BeginKeeps ==
    ASSUME SkillInv, NEW from \in Checkout, NEW environment \in Environments,
           InstallSkill(from, environment) \/ UninstallSkill(from, environment)
    PROVE  SkillInv'
<1>1. /\ UNCHANGED <<folder, entry, manifest, backups, checkouts, copies>>
      /\ SkillTypeOK /\ UnmadeAreEmpty /\ CopiesAreKept
  BY DEF InstallSkill, UninstallSkill, SkillInv
<1>2. locations(from, environment) \in Seq(Folder)
  BY WhereToGo
<1>3. /\ command' \in CommandType /\ command'.owned = manifest /\ command'.report = {}
      /\ \/ command'.at = "look" /\ command'.verb = "install" /\ command'.from \in checkouts
         \/ command'.at = "uninstall" /\ command'.verb = "uninstall"
  <2>1. CASE InstallSkill(from, environment)
    BY <1>1, <1>2, <2>1 DEF InstallSkill, SkillTypeOK, CommandType
  <2>2. CASE UninstallSkill(from, environment)
    <3> DEFINE now == locations(from, environment)
               more == {f \in Folder : manifest[f] # Unrecorded} \ {now[i] : i \in DOMAIN now}
    <3>1. SetToSeq(more) \in Seq(Folder)
      BY Listed
    <3>2. now \o SetToSeq(more) \in Seq(Folder)
      BY <1>2, <3>1, ConcatProperties
    <3>3. command' = [at |-> "uninstall", verb |-> "uninstall", from |-> from,
                      todo |-> now \o SetToSeq(more), owned |-> manifest, report |-> {}]
      BY <2>2 DEF UninstallSkill
    <3> HIDE DEF now, more
    <3> QED BY <1>1, <3>2, <3>3 DEF SkillTypeOK, CommandType
  <2> QED BY <2>1, <2>2
<1>4. SkillTypeOK'
  BY <1>1, <1>3 DEF SkillTypeOK
<1> QED BY <1>1, <1>3, <1>4 DEF SkillInv, VerbFits, UnmadeAreEmpty, TurnHolds, NothingElseIsOwned,
                               ArrivalsHold, CopiesAreKept

\* A command is over, or cut short: nothing depends on it any more.
LEMMA EndKeeps ==
    ASSUME SkillInv, command'.at = "done", command' \in CommandType, manifest' \in OnFile,
           UNCHANGED <<folder, entry, backups, checkouts, copies>>,
           \/ command'.verb # "install"
           \/ /\ command'.verb = command.verb /\ command'.from = command.from
              /\ command'.report = command.report
    PROVE  SkillInv'
<1>1. SkillTypeOK'
  BY DEF SkillInv, SkillTypeOK
<1>2. VerbFits' /\ UnmadeAreEmpty' /\ TurnHolds' /\ NothingElseIsOwned' /\ CopiesAreKept'
  BY DEF SkillInv, VerbFits, UnmadeAreEmpty, TurnHolds, NothingElseIsOwned, CopiesAreKept
<1>3. ArrivalsHold'
  BY DEF SkillInv, ArrivalsHold, Arrives, Points, Target
<1> QED BY <1>1, <1>2, <1>3 DEF SkillInv

LEMMA FinishesKeep ==
    ASSUME SkillInv, FinishCommand \/ Stops
    PROVE  SkillInv'
<1>1. command \in CommandType /\ manifest \in OnFile
  BY DEF SkillInv, SkillTypeOK
<1>2. CASE FinishCommand
  <2>1. /\ command'.at = "done" /\ command' \in CommandType
        /\ command'.verb = command.verb /\ command'.from = command.from
        /\ command'.report = command.report
    BY <1>1, <1>2 DEF FinishCommand, Proceeds, CommandType
  <2>2. manifest' \in OnFile
    BY <1>1, <1>2 DEF FinishCommand, CommandType
  <2> QED BY <1>2, <2>1, <2>2, EndKeeps DEF FinishCommand
<1>3. CASE Stops
  <2>1. command'.at = "done" /\ command' \in CommandType /\ command'.verb # "install"
    <3> DEFINE rest == [AtRest EXCEPT !.verb = "stopped"]
    <3>1. rest \in CommandType /\ rest.at = "done" /\ rest.verb = "stopped"
      BY RestIsACommand DEF CommandType
    <3>2. command' = rest
      BY <1>3 DEF Stops
    <3> HIDE DEF rest
    <3> QED BY <3>1, <3>2
  <2>2. manifest' \in OnFile
    BY <1>1, <1>3 DEF Stops, OnFile
  <2> QED BY <1>3, <2>1, <2>2, EndKeeps DEF Stops
<1> QED BY <1>2, <1>3

\* The owner's own changes, between two commands.
LEMMA EditsKeep ==
    ASSUME SkillInv, OwnerEdits
    PROVE  SkillInv'
<1>1. SkillTypeOK /\ UnmadeAreEmpty /\ CopiesAreKept /\ UNCHANGED <<manifest, backups>>
  BY DEF SkillInv, OwnerEdits
<1>2. command' \in CommandType /\ command'.at = "done" /\ command'.verb = "none"
  BY RestIsACommand DEF OwnerEdits
<1>3. ASSUME NEW f \in Folder, NEW what \in EntryKind, OwnerPuts(f, what)
      PROVE  SkillInv'
  <2>1. folder' = folder /\ checkouts' = checkouts /\ entry' = [entry EXCEPT ![f] = what]
    BY <1>3 DEF OwnerPuts
  <2>2. entry \in [Folder -> EntryKind] /\ entry' \in [Folder -> EntryKind]
    BY <1>1, <2>1 DEF SkillTypeOK
  <2>3. copies' = copies + (IF what = Copy THEN 1 ELSE 0) - (IF entry[f] = Copy THEN 1 ELSE 0)
    BY <1>3 DEF OwnerPuts
  <2>4. copies' \in Int
    BY <1>1, <2>3 DEF SkillTypeOK
  <2>5. UnmadeAreEmpty'
    BY <1>1, <1>3, <2>1, <2>2 DEF UnmadeAreEmpty, OwnerPuts
  <2>6. CopiesAreKept'
    <3> DEFINE Was == Cardinality(Copied(entry))
               Is == Cardinality(Copied(entry'))
    <3>1. Is = Was + (IF what = Copy THEN 1 ELSE 0) - (IF entry[f] = Copy THEN 1 ELSE 0)
      BY <2>1, <2>2, OneEntryChanges, Zenon
    <3>2. copies = backups + Was /\ Was \in Int /\ backups \in Int
      BY <1>1, SkillAssumption, FS_Subset, FS_CardinalityType DEF CopiesAreKept, Copied, SkillTypeOK
    <3>3. CopiesAreKept' <=> copies' = backups + Is
      BY <1>1 DEF CopiesAreKept, Copied
    <3> HIDE DEF Was, Is
    <3> QED BY <2>3, <3>1, <3>2, <3>3
  <2> QED BY <1>1, <1>2, <2>1, <2>2, <2>4, <2>5, <2>6
          DEF SkillInv, SkillTypeOK, VerbFits, TurnHolds, NothingElseIsOwned, ArrivalsHold
<1>4. ASSUME UNCHANGED <<entry, copies>>, checkouts' \subseteq Checkout,
             folder' \in [Folder -> {"none", "open", "locked", "file"}],
             \A f \in Folder : folder'[f] = "none" => folder[f] = "none"
      PROVE  SkillInv'
  BY <1>1, <1>2, <1>4 DEF SkillInv, SkillTypeOK, VerbFits, UnmadeAreEmpty, TurnHolds,
                          NothingElseIsOwned, ArrivalsHold, CopiesAreKept
<1>5. CASE \E f \in Folder, what \in {No, Copy, Other, Link("elsewhere", "owner")} : OwnerPuts(f, what)
  BY <1>3, <1>5, KindsDiffer DEF Place
<1>6. CASE \E c \in Checkout : OwnerPuts(Agents, Link(c, "owner"))
  BY <1>3, <1>6, KindsDiffer, SkillAssumption DEF Place
<1>7. CASE \E f \in Folder :
             /\ \/ folder[f] = "none" /\ \E as \in {"open", "file"} : folder' = [folder EXCEPT ![f] = as]
                \/ folder[f] = "open" /\ folder' = [folder EXCEPT ![f] = "locked"]
                \/ folder[f] = "locked" /\ folder' = [folder EXCEPT ![f] = "open"]
             /\ UNCHANGED <<entry, copies, checkouts>>
  <2>1. PICK f \in Folder, as \in {"open", "file", "locked"} : folder' = [folder EXCEPT ![f] = as]
    BY <1>7
  <2> QED BY <1>1, <1>4, <1>7, <2>1 DEF SkillTypeOK
<1>8. CASE \E c \in Checkout :
             /\ checkouts' = IF c \in checkouts THEN checkouts \ {c} ELSE checkouts \cup {c}
             /\ UNCHANGED <<folder, entry, copies>>
  <2>1. checkouts' \subseteq Checkout
    BY <1>1, <1>8 DEF SkillTypeOK
  <2> QED BY <1>1, <1>4, <1>8, <2>1 DEF SkillTypeOK
<1> QED BY <1>5, <1>6, <1>7, <1>8 DEF OwnerEdits

\* The steps of a command. An installation looks at a folder: the folder is skipped, is
\* linked already, or has what is in the way out of the way.
Untouched == UNCHANGED <<entry, backups>> /\ (folder[Visited] # "open" \/ entry[Visited] = No)
CopyGone == /\ folder[Visited] = "open" /\ entry[Visited] = Copy
            /\ entry' = [entry EXCEPT ![Visited] = No] /\ backups' = backups + 1
LinkGone == /\ folder[Visited] = "open" /\ entry[Visited].is = "link"
            /\ command.owned[Visited] = entry[Visited].to
            /\ entry' = [entry EXCEPT ![Visited] = No] /\ UNCHANGED backups

LEMMA LooksAre ==
    ASSUME SkillInv, Clear
    PROVE  \/ Reports("skipped") /\ UNCHANGED <<entry, backups>>
           \/ Reports("already-linked") /\ Arrives(Visited) /\ UNCHANGED <<entry, backups>>
           \/ /\ command' = [command EXCEPT !.at = "record",
                                            !.owned[Visited] = Target(Visited, command.from)]
              /\ Visited # Agents => Points(Agents, command.from)
              /\ ~(Points(Visited, Target(Visited, command.from)) /\ Points(Agents, command.from))
              /\ Untouched \/ CopyGone \/ LinkGone
<1> DEFINE f == Visited
           status == statusOf(f, command.from)
<1>1. SkillTypeOK /\ command.todo # <<>> /\ command.from \in checkouts
  BY DEF SkillInv, Clear, VerbFits
<1>2. f \in Folder
  BY <1>1, HeadTailProperties DEF SkillTypeOK, CommandType, Visited
<1>3. Linkable(f, command.from) => (f # Agents => Points(Agents, command.from))
  BY <1>1, AgentsResolve DEF Linkable
<1>4. /\ status = "linked" => Points(f, Target(f, command.from))
      /\ Points(f, Target(f, command.from)) /\ Resolved(f) # "nowhere" => status = "linked"
      /\ status = "absent" => Seen(f) = No /\ (folder[f] # "open" \/ entry[f] = No)
      /\ status \in {"dangling", "other-link"} => folder[f] = "open" /\ entry[f].is = "link"
      /\ Seen(f) # No => folder[f] = "open" /\ Seen(f) = entry[f]
  BY <1>1, <1>2, StatusSays
<1>5. entry[f] \in EntryKind
  BY <1>1, <1>2 DEF SkillTypeOK
<1>6. Points(f, Target(f, command.from)) /\ Points(Agents, command.from) => status = "linked"
  BY <1>1, <1>2, <1>4, ArrivingResolves, NamesDiffer DEF SkillTypeOK
<1>7. CASE Reports("skipped") /\ UNCHANGED <<entry, backups>>
  BY <1>7
<1>8. CASE /\ Linkable(f, command.from) /\ status = "linked"
           /\ Reports("already-linked") /\ UNCHANGED <<entry, backups>>
  <2>1. Arrives(f)
    BY <1>3, <1>4, <1>8 DEF Arrives, Target
  <2> QED BY <1>8, <2>1
<1>9. CASE /\ Linkable(f, command.from)
           /\ \/ status = "absent"
              \/ status = "copy" /\ Seen(f) = Copy
              \/ status \in {"dangling", "other-link"} /\ stillOwned(command.owned, f)
           /\ backups' = backups + (IF Seen(f) = Copy THEN 1 ELSE 0)
           /\ entry' = IF Seen(f) = No THEN entry ELSE [entry EXCEPT ![f] = No]
           /\ command' = [command EXCEPT !.at = "record", !.owned[f] = Target(f, command.from)]
  <2>1. backups \in Int
    BY <1>1 DEF SkillTypeOK
  <2>2. No # Copy
    BY KindsDiffer
  <2>3. status # "linked"
    BY <1>9
  <2>4. ASSUME status = "absent" PROVE Untouched
    <3>1. Seen(f) = No /\ (folder[f] # "open" \/ entry[f] = No)
      BY <1>4, <2>4
    <3>2. backups' = backups /\ entry' = entry
      <4> HIDE DEF status
      <4> QED BY <1>9, <2>1, <2>2, <3>1
    <3> QED BY <3>1, <3>2 DEF Untouched
  <2>5. ASSUME status = "copy", Seen(f) = Copy PROVE CopyGone
    <3>1. Seen(f) = Copy /\ folder[f] = "open" /\ entry[f] = Copy
      BY <1>4, <2>2, <2>5
    <3>2. backups' = backups + 1 /\ entry' = [entry EXCEPT ![f] = No]
      <4> HIDE DEF status
      <4> QED BY <1>9, <2>1, <2>2, <3>1
    <3> QED BY <3>1, <3>2 DEF CopyGone
  <2>6. ASSUME status \in {"dangling", "other-link"}, stillOwned(command.owned, f) PROVE LinkGone
    <3>1. /\ folder[f] = "open" /\ entry[f].is = "link" /\ Seen(f) = entry[f]
          /\ Seen(f) # No /\ Seen(f) # Copy
      BY <1>4, <1>5, <2>6, KindsDiffer DEF Seen
    <3>2. command.owned[f] = entry[f].to
      BY <2>6, <3>1 DEF stillOwned
    <3>3. backups' = backups /\ entry' = [entry EXCEPT ![f] = No]
      <4> HIDE DEF status
      <4> QED BY <1>9, <2>1, <3>1
    <3> QED BY <3>1, <3>2, <3>3 DEF LinkGone
  <2>7. Untouched \/ CopyGone \/ LinkGone
    <3> HIDE DEF status
    <3> QED BY <1>9, <2>4, <2>5, <2>6
  <2> QED BY <1>3, <1>6, <1>9, <2>3, <2>7
<1> HIDE DEF status
<1> QED BY <1>7, <1>8, <1>9 DEF Clear, status

\* A step of a command that changes no entry and no folder.
LEMMA SeeingKeeps ==
    ASSUME SkillInv, UNCHANGED <<folder, entry, backups, checkouts, copies>>,
           manifest' \in OnFile, command' \in CommandType,
           command'.verb = command.verb, command'.from = command.from,
           VerbFits', TurnHolds', NothingElseIsOwned',
           \A r \in command'.report :
             r \in command.report \/ (r.as \in {"linked", "already-linked"} => Arrives(r.at))
    PROVE  SkillInv'
<1>1. SkillTypeOK'
  BY DEF SkillInv, SkillTypeOK
<1>2. UnmadeAreEmpty' /\ CopiesAreKept'
  BY DEF SkillInv, UnmadeAreEmpty, CopiesAreKept
<1>3. ArrivalsHold'
  BY DEF SkillInv, ArrivalsHold, Arrives, Points, Target
<1> QED BY <1>1, <1>2, <1>3 DEF SkillInv

\* A folder's turn ends without a change.
LEMMA SkipKeeps ==
    ASSUME SkillInv, command.todo # <<>>, command.at # "done",
           NEW as \in {"skipped", "already-linked", "failed"}, Reports(as),
           as = "already-linked" => Arrives(Visited),
           UNCHANGED <<folder, entry, backups, checkouts, copies>>,
           \/ UNCHANGED manifest
           \/ manifest' = command.owned
    PROVE  SkillInv'
<1>1. SkillTypeOK /\ VerbFits /\ NothingElseIsOwned /\ manifest' \in OnFile
  BY DEF SkillInv, SkillTypeOK, CommandType
<1>2. /\ Visited \in Folder /\ command' \in CommandType
      /\ command'.at = IF command.at = "uninstall" THEN "uninstall" ELSE "look"
      /\ command'.verb = command.verb /\ command'.from = command.from
      /\ command'.owned = command.owned
      /\ command'.report = command.report \cup {[at |-> Visited, as |-> as]}
  BY <1>1, ReportGives
<1>3. command.at \in {"look", "record", "link", "unrecord", "uninstall"}
  BY <1>1 DEF SkillTypeOK, CommandType
<1>4. VerbFits'
  BY <1>1, <1>2, <1>3 DEF VerbFits
<1>5. TurnHolds'
  BY <1>2 DEF TurnHolds
<1>6. NothingElseIsOwned'
  BY <1>1, <1>2 DEF NothingElseIsOwned
<1>7. \A r \in command'.report :
        r \in command.report \/ (r.as \in {"linked", "already-linked"} => Arrives(r.at))
  <2> SUFFICES ASSUME NEW r \in command'.report, r \notin command.report,
                      r.as \in {"linked", "already-linked"}
               PROVE  Arrives(r.at)
    OBVIOUS
  <2>1. r = [at |-> Visited, as |-> as]
    BY <1>2
  <2>2. r.at = Visited /\ r.as = as
    BY <2>1
  <2> QED BY <2>2
<1> QED BY <1>1, <1>2, <1>4, <1>5, <1>6, <1>7, SeeingKeeps

LEMMA RecordKeeps ==
    ASSUME SkillInv, Record
    PROVE  SkillInv'
<1>1. SkillTypeOK /\ VerbFits /\ TurnHolds /\ command.todo # <<>>
  BY DEF SkillInv, Record, TurnHolds
<1>2. CASE command.at = "unrecord"
  BY <1>1, <1>2, SkipKeeps DEF Record
<1>3. CASE command.at = "record"
  <2>1. /\ command' \in CommandType /\ command'.at = "link" /\ command'.verb = command.verb
        /\ command'.from = command.from /\ command'.owned = command.owned
        /\ command'.todo = command.todo /\ command'.report = command.report
    BY <1>1, <1>3 DEF Record, Proceeds, SkillTypeOK, CommandType
  <2>2. manifest' = command.owned /\ manifest' \in OnFile
    BY <1>1 DEF Record, SkillTypeOK, CommandType
  <2>3. UNCHANGED <<folder, entry, backups, checkouts, copies>>
    BY DEF Record
  <2>4. VerbFits' /\ NothingElseIsOwned'
    BY <1>1, <1>3, <2>1, <2>2, <2>3 DEF VerbFits, NothingElseIsOwned
  <2>5. TurnHolds'
    BY <1>1, <1>3, <2>1, <2>2, <2>3 DEF TurnHolds, Visited, Points, Target
  <2> QED BY <2>1, <2>2, <2>3, <2>4, <2>5, SeeingKeeps
<1> QED BY <1>2, <1>3 DEF Record

\* An arrival stays when an entry changes that no arrival follows.
LEMMA ArrivalStays ==
    ASSUME SkillTypeOK, NEW f \in Folder, NEW g \in Folder, NEW e,
           entry' = [entry EXCEPT ![f] = e],
           \A h \in Folder : folder[h] = "open" => folder'[h] = "open",
           command'.from = command.from,
           ~(Points(f, Target(f, command.from)) /\ Points(Agents, command.from)),
           Arrives(g)
    PROVE  Arrives(g)'
<1>1. g # f /\ Agents # f /\ Agents \in Folder
  BY SkillAssumption DEF Arrives, Points, Target
<1>2. entry'[g] = entry[g] /\ entry'[Agents] = entry[Agents]
  BY <1>1 DEF SkillTypeOK
<1> QED BY <1>1, <1>2 DEF Arrives, Points, Target

LEMMA ClearKeeps ==
    ASSUME SkillInv, Clear
    PROVE  SkillInv'
<1>1. /\ SkillTypeOK /\ VerbFits /\ CopiesAreKept /\ UnmadeAreEmpty
      /\ command.at = "look" /\ command.todo # <<>>
      /\ UNCHANGED <<folder, manifest, checkouts, copies>>
  BY DEF SkillInv, Clear
<1>2. CASE \/ Reports("skipped") /\ UNCHANGED <<entry, backups>>
           \/ Reports("already-linked") /\ Arrives(Visited) /\ UNCHANGED <<entry, backups>>
  BY <1>1, <1>2, SkipKeeps
<1>3. CASE /\ command' = [command EXCEPT !.at = "record",
                                         !.owned[Visited] = Target(Visited, command.from)]
           /\ Visited # Agents => Points(Agents, command.from)
           /\ ~(Points(Visited, Target(Visited, command.from)) /\ Points(Agents, command.from))
           /\ Untouched \/ CopyGone \/ LinkGone
  <2>1. PICK f \in Folder : f = Visited
    BY <1>1, HeadTailProperties DEF SkillTypeOK, CommandType, Visited
  <2>2. Target(f, command.from) \in Place
    BY <1>1 DEF Target, Place, VerbFits, SkillTypeOK
  <2>3. PICK to \in CommandType :
          /\ command' = to /\ to.at = "record" /\ to.verb = command.verb /\ to.from = command.from
          /\ to.todo = command.todo /\ to.report = command.report
          /\ to.owned = [command.owned EXCEPT ![f] = Target(f, command.from)]
    <3> DEFINE to == [command EXCEPT !.at = "record", !.owned[f] = Target(f, command.from)]
    <3>1. command \in CommandType
      BY <1>1 DEF SkillTypeOK
    <3>2. command' = to
      BY <1>3, <2>1
    <3>3. [command.owned EXCEPT ![f] = Target(f, command.from)] \in OnFile
      BY <2>2, <3>1 DEF CommandType, OnFile
    <3>4. /\ to \in CommandType /\ to.at = "record" /\ to.verb = command.verb /\ to.from = command.from
          /\ to.todo = command.todo /\ to.report = command.report
          /\ to.owned = [command.owned EXCEPT ![f] = Target(f, command.from)]
      BY <3>1, <3>3 DEF CommandType
    <3> QED BY <3>2, <3>4
  <2>4. /\ entry' \in [Folder -> EntryKind] /\ backups' \in Int
        /\ \A g \in Folder \ {f} : entry'[g] = entry[g]
        /\ folder[f] \in {"none", "open"} => entry'[f] = No
    <3>1. CASE Untouched
      BY <1>1, <2>1, <3>1 DEF Untouched, SkillTypeOK, UnmadeAreEmpty
    <3>2. CASE CopyGone
      BY <1>1, <2>1, <3>2, KindsDiffer DEF CopyGone, SkillTypeOK
    <3>3. CASE LinkGone
      BY <1>1, <2>1, <3>3, KindsDiffer DEF LinkGone, SkillTypeOK
    <3> QED BY <1>3, <3>1, <3>2, <3>3
  <2>5. SkillTypeOK'
    BY <1>1, <2>3, <2>4 DEF SkillTypeOK
  <2>6. VerbFits'
    BY <1>1, <2>3 DEF VerbFits
  <2>7. UnmadeAreEmpty'
    BY <1>1, <2>4 DEF UnmadeAreEmpty
  <2>8. f = Head(command'.todo)
    BY <2>1, <2>3 DEF Visited
  <2>9. f # Agents => Points(Agents, command.from)'
    <3>1. ASSUME f # Agents PROVE Points(Agents, command.from)'
      <4>1. Points(Agents, command.from) /\ Agents \in Folder
        BY <1>3, <2>1, <3>1, SkillAssumption
      <4>2. entry'[Agents] = entry[Agents]
        BY <2>4, <3>1, <4>1
      <4> QED BY <1>1, <2>3, <4>1, <4>2 DEF Points
    <3> QED BY <3>1
  <2>10. TurnHolds'
    <3>1. command'.owned[f] = Target(f, command.from)
      BY <2>3 DEF CommandType, OnFile
    <3> QED BY <1>1, <2>3, <2>4, <2>8, <2>9, <3>1 DEF TurnHolds, Visited, Target, Points
  <2>11. NothingElseIsOwned'
    <3> SUFFICES ASSUME NEW g \in Folder, folder[g] = "open", entry'[g].is = "link", entry'[g].to # manifest[g]
                 PROVE  command'.owned[g] # entry'[g].to
      BY <1>1 DEF NothingElseIsOwned
    <3>1. g # f
      BY <2>4, KindsDiffer
    <3>2. command.owned[g] # entry[g].to
      BY <1>1, <2>4, <3>1 DEF SkillInv, NothingElseIsOwned
    <3> QED BY <2>3, <2>4, <3>1, <3>2 DEF CommandType, OnFile
  <2>12. ArrivalsHold'
    <3> SUFFICES ASSUME command.verb = "install", NEW r \in command.report,
                        r.as \in {"linked", "already-linked"}
                 PROVE  Arrives(r.at)'
      BY <2>3 DEF ArrivalsHold
    <3>1. Arrives(r.at) /\ r.at \in Folder
      BY <1>1 DEF SkillInv, ArrivalsHold, SkillTypeOK, CommandType, Turn
    <3>2. CASE Untouched
      BY <1>1, <2>3, <3>1, <3>2 DEF Untouched, Arrives, Points, Target
    <3>3. CASE CopyGone \/ LinkGone
      <4>1. entry' = [entry EXCEPT ![f] = No]
        BY <2>1, <3>3 DEF CopyGone, LinkGone
      <4>2. ~(Points(f, Target(f, command.from)) /\ Points(Agents, command.from))
        BY <1>3, <2>1
      <4>3. /\ command'.from = command.from
            /\ \A h \in Folder : folder[h] = "open" => folder'[h] = "open"
        BY <1>1, <2>3
      <4> HIDE DEF Arrives
      <4> QED BY <1>1, <3>1, <4>1, <4>2, <4>3, ArrivalStays
    <3> QED BY <1>3, <3>2, <3>3
  <2>13. CopiesAreKept'
    <3>1. CASE Untouched
      BY <1>1, <3>1 DEF Untouched, CopiesAreKept
    <3>2. CASE CopyGone \/ LinkGone
      <4>1. /\ entry' = [entry EXCEPT ![f] = No] /\ No # Copy /\ No \in EntryKind
            /\ backups' = backups + (IF entry[f] = Copy THEN 1 ELSE 0)
        <5>1. entry[f] \in EntryKind /\ backups \in Int
          BY <1>1 DEF SkillTypeOK
        <5>2. LinkGone => entry[f] # Copy
          BY <2>1, <5>1, KindsDiffer DEF LinkGone
        <5> QED BY <2>1, <3>2, <5>1, <5>2, KindsDiffer DEF CopyGone, LinkGone
      <4>2. /\ entry \in [Folder -> EntryKind] /\ entry' \in [Folder -> EntryKind]
            /\ f \in Folder /\ No \in EntryKind /\ entry' = [entry EXCEPT ![f] = No]
        BY <1>1, <2>1, <2>4, <4>1 DEF SkillTypeOK
      <4>3. Cardinality(Copied(entry')) = Cardinality(Copied(entry))
              + (IF No = Copy THEN 1 ELSE 0) - (IF entry[f] = Copy THEN 1 ELSE 0)
        BY <4>2, OneEntryChanges, Zenon
      <4>4. /\ copies = backups + Cardinality(Copied(entry)) /\ backups \in Int
            /\ Cardinality(Copied(entry)) \in Int
        BY <1>1, SkillAssumption, FS_Subset, FS_CardinalityType DEF CopiesAreKept, Copied, SkillTypeOK
      <4>5. CopiesAreKept' <=> copies' = backups' + Cardinality(Copied(entry'))
        BY DEF CopiesAreKept, Copied
      <4> QED BY <1>1, <4>1, <4>3, <4>4, <4>5
    <3> QED BY <1>3, <3>1, <3>2
  <2> QED BY <2>5, <2>6, <2>7, <2>10, <2>11, <2>12, <2>13 DEF SkillInv
<1> QED BY <1>2, <1>3, LooksAre

LEMMA MakeKeeps ==
    ASSUME SkillInv, Make
    PROVE  SkillInv'
<1>1. /\ SkillTypeOK /\ VerbFits /\ TurnHolds /\ CopiesAreKept /\ UnmadeAreEmpty
      /\ command.at = "link" /\ command.todo # <<>> /\ command.verb = "install"
      /\ command.owned = manifest
      /\ UNCHANGED <<manifest, backups, checkouts, copies>>
  BY DEF SkillInv, Make, TurnHolds, VerbFits
<1>2. PICK f \in Folder : f = Visited
  BY <1>1, HeadTailProperties DEF SkillTypeOK, CommandType, Visited
<1>3. /\ command.owned[f] = Target(f, command.from)
      /\ folder[f] \in {"none", "open"} => entry[f] = No
      /\ f # Agents => Points(Agents, command.from)
  BY <1>1, <1>2 DEF TurnHolds
<1>4. Target(f, command.from) \in Place /\ command.from \in checkouts
  BY <1>1 DEF Target, Place, VerbFits, SkillTypeOK
<1>5. CASE /\ folder[f] \in {"none", "open"} /\ Reports("linked")
           /\ folder' = [folder EXCEPT ![f] = "open"]
           /\ entry' = [entry EXCEPT ![f] = Link(Target(f, command.from), "oo")]
  <2> DEFINE made == Link(Target(f, command.from), "oo")
  <2>1. made \in EntryKind /\ made.is = "link" /\ made.to = Target(f, command.from)
    BY <1>4, KindsDiffer
  <2>2. /\ entry' = [entry EXCEPT ![f] = made] /\ entry[f] = No
        /\ entry' \in [Folder -> EntryKind] /\ entry'[f] = made
        /\ \A g \in Folder \ {f} : entry'[g] = entry[g]
    <3> HIDE DEF made
    <3>1. entry' = [entry EXCEPT ![f] = made] /\ entry[f] = No
      BY <1>3, <1>5 DEF made
    <3> QED BY <1>1, <2>1, <3>1 DEF SkillTypeOK
  <2> HIDE DEF made
  <2>3. /\ folder' \in [Folder -> {"none", "open", "locked", "file"}] /\ folder'[f] = "open"
        /\ \A g \in Folder \ {f} : folder'[g] = folder[g]
    BY <1>1, <1>5 DEF SkillTypeOK
  <2>4. /\ command' \in CommandType /\ command'.at = "look"
        /\ command'.verb = command.verb /\ command'.from = command.from
        /\ command'.owned = command.owned
        /\ command'.report = command.report \cup {[at |-> f, as |-> "linked"]}
    BY <1>1, <1>2, <1>5, ReportGives
  <2>5. SkillTypeOK'
    BY <1>1, <2>2, <2>3, <2>4 DEF SkillTypeOK
  <2>6. VerbFits' /\ TurnHolds'
    BY <1>1, <2>4 DEF VerbFits, TurnHolds
  <2>7. UnmadeAreEmpty'
    BY <1>1, <2>2, <2>3 DEF UnmadeAreEmpty
  <2>8. NothingElseIsOwned'
    BY <1>1, <2>4 DEF NothingElseIsOwned
  <2>9. ArrivalsHold'
    <3>1. Arrives(f)'
      <4>1. CASE f = Agents
        BY <2>1, <2>2, <2>3, <2>4, <4>1 DEF Arrives, Points, Target
      <4>2. CASE f # Agents
        <5>1. /\ Points(Agents, command.from) /\ entry'[Agents] = entry[Agents]
              /\ folder'[Agents] = folder[Agents]
          BY <1>3, <2>2, <2>3, <4>2, SkillAssumption
        <5> QED BY <2>1, <2>2, <2>3, <2>4, <4>2, <5>1 DEF Arrives, Points, Target
      <4> QED BY <4>1, <4>2
    <3>2. ASSUME NEW r \in command.report, r.as \in {"linked", "already-linked"}
          PROVE  Arrives(r.at)'
      <4>1. Arrives(r.at) /\ r.at \in Folder
        BY <1>1, <3>2 DEF SkillInv, ArrivalsHold, SkillTypeOK, CommandType, Turn
      <4>2. ~Points(f, Target(f, command.from))
        BY <2>2, KindsDiffer DEF Points
      <4>3. \A h \in Folder : folder[h] = "open" => folder'[h] = "open"
        BY <2>3
      <4> HIDE DEF Arrives
      <4> QED BY <1>1, <2>2, <2>4, <4>1, <4>2, <4>3, ArrivalStays
    <3>3. ASSUME NEW r \in command'.report, r.as \in {"linked", "already-linked"}
          PROVE  Arrives(r.at)'
      <4>1. CASE r \in command.report
        BY <3>2, <3>3, <4>1
      <4>2. CASE r = [at |-> f, as |-> "linked"]
        <5>1. r.at = f
          BY <4>2
        <5> QED BY <3>1, <5>1 DEF Arrives, Points, Target
      <4> QED BY <2>4, <3>3, <4>1, <4>2
    <3> QED BY <3>3 DEF ArrivalsHold
  <2>10. CopiesAreKept'
    <3>1. made # Copy /\ entry[f] # Copy
      BY <2>1, <2>2, KindsDiffer
    <3>2. Copied(entry') = Copied(entry)
      BY <2>2, <3>1 DEF Copied
    <3> QED BY <1>1, <3>2 DEF CopiesAreKept, Copied
  <2> QED BY <2>5, <2>6, <2>7, <2>8, <2>9, <2>10 DEF SkillInv
<1>6. CASE /\ command' = [command EXCEPT !.at = "unrecord", !.owned[f] = Unrecorded]
           /\ UNCHANGED <<folder, entry>>
  <2>1. PICK to \in CommandType :
          /\ command' = to /\ to.at = "unrecord" /\ to.verb = command.verb /\ to.from = command.from
          /\ to.todo = command.todo /\ to.report = command.report
          /\ to.owned = [command.owned EXCEPT ![f] = Unrecorded]
    <3> DEFINE to == [command EXCEPT !.at = "unrecord", !.owned[f] = Unrecorded]
    <3>1. command \in CommandType
      BY <1>1 DEF SkillTypeOK
    <3>2. [command.owned EXCEPT ![f] = Unrecorded] \in OnFile
      BY <3>1 DEF CommandType, OnFile
    <3>3. /\ to \in CommandType /\ to.at = "unrecord" /\ to.verb = command.verb /\ to.from = command.from
          /\ to.todo = command.todo /\ to.report = command.report
          /\ to.owned = [command.owned EXCEPT ![f] = Unrecorded]
      BY <3>1, <3>2 DEF CommandType
    <3> QED BY <1>6, <3>3
  <2>2. VerbFits' /\ TurnHolds'
    BY <1>1, <2>1 DEF VerbFits, TurnHolds
  <2>3. NothingElseIsOwned'
    <3> SUFFICES ASSUME NEW g \in Folder, folder[g] = "open", entry[g].is = "link", entry[g].to # manifest[g]
                 PROVE  command'.owned[g] # entry[g].to
      BY <1>1, <1>6 DEF NothingElseIsOwned
    <3>1. command.owned[g] # entry[g].to /\ entry[g].to \in Place
      BY <1>1, KindsDiffer DEF SkillInv, NothingElseIsOwned, SkillTypeOK
    <3> QED BY <2>1, <3>1, NamesDiffer DEF CommandType, OnFile
  <2>4. manifest' \in OnFile
    BY <1>1 DEF SkillTypeOK
  <2> QED BY <1>1, <1>6, <2>1, <2>2, <2>3, <2>4, SeeingKeeps
<1> QED BY <1>2, <1>5, <1>6 DEF Make

\* A record that a link is gone, or was never there.
LEMMA DropKeeps ==
    ASSUME SkillInv, command.at = "uninstall", command.todo # <<>>, NEW f \in Folder, NEW to \in CommandType,
           UNCHANGED <<folder, manifest, backups, checkouts, copies>>,
           command' = to, to.at = "uninstall", to.verb = command.verb,
           to.owned \in {command.owned, [command.owned EXCEPT ![f] = Unrecorded]},
           \/ UNCHANGED entry
           \/ entry' = [entry EXCEPT ![f] = No] /\ entry[f].is = "link"
    PROVE  SkillInv'
<1>1. SkillTypeOK /\ VerbFits /\ CopiesAreKept /\ UnmadeAreEmpty /\ command.verb = "uninstall"
  BY DEF SkillInv, VerbFits
<1>2. /\ entry' \in [Folder -> EntryKind]
      /\ \A g \in Folder : entry'[g] = entry[g] \/ (entry'[g] = No /\ entry[g].is = "link")
  BY <1>1, KindsDiffer DEF SkillTypeOK
<1>3. SkillTypeOK'
  BY <1>1, <1>2 DEF SkillTypeOK
<1>4. VerbFits' /\ TurnHolds' /\ ArrivalsHold'
  BY <1>1 DEF VerbFits, TurnHolds, ArrivalsHold
<1>5. UnmadeAreEmpty'
  BY <1>1, <1>2 DEF UnmadeAreEmpty
<1>6. NothingElseIsOwned'
  <2> SUFFICES ASSUME NEW g \in Folder, folder[g] = "open", entry'[g].is = "link", entry'[g].to # manifest[g]
               PROVE  to.owned[g] # entry'[g].to
    BY DEF NothingElseIsOwned
  <2>1. entry'[g] = entry[g] /\ entry[g].to \in Place
    BY <1>1, <1>2, KindsDiffer DEF SkillTypeOK
  <2>2. command.owned[g] # entry[g].to /\ command.owned \in OnFile
    BY <1>1, <2>1 DEF SkillInv, NothingElseIsOwned, SkillTypeOK, CommandType
  <2> QED BY <2>1, <2>2, NamesDiffer DEF OnFile
<1>7. CopiesAreKept'
  <2>1. Copied(entry') = Copied(entry)
    BY <1>1, <1>2, KindsDiffer DEF Copied, SkillTypeOK
  <2> QED BY <1>1, <2>1 DEF CopiesAreKept, Copied
<1> QED BY <1>3, <1>4, <1>5, <1>6, <1>7 DEF SkillInv

LEMMA UnlinkKeeps ==
    ASSUME SkillInv, Unlink
    PROVE  SkillInv'
<1>1. /\ SkillTypeOK /\ VerbFits /\ command.at = "uninstall" /\ command.todo # <<>>
      /\ command \in CommandType /\ UNCHANGED <<folder, manifest, backups, checkouts, copies>>
  BY DEF SkillInv, Unlink, SkillTypeOK
<1>2. PICK f \in Folder : f = Visited
  BY <1>1, HeadTailProperties DEF CommandType, Visited
<1>3. Tail(command.todo) \in Seq(Folder)
  BY <1>1, HeadTailProperties DEF CommandType
<1>4. CASE (Reports("skipped") \/ Reports("failed")) /\ UNCHANGED entry
  <2>1. CASE Reports("skipped")
    BY <1>1, <1>4, <2>1, SkipKeeps
  <2>2. CASE Reports("failed")
    BY <1>1, <1>4, <2>2, SkipKeeps
  <2> QED BY <1>4, <2>1, <2>2
<1>5. CASE /\ \/ command' = [command EXCEPT !.todo = Tail(@), !.owned[f] = Unrecorded]
              \/ command' = [command EXCEPT !.todo = Tail(@), !.owned[f] = Unrecorded,
                                            !.report = @ \cup {[at |-> f, as |-> "removed"]}]
           /\ \/ UNCHANGED entry
              \/ entry' = [entry EXCEPT ![f] = No] /\ stillOwned(command.owned, f)
  <2>1. [command.owned EXCEPT ![f] = Unrecorded] \in OnFile
    BY <1>1 DEF CommandType, OnFile
  <2>2. command.report \cup {[at |-> f, as |-> "removed"]} \in SUBSET Turn
    BY <1>1 DEF CommandType, Turn
  <2>3. PICK to \in CommandType :
          /\ command' = to /\ to.at = "uninstall" /\ to.verb = command.verb
          /\ to.owned = [command.owned EXCEPT ![f] = Unrecorded]
    BY <1>1, <1>3, <1>5, <2>1, <2>2 DEF CommandType
  <2>4. stillOwned(command.owned, f) => entry[f].is = "link"
    BY KindsDiffer DEF stillOwned, Seen
  <2> QED BY <1>1, <1>5, <2>3, <2>4, DropKeeps
<1> QED BY <1>2, <1>4, <1>5 DEF Unlink

LEMMA SkillInvStep == SkillInv /\ [SkillNext]_skillVars => SkillInv'
<1> SUFFICES ASSUME SkillInv, [SkillNext]_skillVars PROVE SkillInv'
  OBVIOUS
<1>1. CASE UNCHANGED skillVars
  BY <1>1 DEF skillVars, SkillInv, SkillTypeOK, VerbFits, UnmadeAreEmpty, TurnHolds, NothingElseIsOwned,
              ArrivalsHold, Arrives, Points, Target, Visited, CopiesAreKept
<1>2. CASE \E from \in Checkout, environment \in Environments :
             InstallSkill(from, environment) \/ UninstallSkill(from, environment)
  BY <1>2, BeginKeeps
<1>3. CASE Clear
  BY <1>3, ClearKeeps
<1>4. CASE Record
  BY <1>4, RecordKeeps
<1>5. CASE Make
  BY <1>5, MakeKeeps
<1>6. CASE Fails
  BY <1>6, SkipKeeps DEF Fails
<1>7. CASE Unlink
  BY <1>7, UnlinkKeeps
<1>8. CASE FinishCommand \/ Stops
  BY <1>8, FinishesKeep
<1>9. CASE OwnerEdits
  BY <1>9, EditsKeep
<1> QED BY <1>1, <1>2, <1>3, <1>4, <1>5, <1>6, <1>7, <1>8, <1>9 DEF SkillNext

\* What holds of each step of a command: it leaves alone what is not on record.
StaysPut ==
    command.at # "done" =>
      \A f \in Folder : entry[f].by = "owner" /\ ~OnRecord(f) =>
                          entry'[f] = entry[f] \/ entry[f] = Copy

LEMMA StepsLeaveAlone == SkillInv /\ [SkillNext]_skillVars => StaysPut
<1> SUFFICES ASSUME SkillInv, SkillNext, command.at # "done", NEW g \in Folder,
                    entry[g].by = "owner", ~OnRecord(g), entry' # entry
             PROVE  entry'[g] = entry[g] \/ entry[g] = Copy
  BY DEF StaysPut, skillVars
<1>1. /\ SkillTypeOK /\ entry[g] \in EntryKind /\ entry[g] # No
      /\ entry \in [Folder -> EntryKind]
  BY KindsDiffer DEF SkillInv, SkillTypeOK
<1>2. Clear \/ Make \/ Unlink
  BY DEF SkillNext, InstallSkill, UninstallSkill, Record, Fails, FinishCommand, Stops, OwnerEdits
<1>3. command.todo # <<>>
  BY <1>2 DEF Clear, Make, Unlink, SkillInv, TurnHolds
<1>4. PICK f \in Folder : f = Visited
  BY <1>1, <1>3, HeadTailProperties DEF SkillTypeOK, CommandType, Visited
<1>5. f = g /\ folder[g] = "open" /\ entry[g].is = "link" => command.owned[g] # entry[g].to
  BY DEF SkillInv, NothingElseIsOwned, OnRecord
<1>6. CASE Clear
  <2>1. Untouched \/ CopyGone \/ LinkGone
    BY <1>6, LooksAre
  <2> QED BY <1>1, <1>4, <1>5, <2>1 DEF Untouched, CopyGone, LinkGone
<1>7. CASE Make
  <2>1. folder[f] \in {"none", "open"} => entry[f] = No
    BY <1>4, <1>7 DEF Make, SkillInv, TurnHolds
  <2>2. /\ folder[f] \in {"none", "open"}
        /\ entry' = [entry EXCEPT ![f] = Link(Target(f, command.from), "oo")]
    BY <1>4, <1>7 DEF Make
  <2>3. f # g
    BY <1>1, <2>1, <2>2
  <2> QED BY <1>1, <2>2, <2>3
<1>8. CASE Unlink
  <2>1. stillOwned(command.owned, f) /\ ~Unreadable(f) /\ entry' = [entry EXCEPT ![f] = No]
    BY <1>4, <1>8 DEF Unlink
  <2>2. f # g
    <3>1. Seen(f).is = "link" => folder[f] = "open" /\ Seen(f) = entry[f]
      BY KindsDiffer DEF Seen
    <3> QED BY <1>5, <2>1, <3>1 DEF stillOwned
  <2> QED BY <1>1, <2>1, <2>2
<1> QED BY <1>2, <1>6, <1>7, <1>8

\* A command that links the skill, or takes the links away, leaves what others put into
\* the folders alone, keeps every copy it moved, and reports a link only where an agent
\* arrives (installSkillLinks, uninstallSkillLinks), for any folders and checkouts, any
\* number of commands, failures and changes by the owner.
THEOREM SkillsStayKept == SkillSpec => SkillsAreKept
<1>1. SkillInv => CopiesAreKept /\ ReportsAreTrue
  <2> SUFFICES ASSUME SkillInv PROVE CopiesAreKept /\ ReportsAreTrue
    OBVIOUS
  <2>1. CopiesAreKept
    BY DEF SkillInv
  <2>2. ASSUME command.verb = "install", NEW r \in command.report, r.as \in {"linked", "already-linked"}
        PROVE  Resolved(r.at) = command.from
    <3>1. SkillTypeOK /\ command.from \in checkouts /\ Arrives(r.at) /\ r.at \in Folder
      BY <2>2 DEF SkillInv, VerbFits, ArrivalsHold, SkillTypeOK, CommandType, Turn
    <3> QED BY <3>1, ArrivingResolves DEF Arrives
  <2> QED BY <2>1, <2>2 DEF ReportsAreTrue
<1>2. SkillInv /\ [SkillNext]_skillVars => SkillInv'
  BY SkillInvStep
<1>3. SkillInv /\ [SkillNext]_skillVars => [StaysPut]_skillVars
  BY StepsLeaveAlone
<1>4. SkillsAreKept <=> [][StaysPut]_skillVars /\ [](CopiesAreKept /\ ReportsAreTrue)
  BY DEF SkillsAreKept, OwnersEntriesStay, StaysPut
<1> QED BY SkillInvInit, <1>1, <1>2, <1>3, <1>4, PTL DEF SkillSpec

-----------------------------------------------------------------------------
(* The connections of a client while daemons replace one another.         *)

\* A request or a subscription that is under way runs over an open connection.
OpenOnes ==
    /\ \A r \in GatewayRequest :
          UnderWay(r) => call[r].on \in Connection /\ conn[call[r].on] = "open"
    /\ \A s \in Subscription :
          feed[s].at # "none" => feed[s].on \in Connection /\ conn[feed[s].on] = "open"

\* What is not in use yet has met no daemon.
NewOnesAreUnspoilt ==
    \A c \in Connection : conn[c] = "new" => targetInfo[c] = 0 /\ c \notin refused

\* The stream is asked of a daemon as new as the one the connection had then.
StreamsLookAhead == \A s \in Subscription : feed[s].before <= feed[s].event

\* By its type, nothing that is known of a daemon is newer than the last that wrote
\* its record, which is the one that is found next, if any is.
ConnInv == ConnTypeOK /\ MemoIsFresh /\ OpenOnes /\ NewOnesAreUnspoilt /\ StreamsLookAhead

LEMMA ConnInvInit == ConnInit => ConnInv
<1> SUFFICES ASSUME ConnInit PROVE ConnInv
  OBVIOUS
<1> USE ConnectionsAssumption DEF ConnInit, Quiet, Silent
<1>1. ConnTypeOK
  BY DEF ConnTypeOK
<1>2. MemoIsFresh /\ NewOnesAreUnspoilt
  BY DEF MemoIsFresh, NewOnesAreUnspoilt
<1>3. OpenOnes /\ StreamsLookAhead
  BY DEF OpenOnes, UnderWay, StreamsLookAhead
<1> QED BY <1>1, <1>2, <1>3 DEF ConnInv

\* What a daemon does leaves the client as it is, and its number is the newest.
LEMMA DaemonsKeepConnInv ==
    ASSUME ConnInv, Daemons
    PROVE  ConnInv'
<1> USE ConnectionsAssumption DEF Daemons, Begin, WriteRecord, End, EraseRecord
<1>0. UNCHANGED <<conn, targetInfo, memo, refused, call, feed>> /\ newest' \in {newest, newest + 1}
  OBVIOUS
<1>1. newest' \in 0..MaxDaemons /\ serving' \in {0, newest'}
  BY DEF ConnInv, ConnTypeOK
<1>2. written' \in 0..newest' /\ recorded' \in {0, written'} /\ written <= written'
  BY DEF ConnInv, ConnTypeOK
<1>3. 0..written \subseteq 0..written'
  BY <1>2 DEF ConnInv, ConnTypeOK
<1>4. ConnTypeOK'
  BY <1>0, <1>1, <1>2, <1>3 DEF ConnInv, ConnTypeOK
<1>5. MemoIsFresh' /\ OpenOnes' /\ NewOnesAreUnspoilt' /\ StreamsLookAhead'
  BY <1>0 DEF ConnInv, MemoIsFresh, OpenOnes, UnderWay, NewOnesAreUnspoilt, StreamsLookAhead
<1> QED BY <1>4, <1>5 DEF ConnInv

\* A connection that opens meets the daemon of the record; one that is rejected is nobody's.
LEMMA ConnectsKeepConnInv ==
    ASSUME ConnInv, NEW c \in Connection, Connects(c)
    PROVE  ConnInv'
<1> USE ConnectionsAssumption DEF Connects, Resolve, Probe, Opens, Rejects, Forget, world
<1>1. UNCHANGED <<newest, serving, written, recorded, refused, call, feed>>
  OBVIOUS
<1>2. /\ conn[c] # "open"
      /\ conn' = [conn EXCEPT ![c] = conn'[c]] 
      /\ conn'[c] \in {"connecting", "probed", "open", "rejected"}
  BY DEF ConnInv, ConnTypeOK
<1>3. \/ UNCHANGED targetInfo
      \/ targetInfo' = [targetInfo EXCEPT ![c] = recorded]
  OBVIOUS
<1>4. memo' \in {memo, c, NoConnection}
  OBVIOUS
<1>5. ConnTypeOK'
  BY <1>1, <1>2, <1>3, <1>4 DEF ConnInv, ConnTypeOK
<1>6. MemoIsFresh'
  BY DEF ConnInv, ConnTypeOK, MemoIsFresh, NewOnesAreUnspoilt
<1>7. OpenOnes' /\ NewOnesAreUnspoilt'
  BY <1>1, <1>2 DEF ConnInv, ConnTypeOK, OpenOnes, UnderWay, NewOnesAreUnspoilt
<1>8. StreamsLookAhead'
  BY <1>1 DEF ConnInv, StreamsLookAhead
<1> QED BY <1>5, <1>6, <1>7, <1>8 DEF ConnInv

\* The target a connection is left with: its own, or the one that was discovered.
LEMMA Adoption ==
    ASSUME ConnTypeOK, NEW c \in Connection, NEW requested, NEW discovered \in 0..written,
           adoptDiscoveredTarget(c, requested, discovered)
    PROVE  /\ targetInfo' \in [Connection -> 0..written]
           /\ \A d \in Connection : targetInfo'[d] # targetInfo[d] =>
                 d = c /\ targetInfo[d] = requested /\ targetInfo'[d] = discovered
BY DEF ConnTypeOK, adoptDiscoveredTarget

\* A connection that met a daemon it could not use is not the one callers get.
LEMMA UnavailableIsForgotten ==
    ASSUME ConnInv, NEW c \in Connection, conn[c] = "open", UNCHANGED conn,
           Unavailable(c) \/ UNCHANGED <<memo, refused>>
    PROVE  /\ memo' \in Connection \cup {NoConnection} /\ refused' \subseteq Connection
           /\ MemoIsFresh' /\ \A d \in Connection : conn[d] = "new" => d \notin refused'
           /\ memo' # memo => memo' = NoConnection /\ memo \in refused'
BY ConnectionsAssumption
   DEF ConnInv, ConnTypeOK, MemoIsFresh, NewOnesAreUnspoilt, Unavailable, Forget

\* A request is answered, given up, or asked once more of the daemon of the record.
RequestGoesOn(r) ==
    /\ UNCHANGED <<newest, serving, written, recorded, conn, feed>>
    /\ call[r].on \in Connection /\ conn[call[r].on] = "open"
    /\ Unavailable(call[r].on) \/ UNCHANGED <<memo, refused>>
    /\ \/ Over(r) /\ UNCHANGED targetInfo
       \/ recorded # 0 /\ \E stage \in {"replayed", "last"} : AskNext(r, stage)

LEMMA RequestsGoOn ==
    ASSUME ConnInv, NEW r \in GatewayRequest, Concludes(r)
    PROVE  RequestGoesOn(r)
<1>1. UnderWay(r) /\ UNCHANGED <<newest, serving, written, recorded, conn, feed>>
  BY DEF Concludes, CallAnswered, TransportFails, Unauthorized, world
<1>2. call[r].on \in Connection /\ conn[call[r].on] = "open"
  BY <1>1 DEF ConnInv, OpenOnes
<1>3. Unavailable(call[r].on) \/ UNCHANGED <<memo, refused>>
  BY DEF Concludes, CallAnswered, TransportFails, Unauthorized
<1>4. \/ Over(r) /\ UNCHANGED targetInfo
      \/ recorded # 0 /\ \E stage \in {"replayed", "last"} : AskNext(r, stage)
  BY DEF Concludes, CallAnswered, TransportFails, Unauthorized, Discovers
<1> QED BY <1>1, <1>2, <1>3, <1>4 DEF RequestGoesOn

LEMMA ConcludesKeepsConnInv ==
    ASSUME ConnInv, NEW r \in GatewayRequest, Concludes(r)
    PROVE  ConnInv'
<1> DEFINE c == call[r].on
<1>0. ConnTypeOK /\ recorded \in 0..written
  BY DEF ConnInv, ConnTypeOK
<1>1. /\ UNCHANGED <<newest, serving, written, recorded, conn, feed>>
      /\ c \in Connection /\ conn[c] = "open"
      /\ Unavailable(c) \/ UNCHANGED <<memo, refused>>
      /\ \/ Over(r) /\ UNCHANGED targetInfo
         \/ recorded # 0 /\ \E stage \in {"replayed", "last"} : AskNext(r, stage)
  BY RequestsGoOn DEF RequestGoesOn
<1>2. /\ memo' \in Connection \cup {NoConnection} /\ refused' \subseteq Connection
      /\ MemoIsFresh' /\ \A d \in Connection : conn[d] = "new" => d \notin refused'
  BY <1>1, UnavailableIsForgotten
<1>3. /\ targetInfo' \in [Connection -> 0..written]
      /\ \A d \in Connection : targetInfo'[d] # targetInfo[d] => d = c
  BY <1>0, <1>1, Adoption DEF AskNext, ConnTypeOK
<1>4. /\ call' \in [GatewayRequest -> [at : {"idle", "sent", "replayed", "last"},
                                       on : Connection \cup {NoConnection}, asked : 0..written]]
      /\ \A q \in GatewayRequest : call'[q] # call[q] => q = r
      /\ call'[r] = Quiet \/ (call'[r].on = c /\ call'[r].asked = recorded)
  <2>1. CASE Over(r)
    BY <1>0, <2>1 DEF Over, Quiet, ConnTypeOK
  <2>2. CASE \E stage \in {"replayed", "last"} : AskNext(r, stage)
    BY <1>0, <2>2 DEF AskNext, ConnTypeOK
  <2> QED BY <1>1, <2>1, <2>2
<1>5. ConnTypeOK'
  BY <1>0, <1>1, <1>2, <1>3, <1>4 DEF ConnTypeOK
<1>6. OpenOnes'
  <2>1. ASSUME NEW q \in GatewayRequest, UnderWay(q)'
        PROVE  call'[q].on \in Connection /\ conn'[call'[q].on] = "open"
    BY <1>1, <1>4, <2>1 DEF ConnInv, OpenOnes, UnderWay, Quiet
  <2>2. \A s \in Subscription :
           feed'[s].at # "none" => feed'[s].on \in Connection /\ conn'[feed'[s].on] = "open"
    BY <1>1 DEF ConnInv, OpenOnes
  <2> QED BY <2>1, <2>2 DEF OpenOnes
<1>7. StreamsLookAhead'
  BY <1>1 DEF ConnInv, StreamsLookAhead
<1>8. NewOnesAreUnspoilt'
  BY <1>1, <1>2, <1>3 DEF ConnInv, NewOnesAreUnspoilt
<1> QED BY <1>2, <1>5, <1>6, <1>7, <1>8 DEF ConnInv

LEMMA AskingKeepsConnInv ==
    ASSUME ConnInv, NEW r \in GatewayRequest, NEW c \in Connection, AskGateway(r, c)
    PROVE  ConnInv'
<1> USE DEF AskGateway, world
<1>1. ConnTypeOK'
  BY DEF ConnInv, ConnTypeOK
<1>2. MemoIsFresh' /\ NewOnesAreUnspoilt' /\ StreamsLookAhead'
  BY DEF ConnInv, MemoIsFresh, NewOnesAreUnspoilt, StreamsLookAhead
<1>3. OpenOnes'
  BY DEF ConnInv, ConnTypeOK, OpenOnes, UnderWay
<1> QED BY <1>1, <1>2, <1>3 DEF ConnInv

\* A subscription moves on, is told where to ask, or moves its connection.
Looks(s, stage) ==
    /\ recorded # 0
    /\ feed' = [feed EXCEPT
                  ![s] = [at |-> stage, on |-> @.on,
                          before |-> targetInfo[@.on], event |-> recorded]]
StreamGoesOn(s) ==
    /\ UNCHANGED <<newest, serving, written, recorded, conn, call>>
    /\ feed[s].on \in Connection /\ conn[feed[s].on] = "open"
    /\ Unavailable(feed[s].on) \/ UNCHANGED <<memo, refused>>
    /\ \/ UNCHANGED targetInfo
       \/ adoptDiscoveredTarget(feed[s].on, feed[s].before, feed[s].event)
    /\ \E stage \in {"due", "fetching", "accepted", "attached", "sleeping"} :
          StreamMoves(s, stage) \/ Looks(s, stage)

LEMMA ListensGoOn ==
    ASSUME ConnInv, NEW s \in Subscription, Listens(s)
    PROVE  StreamGoesOn(s)
<1> USE DEF Listens, Look, Accepted, Attach, StreamRefused, StreamEnds, Wake, world
<1>1. feed[s].at # "none" /\ UNCHANGED <<newest, serving, written, recorded, conn, call>>
  OBVIOUS
<1>2. feed[s].on \in Connection /\ conn[feed[s].on] = "open"
  BY <1>1 DEF ConnInv, OpenOnes
<1>3. Unavailable(feed[s].on) \/ UNCHANGED <<memo, refused>>
  OBVIOUS
<1>4. \/ UNCHANGED targetInfo
      \/ adoptDiscoveredTarget(feed[s].on, feed[s].before, feed[s].event)
  OBVIOUS
<1>5. \E stage \in {"due", "fetching", "accepted", "attached", "sleeping"} :
         StreamMoves(s, stage) \/ Looks(s, stage)
  BY DEF Looks
<1> QED BY <1>1, <1>2, <1>3, <1>4, <1>5 DEF StreamGoesOn

LEMMA ListensKeepsConnInv ==
    ASSUME ConnInv, NEW s \in Subscription, Listens(s)
    PROVE  ConnInv'
<1> DEFINE c == feed[s].on
<1> DEFINE Stages == {"due", "fetching", "accepted", "attached", "sleeping"}
<1>0. /\ ConnTypeOK /\ StreamsLookAhead /\ recorded \in {0, written} /\ written \in Nat
      /\ feed[s].event \in 0..written /\ feed[s].before \in 0..written
  BY DEF ConnInv, ConnTypeOK
<1>1. /\ UNCHANGED <<newest, serving, written, recorded, conn, call>>
      /\ c \in Connection /\ conn[c] = "open"
      /\ Unavailable(c) \/ UNCHANGED <<memo, refused>>
      /\ \/ UNCHANGED targetInfo
         \/ adoptDiscoveredTarget(c, feed[s].before, feed[s].event)
      /\ \E stage \in Stages : StreamMoves(s, stage) \/ Looks(s, stage)
  BY ListensGoOn DEF StreamGoesOn
<1>2. /\ memo' \in Connection \cup {NoConnection} /\ refused' \subseteq Connection
      /\ MemoIsFresh' /\ \A d \in Connection : conn[d] = "new" => d \notin refused'
  BY <1>1, UnavailableIsForgotten
<1>3. /\ targetInfo' \in [Connection -> 0..written]
      /\ \A d \in Connection : targetInfo'[d] # targetInfo[d] => d = c
  BY <1>0, <1>1, Adoption DEF ConnTypeOK
<1>4. targetInfo[c] \in 0..written
  BY <1>0, <1>1 DEF ConnTypeOK
<1>5. PICK stage \in Stages : StreamMoves(s, stage) \/ Looks(s, stage)
  BY <1>1
<1>6. /\ feed' \in [Subscription ->
                      [at : {"none", "due", "fetching", "accepted", "attached", "sleeping", "stopped"},
                       on : Connection \cup {NoConnection}, before : 0..written, event : 0..written]]
      /\ \A q \in Subscription : q # s => feed'[q] = feed[q]
      /\ feed'[s].on = c /\ feed'[s].before <= feed'[s].event
  <2>1. CASE StreamMoves(s, stage)
    BY <1>0, <2>1 DEF StreamMoves, ConnTypeOK, StreamsLookAhead
  <2>2. CASE Looks(s, stage)
    BY <1>0, <1>4, <2>2 DEF Looks, ConnTypeOK
  <2> QED BY <1>5, <2>1, <2>2
<1>7. ConnTypeOK'
  BY <1>0, <1>1, <1>2, <1>3, <1>6 DEF ConnTypeOK
<1>8. OpenOnes'
  <2>1. \A r \in GatewayRequest :
           UnderWay(r)' => call'[r].on \in Connection /\ conn'[call'[r].on] = "open"
    BY <1>1 DEF ConnInv, OpenOnes, UnderWay
  <2>2. \A q \in Subscription :
           feed'[q].at # "none" => feed'[q].on \in Connection /\ conn'[feed'[q].on] = "open"
    BY <1>1, <1>6 DEF ConnInv, OpenOnes
  <2> QED BY <2>1, <2>2 DEF OpenOnes
<1>9. StreamsLookAhead'
  BY <1>0, <1>6 DEF StreamsLookAhead
<1>10. NewOnesAreUnspoilt'
  BY <1>1, <1>2, <1>3 DEF ConnInv, NewOnesAreUnspoilt
<1> QED BY <1>2, <1>7, <1>8, <1>9, <1>10 DEF ConnInv

\* A subscription is made over an open connection, and may stop at any time.
LEMMA SubscribingKeepsConnInv ==
    ASSUME ConnInv,
           \/ \E s \in Subscription : Unsubscribe(s) \/ \E c \in Connection : Subscribe(s, c)
           \/ \E c \in Connection : CloseConnection(c)
    PROVE  ConnInv'
<1>1. UNCHANGED <<newest, serving, written, recorded, conn, targetInfo, memo, refused, call>>
  BY DEF Unsubscribe, Subscribe, CloseConnection, world
<1>2. /\ feed' \in [Subscription ->
                      [at : {"none", "due", "fetching", "accepted", "attached", "sleeping", "stopped"},
                       on : Connection \cup {NoConnection}, before : 0..written, event : 0..written]]
      /\ \A s \in Subscription :
            /\ feed'[s].before = feed[s].before /\ feed'[s].event = feed[s].event
            /\ \/ feed'[s].at # "none" => feed'[s].on = feed[s].on /\ feed[s].at # "none"
               \/ feed'[s].on \in Connection /\ conn[feed'[s].on] = "open"
  <2>1. CASE \E s \in Subscription : Unsubscribe(s)
    BY <2>1 DEF Unsubscribe, StreamMoves, ConnInv, ConnTypeOK
  <2>2. CASE \E s \in Subscription, c \in Connection : Subscribe(s, c)
    BY <2>2 DEF Subscribe, ConnInv, ConnTypeOK
  <2>3. CASE \E c \in Connection : CloseConnection(c)
    BY <2>3, ConnectionsAssumption DEF CloseConnection, ConnInv, ConnTypeOK, OpenOnes
  <2> QED BY <2>1, <2>2, <2>3
<1>3. ConnTypeOK'
  BY <1>1, <1>2 DEF ConnInv, ConnTypeOK
<1>4. OpenOnes'
  BY <1>1, <1>2 DEF ConnInv, OpenOnes, UnderWay
<1>5. MemoIsFresh' /\ NewOnesAreUnspoilt'
  BY <1>1 DEF ConnInv, MemoIsFresh, NewOnesAreUnspoilt
<1>6. StreamsLookAhead'
  BY <1>1, <1>2 DEF ConnInv, StreamsLookAhead
<1> QED BY <1>3, <1>4, <1>5, <1>6 DEF ConnInv

LEMMA ConnInvStep == ConnInv /\ [ConnNext]_connVars => ConnInv'
<1> SUFFICES ASSUME ConnInv, [ConnNext]_connVars PROVE ConnInv'
  OBVIOUS
<1>1. CASE Daemons
  BY <1>1, DaemonsKeepConnInv
<1>2. CASE \E c \in Connection : Connects(c)
  BY <1>2, ConnectsKeepConnInv
<1>3. CASE \E r \in GatewayRequest : Concludes(r)
  BY <1>3, ConcludesKeepsConnInv
<1>4. CASE \E r \in GatewayRequest, c \in Connection : AskGateway(r, c)
  BY <1>4, AskingKeepsConnInv
<1>5. CASE \E s \in Subscription : Listens(s)
  BY <1>5, ListensKeepsConnInv
<1>6. CASE \/ \E s \in Subscription : Unsubscribe(s) \/ \E c \in Connection : Subscribe(s, c)
           \/ \E c \in Connection : CloseConnection(c)
  BY <1>6, SubscribingKeepsConnInv
<1>7. CASE UNCHANGED connVars
  BY <1>7 DEF connVars, ConnInv, ConnTypeOK, MemoIsFresh, OpenOnes, UnderWay,
              NewOnesAreUnspoilt, StreamsLookAhead
<1> QED BY <1>1, <1>2, <1>3, <1>4, <1>5, <1>6, <1>7 DEF ConnNext

\* The connection callers share changes hands only as GivenUpForItself has it.
LEMMA MemoStep ==
    ASSUME ConnInv, [ConnNext]_connVars, memo # NoConnection, memo' # memo
    PROVE  memo' = NoConnection /\ (memo \in refused' \/ conn'[memo] = "rejected")
<1>1. CASE \E c \in Connection : Connects(c)
  BY <1>1 DEF Connects, Resolve, Probe, Opens, Rejects, Forget, ConnInv, ConnTypeOK
<1>2. ASSUME NEW r \in GatewayRequest, Concludes(r)
      PROVE  memo' = NoConnection /\ memo \in refused'
  BY <1>2, RequestsGoOn, UnavailableIsForgotten DEF RequestGoesOn
<1>3. ASSUME NEW s \in Subscription, Listens(s)
      PROVE  memo' = NoConnection /\ memo \in refused'
  BY <1>3, ListensGoOn, UnavailableIsForgotten DEF StreamGoesOn
<1>4. CASE \/ Daemons
           \/ \E c \in Connection : CloseConnection(c)
           \/ \E r \in GatewayRequest, c \in Connection : AskGateway(r, c)
           \/ \E s \in Subscription : Unsubscribe(s) \/ \E c \in Connection : Subscribe(s, c)
           \/ UNCHANGED connVars
  BY <1>4 DEF Daemons, Begin, WriteRecord, End, EraseRecord, CloseConnection, AskGateway,
              Unsubscribe, Subscribe, connVars
<1> QED BY <1>1, <1>2, <1>3, <1>4 DEF ConnNext

\* No step takes a connection back to an earlier daemon.
LEMMA TargetsStep ==
    ASSUME ConnInv, [ConnNext]_connVars, NEW c \in Connection
    PROVE  targetInfo[c] <= targetInfo'[c]
<1>0. /\ ConnTypeOK /\ NewOnesAreUnspoilt /\ written \in Nat /\ recorded \in {0, written}
      /\ targetInfo[c] \in 0..written
  BY DEF ConnInv, ConnTypeOK
<1>1. CASE UNCHANGED targetInfo
  BY <1>0, <1>1
<1>2. ASSUME NEW d \in Connection, Connects(d)
      PROVE  targetInfo[c] <= targetInfo'[c]
  <2>1. \/ UNCHANGED targetInfo
        \/ /\ recorded # 0 \/ targetInfo[d] = 0
           /\ targetInfo' = [targetInfo EXCEPT ![d] = recorded]
    BY <1>0, <1>2 DEF Connects, Resolve, Probe, Opens, Rejects, Discovers, NewOnesAreUnspoilt
  <2> QED BY <1>0, <2>1 DEF ConnTypeOK
<1>3. ASSUME NEW r \in GatewayRequest, Concludes(r)
      PROVE  targetInfo[c] <= targetInfo'[c]
  <2>1. CASE recorded # 0 /\ adoptDiscoveredTarget(call[r].on, call[r].asked, recorded)
    <3>1. call[r].on \in Connection /\ targetInfo[c] <= recorded
      BY <1>0, <1>3, <2>1, RequestsGoOn DEF RequestGoesOn
    <3> QED BY <1>0, <2>1, <3>1, Adoption
  <2> QED BY <1>1, <1>3, <2>1, RequestsGoOn DEF RequestGoesOn, AskNext
<1>4. ASSUME NEW s \in Subscription, Listens(s)
      PROVE  targetInfo[c] <= targetInfo'[c]
  <2>1. CASE adoptDiscoveredTarget(feed[s].on, feed[s].before, feed[s].event)
    <3>1. /\ feed[s].on \in Connection /\ feed[s].before <= feed[s].event
          /\ feed[s].event \in 0..written
      BY <1>4, ListensGoOn DEF StreamGoesOn, ConnInv, ConnTypeOK, StreamsLookAhead
    <3> QED BY <1>0, <2>1, <3>1, Adoption
  <2> QED BY <1>1, <1>4, <2>1, ListensGoOn DEF StreamGoesOn
<1>5. CASE \/ Daemons
           \/ \E d \in Connection : CloseConnection(d)
           \/ \E r \in GatewayRequest, d \in Connection : AskGateway(r, d)
           \/ \E s \in Subscription : Unsubscribe(s) \/ \E d \in Connection : Subscribe(s, d)
           \/ UNCHANGED connVars
  BY <1>1, <1>5 DEF Daemons, Begin, WriteRecord, End, EraseRecord, CloseConnection, AskGateway,
                    Unsubscribe, Subscribe, connVars
<1> QED BY <1>2, <1>3, <1>4, <1>5 DEF ConnNext

\* Callers get a connection that met no daemon it could not use, lose it only for a
\* failure of its own, and none goes back to an earlier daemon, whichever answers come
\* late (resolveBackend, adoptDiscoveredTarget), for any number of daemons,
\* connections, requests and subscriptions.
THEOREM ConnectionsStaySound == ConnSpec => ConnectionsAreSound
<1>1. ConnInv => ConnTypeOK /\ MemoIsFresh
  BY DEF ConnInv
<1>2. ConnInv /\ [ConnNext]_connVars =>
         [memo # NoConnection /\ memo' # memo =>
             memo' = NoConnection /\ (memo \in refused' \/ conn'[memo] = "rejected")]_connVars
  BY MemoStep
<1>3. ConnInv /\ [ConnNext]_connVars =>
         [\A c \in Connection : targetInfo[c] <= targetInfo'[c]]_connVars
  BY TargetsStep
<1> QED BY ConnInvInit, ConnInvStep, <1>1, <1>2, <1>3, PTL
        DEF ConnSpec, ConnectionsAreSound, GivenUpForItself, TargetsMoveOn

\* The composition a run checks: where only setup runs, its invariant holds.
LEMMA SetupRunsAlone ==
    ASSUME part = "setup" => SetupInv, [HomeNext]_<<part, homeVars, setupVars, scanVars, skillVars>>
    PROVE  (part = "setup" => SetupInv)'
<1>1. CASE part = "setup" /\ SetupNext /\ part' = part
  BY <1>1, SetupInvStep
<1>2. CASE part' = part /\ part # "setup"
  BY <1>2
<1>3. CASE UNCHANGED <<part, homeVars, setupVars, scanVars, skillVars>>
  <2>1. UNCHANGED <<homeVars, setupVars>> /\ part' = part
    BY <1>3
  <2>2. SetupInv => SetupInv'
    BY <2>1, SetupInvStep
  <2> QED BY <2>1, <2>2
<1> QED BY <1>1, <1>2, <1>3 DEF HomeNext

\* Setup keeps its promises in the composition of the owner's files as well (SetupIsKept).
THEOREM SetupStaysKept == HomeSpec => []SetupIsKept
<1>1. HomeInit => (part = "setup" => SetupInv)
  <2> SUFFICES ASSUME HomeInit, part = "setup" PROVE SetupStart
    BY SetupInvInit
  <2>1. HomeTypeOK /\ SetupInit /\ hosts \in {{}, HostRoots} /\ (marker.catalogCurrent <=> hosts # {})
    BY DEF HomeInit
  <2> QED BY <2>1 DEF SetupStart
<1>2. (part = "setup" => SetupInv) => SetupIsKept
  <2>1. SetupInv => SetupHolds
    BY GuardKeepsOut DEF SetupInv, SetupTypeOK, SetupHolds
  <2> QED BY <2>1 DEF SetupIsKept
<1> QED BY <1>1, <1>2, SetupRunsAlone, PTL DEF HomeSpec

-----------------------------------------------------------------------------
(* From transcripts to rows: what the reading of a transcript depends on.  *)

\* A nonempty set of natural numbers has a least element, and a bounded one a greatest.
LEMMA LeastNumber ==
    ASSUME NEW S, S \subseteq Nat, S # {}
    PROVE  \E m \in S : \A k \in S : m <= k
<1> DEFINE R == OpToRel(<, Nat)
<1>1. \A x, y \in Nat : <<x, y>> \in R <=> x < y
  BY DEF OpToRel
<1>2. IsWellFoundedOn(R, Nat)
  BY NatLessThanWellFounded
<1> HIDE DEF R
<1>3. PICK x \in S : \A y \in S : <<y, x>> \notin R
  BY <1>2, WFMin
<1>4. ASSUME NEW y \in S PROVE x <= y
  <2>1. x \in Nat /\ y \in Nat /\ ~(y < x)
    BY <1>1, <1>3
  <2> QED BY <2>1
<1> QED BY <1>4

LEMMA GreatestOf ==
    ASSUME NEW S, S \subseteq Nat, S # {}, NEW n \in Nat, \A i \in S : i <= n
    PROVE  Max(S) \in S /\ \A j \in S : j <= Max(S)
<1> DEFINE Above == {u \in Nat : \A i \in S : i <= u}
<1>1. PICK m \in Above : \A u \in Above : m <= u
  <2>1. Above \subseteq Nat /\ n \in Above
    OBVIOUS
  <2> HIDE DEF Above
  <2> QED BY <2>1, LeastNumber
<1>2. m \in Nat /\ \A i \in S : i \in Nat /\ i <= m
  BY <1>1
<1>3. m \in S
  <2> SUFFICES ASSUME m \notin S PROVE FALSE
    OBVIOUS
  <2>1. ASSUME NEW i \in S PROVE i <= m - 1
    <3>1. i \in Nat /\ m \in Nat /\ i <= m /\ i # m
      BY <1>2
    <3> QED BY <3>1
  <2>2. m # 0
    <3>1. PICK i \in S : TRUE
      OBVIOUS
    <3>2. i \in Nat /\ i <= m /\ i # m
      BY <1>2
    <3> QED BY <3>2
  <2>3. m - 1 \in Above
    BY <1>2, <2>1, <2>2
  <2>4. m <= m - 1
    BY <1>1, <2>3
  <2> QED BY <1>2, <2>4
<1>4. \E x \in S : \A y \in S : x >= y
  BY <1>2, <1>3
<1>5. Max(S) \in S /\ \A y \in S : Max(S) >= y
  BY <1>4 DEF Max
<1>6. Max(S) \in Nat
  BY <1>2, <1>5
<1> HIDE DEF Max
<1> QED BY <1>2, <1>5, <1>6

LEMMA LeastOf ==
    ASSUME NEW S, S \subseteq Nat, S # {}
    PROVE  Min(S) \in S
<1>1. \E m \in S : \A k \in S : m =< k
  BY LeastNumber
<1> QED BY <1>1 DEF Min

\* The greatest of two bounded sets that have the same elements where it counts.
LEMMA SameGreatest ==
    ASSUME NEW S, S \subseteq Nat, NEW n \in Nat, \A i \in S : i <= n, NEW m \in S, \A j \in S : j <= m
    PROVE  Max(S) = m
<1>1. Max(S) \in S /\ \A j \in S : j <= Max(S)
  BY GreatestOf
<1>2. m \in Nat /\ Max(S) \in Nat /\ m <= Max(S) /\ Max(S) <= m
  BY <1>1
<1> QED BY <1>2

-----------------------------------------------------------------------------
(* A transcript as a sequence of records.                                  *)

RecordKinds == {"head", "inject", "stamp", "errand", "start", "user", "step", "say", "complete", "abort"}
LogRecord == [kind : RecordKinds, cwd : Dir \cup {NoDir}, at : Nat]

KindsIn(q, kinds) == {i \in DOMAIN q : q[i].kind \in kinds}
LatestIn(q, kinds) == q[Max(KindsIn(q, kinds))]

LEMMA LatestIsOne ==
    ASSUME NEW q \in Seq(LogRecord), NEW kinds, KindsIn(q, kinds) # {}
    PROVE  /\ Max(KindsIn(q, kinds)) \in 1..Len(q)
           /\ LatestIn(q, kinds) \in LogRecord /\ LatestIn(q, kinds).kind \in kinds
           /\ \E i \in 1..Len(q) : LatestIn(q, kinds) = q[i]
<1>1. Len(q) \in Nat /\ DOMAIN q = 1..Len(q) /\ \A i \in 1..Len(q) : q[i] \in LogRecord
  BY LenProperties, ElementOfSeq
<1>2. KindsIn(q, kinds) \subseteq Nat /\ \A i \in KindsIn(q, kinds) : i <= Len(q)
  BY <1>1 DEF KindsIn
<1>3. Max(KindsIn(q, kinds)) \in KindsIn(q, kinds)
  BY <1>1, <1>2, GreatestOf
<1>4. Max(KindsIn(q, kinds)) \in 1..Len(q) /\ q[Max(KindsIn(q, kinds))].kind \in kinds
  BY <1>1, <1>3 DEF KindsIn
<1> QED BY <1>1, <1>4 DEF LatestIn

\* What is appended is latest where it has such a record, and changes nothing where not.
LEMMA Joined ==
    ASSUME NEW q \in Seq(LogRecord), NEW e \in Seq(LogRecord)
    PROVE  /\ q \o e \in Seq(LogRecord) /\ Len(q \o e) = Len(q) + Len(e)
           /\ \A i \in 1..Len(q) : (q \o e)[i] = q[i] /\ i \in 1..Len(q \o e)
           /\ \A i \in 1..Len(e) : (q \o e)[Len(q) + i] = e[i] /\ Len(q) + i \in 1..Len(q \o e)
           /\ \A i \in 1..Len(q \o e) :
                 i \in 1..Len(q) \/ \E j \in 1..Len(e) : i = Len(q) + j
<1>1. Len(q) \in Nat /\ Len(e) \in Nat
  BY LenProperties
<1>2. /\ q \o e \in Seq(LogRecord) /\ Len(q \o e) = Len(q) + Len(e)
      /\ \A i \in 1..(Len(q) + Len(e)) : (q \o e)[i] = IF i <= Len(q) THEN q[i] ELSE e[i - Len(q)]
  BY ConcatProperties
<1> DEFINE j == q \o e
<1> HIDE DEF j
<1>3. \A i \in 1..Len(q) : i \in 1..(Len(q) + Len(e)) /\ i <= Len(q)
  BY <1>1
<1>4. \A i \in 1..Len(e) : /\ Len(q) + i \in 1..(Len(q) + Len(e)) /\ ~(Len(q) + i <= Len(q))
                           /\ Len(q) + i - Len(q) = i
  BY <1>1
<1>5. \A i \in 1..(Len(q) + Len(e)) : i \in 1..Len(q) \/ (i - Len(q) \in 1..Len(e) /\ i = Len(q) + (i - Len(q)))
  BY <1>1
<1>6. \A i \in 1..Len(q) : j[i] = q[i]
  BY <1>2, <1>3 DEF j
<1>7. \A i \in 1..Len(e) : j[Len(q) + i] = e[i]
  BY <1>2, <1>4 DEF j
<1> QED BY <1>2, <1>3, <1>4, <1>5, <1>6, <1>7 DEF j

LEMMA KindsJoined ==
    ASSUME NEW q \in Seq(LogRecord), NEW e \in Seq(LogRecord), NEW kinds
    PROVE  /\ KindsIn(q, kinds) \subseteq KindsIn(q \o e, kinds)
           /\ KindsIn(e, kinds) = {} => /\ KindsIn(q \o e, kinds) = KindsIn(q, kinds)
                                        /\ KindsIn(q, kinds) # {} => LatestIn(q \o e, kinds) = LatestIn(q, kinds)
           /\ KindsIn(e, kinds) # {} => /\ KindsIn(q \o e, kinds) # {}
                                        /\ LatestIn(q \o e, kinds) = LatestIn(e, kinds)
<1> DEFINE j == q \o e
<1>1. /\ j \in Seq(LogRecord) /\ Len(j) = Len(q) + Len(e)
      /\ \A i \in 1..Len(q) : j[i] = q[i] /\ i \in 1..Len(j)
      /\ \A i \in 1..Len(e) : j[Len(q) + i] = e[i] /\ Len(q) + i \in 1..Len(j)
      /\ \A i \in 1..Len(j) : i \in 1..Len(q) \/ \E k \in 1..Len(e) : i = Len(q) + k
  BY Joined
<1> HIDE DEF j
<1>2. /\ Len(q) \in Nat /\ Len(e) \in Nat /\ Len(j) \in Nat
      /\ DOMAIN q = 1..Len(q) /\ DOMAIN e = 1..Len(e) /\ DOMAIN j = 1..Len(j)
  BY <1>1, LenProperties
<1>3. KindsIn(q, kinds) \subseteq KindsIn(j, kinds)
  BY <1>2, <1>1 DEF KindsIn
<1>4. ASSUME KindsIn(e, kinds) = {}
      PROVE  /\ KindsIn(j, kinds) = KindsIn(q, kinds)
             /\ KindsIn(q, kinds) # {} => LatestIn(j, kinds) = LatestIn(q, kinds)
  <2>1. \A i \in 1..Len(e) : e[i].kind \notin kinds
    BY <1>2, <1>4 DEF KindsIn
  <2>2. KindsIn(j, kinds) = KindsIn(q, kinds)
    <3>1. ASSUME NEW i \in KindsIn(j, kinds) PROVE i \in KindsIn(q, kinds)
      <4>1. i \in 1..Len(j) /\ j[i].kind \in kinds
        BY <1>2 DEF KindsIn
      <4>2. \A k \in 1..Len(e) : i # Len(q) + k
        BY <1>1, <2>1, <4>1
      <4>3. i \in 1..Len(q)
        BY <1>1, <4>1, <4>2
      <4> QED BY <1>2, <1>1, <4>1, <4>3 DEF KindsIn
    <3> QED BY <1>3, <3>1
  <2>3. KindsIn(q, kinds) # {} => j[Max(KindsIn(q, kinds))] = q[Max(KindsIn(q, kinds))]
    BY <1>1, LatestIsOne
  <2> QED BY <2>2, <2>3 DEF LatestIn
<1>5. ASSUME KindsIn(e, kinds) # {}
      PROVE  KindsIn(j, kinds) # {} /\ LatestIn(j, kinds) = LatestIn(e, kinds)
  <2> DEFINE last == Max(KindsIn(e, kinds))
  <2>1. last \in KindsIn(e, kinds) /\ \A i \in KindsIn(e, kinds) : i <= last
    <3>1. KindsIn(e, kinds) \subseteq Nat /\ \A i \in KindsIn(e, kinds) : i <= Len(e)
      BY <1>2 DEF KindsIn
    <3> QED BY <1>2, <1>5, <3>1, GreatestOf
  <2> HIDE DEF last
  <2>2. last \in 1..Len(e) /\ e[last].kind \in kinds
    BY <1>2, <2>1 DEF KindsIn
  <2>3. Len(q) + last \in KindsIn(j, kinds)
    BY <1>2, <1>1, <2>2 DEF KindsIn
  <2>4. ASSUME NEW i \in KindsIn(j, kinds) PROVE i <= Len(q) + last
    <3>1. i \in 1..Len(j) /\ j[i].kind \in kinds
      BY <1>2 DEF KindsIn
    <3>2. CASE i \in 1..Len(q)
      BY <1>2, <2>2, <3>2
    <3>3. ASSUME NEW k \in 1..Len(e), i = Len(q) + k PROVE i <= Len(q) + last
      <4>1. k \in KindsIn(e, kinds)
        BY <1>2, <1>1, <3>1, <3>3 DEF KindsIn
      <4> QED BY <1>2, <2>1, <2>2, <3>3, <4>1
    <3> QED BY <1>1, <3>1, <3>2, <3>3
  <2>5. KindsIn(j, kinds) \subseteq Nat /\ \A i \in KindsIn(j, kinds) : i <= Len(j)
    BY <1>2 DEF KindsIn
  <2>6. Max(KindsIn(j, kinds)) = Len(q) + last
    BY <1>2, <2>3, <2>4, <2>5, SameGreatest
  <2>7. j[Len(q) + last] = e[last]
    BY <1>1, <2>2
  <2> QED BY <2>3, <2>6, <2>7 DEF LatestIn, last
<1> QED BY <1>3, <1>4, <1>5 DEF j

-----------------------------------------------------------------------------
(* What is read from a sequence of records.                                *)

FirstCwdIn(q) == q[Min({i \in DOMAIN q : q[i].cwd # NoDir})].cwd
StampedIn(f, q) == Own(f) /\ KindsIn(q, Stamps) # {}
ProjectIn(f, q) ==
    IF StampedIn(f, q) THEN LatestIn(q, Stamps).cwd
    ELSE IF About[f].format \in {"codex", "pi"} THEN LatestIn(q, {"head"}).cwd
    ELSE FirstCwdIn(q)
SearchedCwdIn(f, q) == IF StampedIn(f, q) THEN LatestIn(q, Stamps).cwd ELSE FirstCwdIn(q)
WorkingIn(f, q) ==
    IF About[f].format = "codex"
    THEN KindsIn(q, Lifecycle) # {} /\ LatestIn(q, Lifecycle).kind = "start"
    ELSE LatestIn(q, ConvoKinds).kind = "step"
AutomatedIn(f, q, roots) ==
    IF StampedIn(f, q) THEN LatestIn(q, Stamps).kind = "errand"
    ELSE \/ Cardinality(KindsIn(q, {"user"})) = 0 \/ About[f].guardian
         \/ About[f].headless /\ ~\E root \in roots : Inside(ProjectIn(f, q), root)
ThreadIn(f, q, roots) ==
    [id |-> About[f].id, file |-> f, project |-> ProjectIn(f, q), at |-> LatestIn(q, ConvoKinds).at,
     working |-> WorkingIn(f, q), automated |-> AutomatedIn(f, q, roots), sub |-> About[f].sub,
     users |-> Cardinality(KindsIn(q, {"user"})), count |-> Cardinality(KindsIn(q, ConvoKinds))]

LEMMA ReadIn ==
    ASSUME NEW f
    PROVE  /\ \A kinds : Kinds(f, kinds) = KindsIn(logs[f], kinds)
           /\ Convo(f) = KindsIn(logs[f], ConvoKinds)
           /\ Stamped(f) = StampedIn(f, logs[f])
           /\ Project(f) = ProjectIn(f, logs[f])
           /\ searchCwdFromFile(f) = SearchedCwdIn(f, logs[f])
           /\ Working(f) = WorkingIn(f, logs[f])
           /\ parseSession(f) = ThreadIn(f, logs[f], hosts)
<1>1. \A kinds : Kinds(f, kinds) = KindsIn(logs[f], kinds)
  BY DEF Kinds, KindsIn
<1>2. Convo(f) = KindsIn(logs[f], ConvoKinds) /\ userTurns(f) = Cardinality(KindsIn(logs[f], {"user"}))
  BY <1>1 DEF Convo, userTurns
<1>3. \A kinds : latest(f, kinds) = LatestIn(logs[f], kinds)
  BY <1>1 DEF latest, LatestIn
<1>4. Stamped(f) = StampedIn(f, logs[f]) /\ firstCwd(f) = FirstCwdIn(logs[f])
  BY <1>1 DEF Stamped, StampedIn, firstCwd, FirstCwdIn
<1>5. Project(f) = ProjectIn(f, logs[f]) /\ searchCwdFromFile(f) = SearchedCwdIn(f, logs[f])
  BY <1>3, <1>4 DEF Project, ProjectIn, searchCwdFromFile, SearchedCwdIn
<1>6. Working(f) = WorkingIn(f, logs[f])
  BY <1>1, <1>3 DEF Working, WorkingIn
<1>7. Automated(f) = AutomatedIn(f, logs[f], hosts)
  BY <1>2, <1>3, <1>4, <1>5 DEF Automated, AutomatedIn
<1>8. parseSession(f) = ThreadIn(f, logs[f], hosts)
  BY <1>2, <1>3, <1>5, <1>6, <1>7 DEF parseSession, ThreadIn
<1> QED BY <1>1, <1>2, <1>4, <1>5, <1>6, <1>8

LEMMA ReadInNext ==
    ASSUME NEW f
    PROVE  /\ Project(f)' = ProjectIn(f, logs'[f])
           /\ Working(f)' = WorkingIn(f, logs'[f])
           /\ parseSession(f)' = ThreadIn(f, logs'[f], hosts')
<1>1. \A kinds : Kinds(f, kinds)' = KindsIn(logs'[f], kinds)
  BY DEF Kinds, KindsIn
<1>2. Convo(f)' = KindsIn(logs'[f], ConvoKinds) /\ userTurns(f)' = Cardinality(KindsIn(logs'[f], {"user"}))
  BY <1>1 DEF Convo, userTurns, Kinds, KindsIn
<1>3. \A kinds : latest(f, kinds)' = LatestIn(logs'[f], kinds)
  BY <1>1 DEF latest, LatestIn, Kinds, KindsIn
<1>4. Stamped(f)' = StampedIn(f, logs'[f]) /\ firstCwd(f)' = FirstCwdIn(logs'[f])
  BY DEF Stamped, StampedIn, firstCwd, FirstCwdIn, Own, Kinds, KindsIn
<1>5. Project(f)' = ProjectIn(f, logs'[f])
  BY DEF Project, ProjectIn, Stamped, StampedIn, firstCwd, FirstCwdIn, Own, Kinds, KindsIn, latest, LatestIn
<1>6. Working(f)' = WorkingIn(f, logs'[f])
  BY DEF Working, WorkingIn, latest, LatestIn, Kinds, KindsIn
<1>7. Automated(f)' = AutomatedIn(f, logs'[f], hosts')
  <2>1. Automated(f)' = (IF Stamped(f)' THEN latest(f, Stamps)'.kind = "errand"
                         ELSE \/ userTurns(f)' = 0 \/ About[f].guardian
                              \/ About[f].headless /\ ~\E root \in hosts' : Inside(Project(f)', root))
    BY DEF Automated, Inside
  <2> QED BY <1>2, <1>3, <1>4, <1>5, <2>1 DEF AutomatedIn
<1>8. parseSession(f)' = ThreadIn(f, logs'[f], hosts')
  <2>1. parseSession(f)' =
          [id |-> About[f].id, file |-> f, project |-> Project(f)', at |-> latest(f, ConvoKinds)'.at,
           working |-> Working(f)', automated |-> Automated(f)', sub |-> About[f].sub,
           users |-> userTurns(f)', count |-> Cardinality(Convo(f)')]
    BY DEF parseSession
  <2> QED BY <1>2, <1>3, <1>5, <1>6, <1>7, <2>1 DEF ThreadIn
<1> QED BY <1>5, <1>6, <1>8

-----------------------------------------------------------------------------
(* What the harnesses have written.                                        *)

\* A record written at a time before w, in a place that suits its kind.
RecordFits(f, r, w) ==
    /\ r.at < w
    /\ r.kind = "head" => r.cwd = Home[f]
    /\ r.kind \in Stamps => Own(f) /\ r.cwd \in Dir
    /\ r.kind \notin {"head"} \cup Stamps => r.cwd = NoDir

\* The transcript of a session and how its turn stands.
TranscriptFits(f, q, now, w) ==
    /\ q \in Seq(LogRecord) /\ now \in {"idle", "running", "severed"}
    /\ \A i \in 1..Len(q) : RecordFits(f, q[i], w)
    /\ q = <<>> => now = "idle"
    /\ q # <<>> =>
         /\ q[1].kind = "head" /\ KindsIn(q, ConvoKinds) # {}
         /\ Own(f) => KindsIn(q, Stamps) # {}
         /\ IF About[f].format = "codex"
            THEN KindsIn(q, Lifecycle) # {} /\ (LatestIn(q, Lifecycle).kind = "start" <=> now # "idle")
            ELSE LatestIn(q, ConvoKinds).kind = "step" => now # "idle"

TranscriptsFit ==
    /\ writes \in Nat /\ logs \in [File -> Seq(LogRecord)] /\ DOMAIN turn = File
    /\ \A f \in File : TranscriptFits(f, logs[f], turn[f], writes)

\* A sub-agent has written only after its parent.
ParentsWrite ==
    \A f \in File : logs[f] # <<>> /\ About[f].sub =>
        \E p \in File : About[p].id = About[f].id /\ ~About[p].sub /\ logs[p] # <<>>

\* Of the transcripts of its session, f stands for it.
Best(f) ==
    \A g \in File : g # f /\ About[g].id = About[f].id /\ logs[g] # <<>> =>
        richer(parseSession(f), parseSession(g))

\* A full scan gives the thread of f.
Stands(f) ==
    /\ f \in Candidates /\ Best(f)
    /\ Mine(parseSession(f)) /\ ~Automated(f)

RowFits(row) ==
    /\ row.file \in File /\ row.id = About[row.file].id
    /\ row.project \in Dir /\ row.at \in Nat /\ row.at < writes

OneOfEach(table) == \A r, s \in table : r.id = s.id => r = s

RowsFit ==
    /\ \A row \in rows \cup poll.found : RowFits(row)
    /\ OneOfEach(rows) /\ OneOfEach(poll.found)

\* Whoever stands for a session has spoken last of those that stood for it before.
NoneIsAhead ==
    \A row \in rows \cup poll.found, f \in File :
        logs[f] # <<>> /\ About[f].id = row.id /\ Best(f) => row.at <= parseSession(f).at

PollFits ==
    /\ poll = [at |-> poll.at, found |-> poll.found, settles |-> poll.settles]
    /\ poll.at \in {"idle", "scanned"} /\ poll.settles \in BOOLEAN /\ settled \in BOOLEAN
    /\ poll.at = "idle" => poll = NoPoll
    /\ armed = <<>> => noted = {} /\ poll.found = {} /\ ~poll.settles /\ ~settled
    /\ \A f \in noted : f \in File /\ logs[f] # <<>>

\* A watched transcript of its session is still to be read.
Owed(f) == \E g \in noted : About[g].id = About[f].id
Settles(f) == Stands(f) /\ Watched(f) /\ ~Owed(f)

\* What nobody has to read again is in the table or on its way.
NothingIsMissed ==
    \A f \in File : Settles(f) =>
        /\ settled => parseSession(f) \in rows \cup poll.found
        /\ settled /\ poll.settles => parseSession(f) \in rows
        /\ poll.settles => parseSession(f) \in poll.found
        /\ settled \/ poll.settles =>
             \A row \in poll.found : row.id = About[f].id => row = parseSession(f)

ScanInv ==
    /\ TranscriptsFit /\ ParentsWrite /\ RowsFit /\ NoneIsAhead /\ PollFits
    /\ NothingIsMissed /\ NoRowIsOffLimits /\ ConsentComesFirst

LEMMA ReadNumbers ==
    ASSUME NEW f \in File, NEW now, NEW w, NEW q, TranscriptFits(f, q, now, w), NEW kinds
    PROVE  /\ IsFiniteSet(KindsIn(q, kinds)) /\ Cardinality(KindsIn(q, kinds)) \in Nat
           /\ KindsIn(q, kinds) # {} => Cardinality(KindsIn(q, kinds)) # 0
<1>1. q \in Seq(LogRecord) /\ DOMAIN q = 1..Len(q) /\ Len(q) \in Nat
  BY LenProperties DEF TranscriptFits
<1>2. KindsIn(q, kinds) \subseteq 1..Len(q)
  BY <1>1 DEF KindsIn
<1>3. IsFiniteSet(1..Len(q))
  BY <1>1, FS_Interval
<1>4. IsFiniteSet(KindsIn(q, kinds))
  BY <1>2, <1>3, FS_Subset
<1> QED BY <1>4, FS_CardinalityType, FS_EmptySet

\* Scan and search place a session alike, and all but Owner Operator's where it began.
LEMMA ProjectOf ==
    ASSUME NEW f \in File, NEW now, NEW w, NEW q, TranscriptFits(f, q, now, w), q # <<>>
    PROVE  /\ ProjectIn(f, q) \in Dir /\ SearchedCwdIn(f, q) = ProjectIn(f, q)
           /\ ~Own(f) => ProjectIn(f, q) = Home[f]
<1>1. /\ q \in Seq(LogRecord) /\ DOMAIN q = 1..Len(q) /\ Len(q) \in Nat
      /\ \A i \in 1..Len(q) : RecordFits(f, q[i], w) /\ q[i] \in LogRecord
      /\ q[1].kind = "head" /\ (Own(f) => KindsIn(q, Stamps) # {})
  BY LenProperties, ElementOfSeq DEF TranscriptFits
<1>2. Home[f] \in Dir /\ NoDir \notin Dir
  BY ScanAssumption, HomeAssumption
<1>3. CASE Own(f)
  <2>1. StampedIn(f, q)
    BY <1>1, <1>3 DEF StampedIn
  <2>2. LatestIn(q, Stamps).cwd \in Dir
    <3>1. KindsIn(q, Stamps) # {}
      BY <1>1, <1>3
    <3>2. /\ LatestIn(q, Stamps).kind \in Stamps
          /\ \E i \in 1..Len(q) : LatestIn(q, Stamps) = q[i]
      BY <1>1, <3>1, LatestIsOne
    <3> QED BY <1>1, <3>2 DEF RecordFits
  <2> QED BY <1>3, <2>1, <2>2 DEF ProjectIn, SearchedCwdIn
<1>4. CASE ~Own(f)
  <2>1. ~StampedIn(f, q)
    BY <1>4 DEF StampedIn
  <2>2. 1 \in 1..Len(q)
    BY <1>1, EmptySeq
  <2>3. LatestIn(q, {"head"}).cwd = Home[f]
    <3>1. KindsIn(q, {"head"}) # {}
      BY <1>1, <2>2 DEF KindsIn
    <3>2. /\ LatestIn(q, {"head"}).kind \in {"head"}
          /\ \E i \in 1..Len(q) : LatestIn(q, {"head"}) = q[i]
      BY <1>1, <3>1, LatestIsOne
    <3> QED BY <1>1, <3>2 DEF RecordFits
  <2>4. FirstCwdIn(q) = Home[f]
    <3> DEFINE S == {i \in DOMAIN q : q[i].cwd # NoDir}
    <3>1. S \subseteq Nat /\ 1 \in S
      <4>1. q[1].cwd = Home[f]
        BY <1>1, <2>2 DEF RecordFits
      <4> QED BY <1>1, <1>2, <2>2, <4>1
    <3>2. Min(S) \in S
      <4> HIDE DEF S
      <4> QED BY <3>1, LeastOf
    <3>3. Min(S) \in 1..Len(q) /\ q[Min(S)].cwd # NoDir
      BY <1>1, <3>2
    <3>4. q[Min(S)].cwd = Home[f]
      BY <1>1, <1>4, <3>3 DEF RecordFits
    <3> QED BY <3>4 DEF FirstCwdIn
  <2> QED BY <1>2, <1>4, <2>1, <2>3, <2>4 DEF ProjectIn, SearchedCwdIn
<1> QED BY <1>3, <1>4

\* A thread that is read has its numbers and its time.
LEMMA ThreadOf ==
    ASSUME TranscriptsFit, NEW f \in File, logs[f] # <<>>
    PROVE  /\ RowFits(parseSession(f))
           /\ parseSession(f).users \in Nat /\ parseSession(f).count \in Nat
           /\ parseSession(f).file = f /\ parseSession(f).id = About[f].id
           /\ parseSession(f).sub = About[f].sub /\ About[f].sub \in BOOLEAN
           /\ parseSession(f).project = Project(f) /\ parseSession(f).automated = Automated(f)
           /\ parseSession(f).working = Working(f)
           /\ Convo(f) # {} /\ searchCwdFromFile(f) = Project(f)
           /\ ~Own(f) => Project(f) = Home[f]
<1> DEFINE q == logs[f]
<1>1. TranscriptFits(f, q, turn[f], writes)
  BY DEF TranscriptsFit
<1>2. /\ q \in Seq(LogRecord) /\ KindsIn(q, ConvoKinds) # {}
      /\ \A i \in 1..Len(q) : RecordFits(f, q[i], writes)
  BY <1>1 DEF TranscriptFits
<1> HIDE DEF q
<1>3. LatestIn(q, ConvoKinds).at \in Nat /\ LatestIn(q, ConvoKinds).at < writes
  <2>1. LatestIn(q, ConvoKinds) \in LogRecord /\ \E i \in 1..Len(q) : LatestIn(q, ConvoKinds) = q[i]
    BY <1>2, LatestIsOne
  <2> QED BY <1>2, <2>1 DEF RecordFits, LogRecord
<1>4. /\ ProjectIn(f, q) \in Dir /\ SearchedCwdIn(f, q) = ProjectIn(f, q)
      /\ ~Own(f) => ProjectIn(f, q) = Home[f]
  BY <1>1, ProjectOf DEF q
<1>5. /\ Cardinality(KindsIn(q, {"user"})) \in Nat /\ Cardinality(KindsIn(q, ConvoKinds)) \in Nat
  BY <1>1, ReadNumbers
<1>6. /\ Convo(f) = KindsIn(q, ConvoKinds) /\ Project(f) = ProjectIn(f, q)
      /\ searchCwdFromFile(f) = SearchedCwdIn(f, q) /\ parseSession(f) = ThreadIn(f, q, hosts)
  BY ReadIn DEF q
<1>7. About[f].sub \in BOOLEAN
  BY ScanAssumption DEF FileRecord
<1>8. /\ parseSession(f).at = LatestIn(q, ConvoKinds).at /\ parseSession(f).project = ProjectIn(f, q)
      /\ parseSession(f).users = Cardinality(KindsIn(q, {"user"}))
      /\ parseSession(f).count = Cardinality(KindsIn(q, ConvoKinds))
  BY <1>6 DEF ThreadIn
<1>9. /\ parseSession(f).file = f /\ parseSession(f).id = About[f].id
      /\ parseSession(f).sub = About[f].sub
      /\ parseSession(f).project = Project(f) /\ parseSession(f).automated = Automated(f)
      /\ parseSession(f).working = Working(f)
  BY DEF parseSession
<1>10. RowFits(parseSession(f))
  BY <1>3, <1>4, <1>8, <1>9 DEF RowFits
<1> QED BY <1>2, <1>4, <1>5, <1>6, <1>7, <1>8, <1>9, <1>10

\* The transcripts of a session are listed together and about one project.
LEMMA Together ==
    ASSUME TranscriptsFit, NEW f \in File, NEW g \in File, About[f].id = About[g].id,
           f \in Candidates, logs[g] # <<>>
    PROVE  g \in Candidates /\ (Mine(parseSession(f)) => Mine(parseSession(g)))
<1>1. CASE f = g
  BY <1>1
<1>2. CASE f # g
  <2>1. /\ About[f].store # OwnStore /\ About[g].store # OwnStore
        /\ About[f].store = About[g].store /\ Home[f] = Home[g] /\ About[f].format = About[g].format
    BY <1>2, SessionsLieTogether
  <2>2. logs[f] # <<>> /\ g \in Candidates
    BY <2>1 DEF Candidates
  <2>3. parseSession(f).project = Home[f] /\ parseSession(g).project = Home[g]
    BY <2>1, <2>2, ThreadOf DEF Own
  <2> QED BY <2>1, <2>2, <2>3 DEF Mine
<1> QED BY <1>1, <1>2

\* Two threads never stand for each other.
LEMMA RicherIsStrict ==
    ASSUME TranscriptsFit, NEW f \in File, NEW g \in File, logs[f] # <<>>, logs[g] # <<>>,
           richer(parseSession(f), parseSession(g))
    PROVE  ~richer(parseSession(g), parseSession(f))
<1> DEFINE t == parseSession(f)
           p == parseSession(g)
<1>1. /\ t.users \in Nat /\ t.count \in Nat /\ t.at \in Nat /\ t.sub \in BOOLEAN
      /\ p.users \in Nat /\ p.count \in Nat /\ p.at \in Nat /\ p.sub \in BOOLEAN
  BY ThreadOf DEF RowFits
<1> HIDE DEF t, p
<1>2. richer(t, p)
  BY DEF t, p
<1>3. ~richer(p, t)
  BY <1>1, <1>2 DEF richer
<1> QED BY <1>3 DEF t, p

LEMMA OneIsBest ==
    ASSUME TranscriptsFit, NEW f \in File, NEW g \in File, About[f].id = About[g].id,
           logs[f] # <<>>, logs[g] # <<>>, Best(f), Best(g)
    PROVE  f = g
<1> SUFFICES ASSUME f # g PROVE FALSE
  OBVIOUS
<1>1. richer(parseSession(f), parseSession(g)) /\ richer(parseSession(g), parseSession(f))
  BY DEF Best
<1> QED BY <1>1, RicherIsStrict

\* A scan of files that have all their sessions' listed transcripts gives the threads
\* that stand for them.
LEMMA ThreadsAre ==
    ASSUME TranscriptsFit, NEW files, files \subseteq Candidates,
           \A f \in files, g \in Candidates : About[f].id = About[g].id => g \in files
    PROVE  \A t : t \in Threads(files) <=> \E f \in files : Stands(f) /\ t = parseSession(f)
<1> DEFINE parsed == {parseSession(f) : f \in {g \in files : Convo(g) # {}}}
           Wins(t) == Mine(t) /\ \A p \in parsed \ {t} : Mine(p) /\ p.id = t.id => richer(t, p)
<1>1. \A f \in Candidates : f \in File /\ logs[f] # <<>>
  BY DEF Candidates
<1>2. \A f \in files : /\ Convo(f) # {} /\ parseSession(f).file = f /\ parseSession(f).id = About[f].id
                       /\ parseSession(f).automated = Automated(f)
  BY <1>1, ThreadOf
<1>3. \A t : t \in parsed <=> \E f \in files : t = parseSession(f)
  BY <1>2
<1>4. \A t : t \in Threads(files) <=> t \in parsed /\ Wins(t) /\ ~t.automated
  BY DEF Threads
<1> HIDE DEF parsed
<1>5. ASSUME NEW f \in files, Mine(parseSession(f)) PROVE Wins(parseSession(f)) <=> Best(f)
  <2>1. ASSUME Best(f) PROVE Wins(parseSession(f))
    <3> SUFFICES ASSUME NEW p \in parsed, p # parseSession(f), p.id = parseSession(f).id
                 PROVE  richer(parseSession(f), p)
      BY <1>5
    <3>1. PICK g \in files : p = parseSession(g)
      BY <1>3
    <3> QED BY <1>1, <1>2, <2>1, <3>1 DEF Best
  <2>2. ASSUME Wins(parseSession(f)) PROVE Best(f)
    <3> SUFFICES ASSUME NEW g \in File, g # f, About[g].id = About[f].id, logs[g] # <<>>
                 PROVE  richer(parseSession(f), parseSession(g))
      BY DEF Best
    <3>1. g \in Candidates /\ Mine(parseSession(g))
      BY <1>1, <1>5, Together
    <3>2. g \in files
      BY <3>1
    <3>3. parseSession(g) \in parsed /\ parseSession(g) # parseSession(f)
          /\ parseSession(g).id = parseSession(f).id
      BY <1>2, <1>3, <3>2
    <3> QED BY <2>2, <3>1, <3>3
  <2> QED BY <2>1, <2>2
<1> HIDE DEF Wins
<1>6. \A t : Wins(t) => Mine(t)
  BY DEF Wins
<1>7. \A f \in files : Stands(f) <=> /\ Mine(parseSession(f)) /\ Wins(parseSession(f))
                                     /\ ~parseSession(f).automated
  BY <1>2, <1>5 DEF Stands
<1> QED BY <1>3, <1>4, <1>6, <1>7

LEMMA FullScanGives ==
    ASSUME TranscriptsFit
    PROVE  \A t : t \in Threads(Candidates) <=> \E f \in File : Stands(f) /\ t = parseSession(f)
<1>1. \A t : t \in Threads(Candidates) <=> \E f \in Candidates : Stands(f) /\ t = parseSession(f)
  BY ThreadsAre
<1>2. \A f : f \in Candidates => f \in File
  BY DEF Candidates
<1>3. \A f : Stands(f) => f \in Candidates
  BY DEF Stands
<1> QED BY <1>1, <1>2, <1>3

\* A partial scan reads the sessions whose transcripts changed, each with all of them.
LEMMA ChangedAreWhole ==
    ASSUME TranscriptsFit, NEW files
    PROVE  /\ Changed(files) \subseteq Candidates
           /\ \A f \in Changed(files), g \in Candidates : About[f].id = About[g].id => g \in Changed(files)
           /\ \A f \in files, g \in Candidates :
                 f \in Candidates /\ About[f].id = About[g].id => g \in Changed(files)
<1> DEFINE changed == Candidates \cap files
           ids == {About[f].id : f \in {g \in changed : Convo(g) # {}}}
<1>1. Changed(files) = changed \cup {f \in Candidates : About[f].names \cap ids # {}}
  BY DEF Changed
<1>2. \A f \in Candidates : f \in File /\ logs[f] # <<>> /\ Convo(f) # {}
  BY ThreadOf DEF Candidates
<1>3. \A f \in changed : About[f].id \in ids
  BY <1>2
<1> HIDE DEF ids
<1>4. ASSUME NEW f \in changed, NEW g \in Candidates, About[f].id = About[g].id
      PROVE  g \in Changed(files)
  <2>1. About[g].id \in About[g].names
    BY <1>2, ScanAssumption
  <2> QED BY <1>1, <1>3, <1>4, <2>1
<1>5. ASSUME NEW f \in Candidates, About[f].names \cap ids # {}, NEW g \in Candidates, About[f].id = About[g].id
      PROVE  g \in Changed(files)
  <2>1. About[f].names = About[g].names
    <3>1. f \in File /\ g \in File
      BY <1>2
    <3> QED BY <1>5, <3>1, SessionsLieTogether
  <2> QED BY <1>1, <1>5, <2>1
<1> QED BY <1>1, <1>4, <1>5

\* Only a session's own transcript stands for it.
LEMMA OwnersStand ==
    ASSUME TranscriptsFit, ParentsWrite, NEW f \in File, Stands(f)
    PROVE  ~About[f].sub
<1> SUFFICES ASSUME About[f].sub PROVE FALSE
  OBVIOUS
<1>1. f \in Candidates /\ logs[f] # <<>> /\ Best(f) /\ About[f].sub
  BY DEF Stands, Candidates
<1>2. PICK p \in File : About[p].id = About[f].id /\ ~About[p].sub /\ logs[p] # <<>>
  BY <1>1 DEF ParentsWrite
<1>3. richer(parseSession(f), parseSession(p))
  <2>1. p # f
    BY <1>1, <1>2
  <2> QED BY <1>2, <2>1, <1>1 DEF Best
<1>4. parseSession(f).sub = About[f].sub /\ parseSession(p).sub = About[p].sub /\ About[f].sub \in BOOLEAN
  BY <1>1, <1>2, ThreadOf
<1> QED BY <1>1, <1>2, <1>3, <1>4 DEF richer

LEMMA RowsMatch == ScanInv => RowsMatchAFullScan
<1> SUFFICES ASSUME ScanInv, AllRead, NEW t \in {x \in Threads(Candidates) : Watched(x.file)}
             PROVE  /\ t \in rows
                    /\ \A row \in rows, f \in Candidates :
                         row.id = t.id /\ About[f].id = t.id /\ About[row.file].sub => About[f].sub
  BY DEF RowsMatchAFullScan
<1>1. TranscriptsFit /\ ParentsWrite /\ OneOfEach(rows) /\ PollFits /\ NothingIsMissed
  BY DEF ScanInv, RowsFit
<1>2. PICK f \in File : Stands(f) /\ t = parseSession(f)
  BY <1>1, FullScanGives
<1>3. parseSession(f).file = f /\ parseSession(f).id = About[f].id
  BY DEF parseSession
<1>4. t \in rows
  <2>1. noted = {} /\ settled /\ poll = NoPoll
    BY <1>1 DEF AllRead, PollFits
  <2>2. Settles(f)
    BY <1>2, <1>3, <2>1 DEF Settles, Owed
  <2>3. parseSession(f) \in rows \cup poll.found
    BY <1>1, <2>1, <2>2 DEF NothingIsMissed
  <2>4. poll.found = {}
    BY <2>1 DEF NoPoll
  <2> QED BY <1>2, <2>3, <2>4
<1>5. ~About[f].sub
  BY <1>1, <1>2, OwnersStand
<1>6. ASSUME NEW row \in rows, row.id = t.id PROVE row.file = f
  <2>1. row = t
    BY <1>1, <1>4, <1>6 DEF OneOfEach
  <2> QED BY <1>2, <1>3, <2>1
<1> QED BY <1>4, <1>5, <1>6

LEMMA WorkingShows == ScanInv => WorkingIsTrue
<1> SUFFICES ASSUME ScanInv, NEW row \in Threads(Candidates)
             PROVE  /\ row.working => turn[row.file] # "idle"
                    /\ About[row.file].format = "codex" /\ turn[row.file] = "running" => row.working
  BY DEF WorkingIsTrue
<1>1. TranscriptsFit
  BY DEF ScanInv
<1>2. PICK f \in File : Stands(f) /\ row = parseSession(f)
  BY <1>1, FullScanGives
<1>3. logs[f] # <<>>
  BY <1>2 DEF Stands, Candidates
<1>4. row.file = f /\ row.working = WorkingIn(f, logs[f])
  BY <1>1, <1>2, <1>3, ThreadOf, ReadIn
<1>5. TranscriptFits(f, logs[f], turn[f], writes)
  BY <1>1 DEF TranscriptsFit
<1> QED BY <1>3, <1>4, <1>5 DEF TranscriptFits, WorkingIn

LEMMA SearchShows == ScanInv => SearchAgrees
<1> SUFFICES ASSUME ScanInv PROVE SearchAgrees
  OBVIOUS
<1>1. TranscriptsFit /\ ParentsWrite
  BY DEF ScanInv
<1>2. \A f \in File : logs[f] # <<>> => searchCwdFromFile(f) = Project(f)
  BY <1>1, ThreadOf
<1>3. ASSUME NEW ownerOnly \in BOOLEAN, NEW f \in File, f \in Searched(ownerOnly)
      PROVE  ~isBlacklisted(blacklist, Project(f), RepoOf[Project(f)]) /\ f \in Candidates
  <2>1. /\ logs[f] # <<>> /\ ~Excluded(f) /\ ~fileBlacklisted(f)
        /\ [format |-> About[f].format, root |-> About[f].store] \in SearchSources(ownerOnly)
    BY <1>3 DEF Searched
  <2>2. SearchSources(ownerOnly) \subseteq loadMonitoredTranscriptStores(sources)
    BY DEF SearchSources, loadMonitoredTranscriptStores
  <2> QED BY <1>2, <2>1, <2>2 DEF fileBlacklisted, Candidates, Excluded
<1>4. ASSUME NEW f \in Candidates, ~isBlacklisted(blacklist, Project(f), RepoOf[Project(f)]),
             About[f].format # "cursor"
      PROVE  f \in Searched(FALSE)
  <2>1. /\ f \in File /\ logs[f] # <<>>
        /\ [format |-> About[f].format, root |-> About[f].store] \in loadMonitoredTranscriptStores(sources)
        /\ ~(About[f].format = "claude" /\ SlugBlocked(blacklist, Home[f]))
    BY DEF Candidates
  <2>2. [format |-> About[f].format, root |-> About[f].store] \in SearchSources(FALSE)
    BY <1>4, <2>1 DEF SearchSources, loadMonitoredTranscriptStores
  <2> QED BY <1>2, <1>4, <2>1, <2>2 DEF Searched, Excluded, fileBlacklisted
<1>5. ASSUME NEW row \in Threads(Candidates)
      PROVE  ReadById(row.id) # {} \/ About[row.file].format = "cursor"
  <2>1. PICK f \in File : Stands(f) /\ row = parseSession(f)
    BY <1>1, FullScanGives
  <2>2. f \in Candidates /\ Mine(parseSession(f)) /\ logs[f] # <<>>
    BY <2>1 DEF Stands, Candidates
  <2>3. row.file = f /\ row.id = About[f].id /\ row.project = Project(f)
    BY <1>1, <2>1, <2>2, ThreadOf
  <2>4. ~About[f].sub
    BY <1>1, <2>1, OwnersStand
  <2>5. stableSessionId(f) = About[f].id
    BY <2>4, SessionsLieTogether DEF stableSessionId
  <2>6. About[f].format # "cursor" => f \in Searched(FALSE)
    BY <1>4, <2>1, <2>2, <2>3 DEF Mine
  <2> QED BY <2>3, <2>5, <2>6 DEF ReadById
<1>6. \A f \in Candidates : ~isBlacklisted(blacklist, Project(f), RepoOf[Project(f)]) =>
        f \in Discovered(FALSE, {}) \/ About[f].format = "cursor"
  BY <1>4 DEF Discovered
<1> QED BY <1>3, <1>5, <1>6 DEF SearchAgrees

LEMMA ScanInvShows == ScanInv => RowsFollowTranscripts
BY RowsMatch, WorkingShows, SearchShows DEF ScanInv, RowsFollowTranscripts

LEMMA ScanInvInit == HomeTypeOK /\ ScanInit => ScanInv
<1> SUFFICES ASSUME ScanInit PROVE ScanInv
  OBVIOUS
<1>1. /\ logs = [f \in File |-> <<>>] /\ turn = [f \in File |-> "idle"] /\ writes = 0 /\ armed = <<>>
      /\ noted = {} /\ poll = NoPoll /\ rows = {} /\ settled = FALSE
  BY DEF ScanInit
<1>2. TranscriptsFit
  <2>1. <<>> \in Seq(LogRecord) /\ Len(<<>>) = 0
    BY EmptySeq
  <2>2. ASSUME NEW f \in File PROVE TranscriptFits(f, logs[f], turn[f], writes)
    <3>1. logs[f] = <<>> /\ turn[f] = "idle"
      BY <1>1
    <3>2. TranscriptFits(f, <<>>, "idle", writes)
      BY <2>1 DEF TranscriptFits
    <3> QED BY <3>1, <3>2
  <2>3. logs \in [File -> Seq(LogRecord)]
    BY <1>1, <2>1
  <2> QED BY <1>1, <2>2, <2>3 DEF TranscriptsFit
<1>3. \A f \in File : logs[f] = <<>>
  BY <1>1
<1>4. poll.found = {} /\ poll.at = "idle" /\ poll.settles = FALSE
  BY <1>1 DEF NoPoll
<1>5. ParentsWrite /\ NothingIsMissed
  <2>1. \A f : ~Settles(f)
    BY <1>3 DEF Settles, Stands, Candidates
  <2> QED BY <1>3, <2>1 DEF ParentsWrite, NothingIsMissed
<1>6. RowsFit /\ NoneIsAhead /\ NoRowIsOffLimits /\ ConsentComesFirst
  BY <1>1, <1>4 DEF RowsFit, OneOfEach, NoneIsAhead, NoRowIsOffLimits, ConsentComesFirst
<1>7. PollFits
  BY <1>1, <1>4 DEF PollFits, NoPoll
<1> QED BY <1>2, <1>5, <1>6, <1>7 DEF ScanInv

-----------------------------------------------------------------------------
(* The steps of a poll and of the owner.                                   *)

LEMMA SameReading ==
    ASSUME NEW f, logs'[f] = logs[f], hosts' = hosts
    PROVE  /\ parseSession(f)' = parseSession(f) /\ Project(f)' = Project(f)
           /\ Automated(f)' = Automated(f)
<1>1. parseSession(f)' = parseSession(f) /\ Project(f)' = Project(f)
  BY ReadIn, ReadInNext
<1>2. parseSession(f)'.automated = Automated(f)' /\ parseSession(f).automated = Automated(f)
  BY DEF parseSession
<1> QED BY <1>1, <1>2

LEMMA NothingWritten ==
    ASSUME TranscriptsFit, ParentsWrite, UNCHANGED <<logs, turn, writes, hosts>>
    PROVE  /\ TranscriptsFit' /\ ParentsWrite'
           /\ \A f \in File : /\ parseSession(f)' = parseSession(f) /\ Automated(f)' = Automated(f)
                              /\ Best(f)' = Best(f)
           /\ \A row : RowFits(row)' = RowFits(row)
<1>1. TranscriptsFit' /\ ParentsWrite'
  BY DEF TranscriptsFit, ParentsWrite
<1>2. ASSUME NEW f PROVE parseSession(f)' = parseSession(f) /\ Automated(f)' = Automated(f)
  BY SameReading
<1>3. ASSUME NEW f \in File PROVE Best(f)' = Best(f)
  BY <1>2 DEF Best
<1>4. \A row : RowFits(row)' = RowFits(row)
  BY DEF RowFits
<1> QED BY <1>1, <1>2, <1>3, <1>4

LEMMA ConfiguredAlike ==
    ASSUME UNCHANGED <<logs, blacklist, sources, hosts>>, TranscriptsFit, ParentsWrite,
           UNCHANGED <<turn, writes>>
    PROVE  \A f \in File : Stands(f)' = Stands(f)
<1>1. Candidates' = Candidates
  BY DEF Candidates, loadMonitoredTranscriptStores, loadTranscriptStores, SlugBlocked, Inside
<1>2. ASSUME NEW t PROVE Mine(t)' = Mine(t)
  BY DEF Mine, isBlacklisted, Inside
<1> QED
  <2> SUFFICES ASSUME NEW f \in File PROVE Stands(f)' = Stands(f)
    OBVIOUS
  <2>1. Best(f)' = Best(f) /\ parseSession(f)' = parseSession(f) /\ Automated(f)' = Automated(f)
    BY NothingWritten
  <2>2. Mine(parseSession(f))' = Mine(parseSession(f))
    <3>1. Mine(parseSession(f))' = ~isBlacklisted(blacklist', parseSession(f)'.project,
                                                   RepoOf[parseSession(f)'.project])
      BY DEF Mine, isBlacklisted, Inside
    <3> QED BY <2>1, <3>1 DEF Mine
  <2> QED BY <1>1, <2>1, <2>2 DEF Stands

LEMMA ScanKeeps ==
    ASSUME ScanInv, NEW full \in BOOLEAN, scanActiveTranscripts(full)
    PROVE  ScanInv'
<1> DEFINE files == IF full THEN Candidates ELSE Changed(noted)
<1>1. /\ poll.at = "idle" /\ (full \/ noted # {})
      /\ armed' = IF armed = <<>> /\ consent = "given" THEN <<sources>> ELSE armed
      /\ poll' = [at |-> "scanned", settles |-> full /\ consent = "given", found |-> scanTranscripts(files)]
      /\ noted' = IF full THEN noted ELSE {}
      /\ settled' = (settled /\ (full \/ consent = "given"))
      /\ UNCHANGED <<logs, turn, writes, consent, rows, purged, blacklist, sources, hosts>>
  BY DEF scanActiveTranscripts, homeVars
<1>2. /\ TranscriptsFit /\ ParentsWrite /\ RowsFit /\ NoneIsAhead /\ PollFits
      /\ NothingIsMissed /\ NoRowIsOffLimits /\ ConsentComesFirst
  BY DEF ScanInv
<1>3. poll = NoPoll /\ poll.found = {}
  BY <1>1, <1>2 DEF PollFits, NoPoll
<1>4. /\ TranscriptsFit' /\ ParentsWrite'
      /\ \A f \in File : /\ parseSession(f)' = parseSession(f) /\ Best(f)' = Best(f)
                         /\ Stands(f)' = Stands(f)
      /\ \A row : RowFits(row)' = RowFits(row)
  <2>1. UNCHANGED <<logs, turn, writes, hosts>> /\ UNCHANGED <<logs, blacklist, sources, hosts>>
    BY <1>1
  <2> QED BY <1>2, <2>1, NothingWritten, ConfiguredAlike
<1>5. /\ files \subseteq Candidates
      /\ \A f \in files, g \in Candidates : About[f].id = About[g].id => g \in files
  BY <1>2, ChangedAreWhole
<1>6. \A t : t \in poll'.found <=> consent = "given" /\ \E f \in files : Stands(f) /\ t = parseSession(f)
  <2> HIDE DEF files
  <2>1. \A t : t \in Threads(files) <=> \E f \in files : Stands(f) /\ t = parseSession(f)
    BY <1>2, <1>5, ThreadsAre
  <2> QED BY <1>1, <2>1 DEF scanTranscripts
<1>7. \A f \in files : f \in File /\ logs[f] # <<>>
  BY <1>5 DEF Candidates
<1> HIDE DEF files
<1>8. \A f \in files : /\ RowFits(parseSession(f)) /\ parseSession(f).id = About[f].id
                       /\ parseSession(f).at \in Nat
  BY <1>2, <1>7, ThreadOf DEF RowFits
<1>9. \A f \in File, t \in poll'.found : Best(f) /\ logs[f] # <<>> /\ t.id = About[f].id => t = parseSession(f)
  <2> SUFFICES ASSUME NEW f \in File, NEW t \in poll'.found, Best(f), logs[f] # <<>>, t.id = About[f].id
               PROVE  t = parseSession(f)
    OBVIOUS
  <2>1. PICK g \in files : Stands(g) /\ t = parseSession(g)
    BY <1>6
  <2>2. g = f
    BY <1>2, <1>7, <1>8, <2>1, OneIsBest DEF Stands
  <2> QED BY <2>1, <2>2
<1>10. RowsFit'
  <2>1. \A row \in rows' \cup poll'.found : RowFits(row)'
    BY <1>1, <1>2, <1>4, <1>6, <1>8 DEF RowsFit
  <2>2. OneOfEach(rows')
    BY <1>1, <1>2 DEF RowsFit
  <2>3. OneOfEach(poll'.found)
    BY <1>6, <1>7, <1>8, <1>9 DEF OneOfEach, Stands
  <2> QED BY <2>1, <2>2, <2>3 DEF RowsFit
<1>11. NoneIsAhead'
  <2> SUFFICES ASSUME NEW row \in rows' \cup poll'.found, NEW f \in File,
                      logs'[f] # <<>>, About[f].id = row.id, Best(f)'
               PROVE  row.at <= parseSession(f)'.at
    BY DEF NoneIsAhead
  <2>1. logs[f] # <<>> /\ Best(f) /\ parseSession(f)' = parseSession(f)
    BY <1>1, <1>4
  <2>2. CASE row \in rows
    BY <1>2, <2>1, <2>2 DEF NoneIsAhead
  <2>3. CASE row \in poll'.found
    <3>1. row = parseSession(f) /\ row.at \in Nat
      BY <1>6, <1>8, <1>9, <2>1, <2>3
    <3> QED BY <2>1, <3>1
  <2> QED BY <1>1, <2>2, <2>3
<1>12. PollFits'
  <2>1. poll'.at = "scanned" /\ poll'.settles = (full /\ consent = "given")
    BY <1>1
  <2>2. poll' = [at |-> poll'.at, found |-> poll'.found, settles |-> poll'.settles]
    BY <1>1
  <2>3. \A f \in noted' : f \in File /\ logs'[f] # <<>>
    BY <1>1, <1>2 DEF PollFits
  <2>4. settled' \in BOOLEAN /\ poll'.settles \in BOOLEAN
    BY <1>1, <1>2, <2>1 DEF PollFits
  <2>5. ASSUME armed' = <<>> PROVE noted' = {} /\ poll'.found = {} /\ ~poll'.settles /\ ~settled'
    <3>1. armed = <<>> /\ consent # "given"
      BY <1>1, <2>5
    <3>2. noted = {} /\ ~settled
      BY <1>2, <3>1 DEF PollFits
    <3>3. poll'.found = {}
      BY <1>6, <3>1
    <3> QED BY <1>1, <2>1, <3>1, <3>2, <3>3
  <2> QED BY <2>1, <2>2, <2>3, <2>4, <2>5 DEF PollFits
<1>13. NothingIsMissed'
  <2> SUFFICES ASSUME NEW f \in File, Settles(f)'
               PROVE  /\ settled' => parseSession(f) \in rows \cup poll'.found
                      /\ settled' /\ poll'.settles => parseSession(f) \in rows
                      /\ poll'.settles => parseSession(f) \in poll'.found
                      /\ \A row \in poll'.found : row.id = About[f].id => row = parseSession(f)
    BY <1>1, <1>4 DEF NothingIsMissed
  <2>1. Stands(f) /\ Watched(f)'
    BY <1>4 DEF Settles
  <2>2. logs[f] # <<>> /\ f \in Candidates /\ Best(f)
    BY <2>1 DEF Stands, Candidates
  <2>3. \A row \in poll'.found : row.id = About[f].id => row = parseSession(f)
    BY <1>9, <2>2
  <2>4. f \in files /\ consent = "given" => parseSession(f) \in poll'.found
    BY <1>6, <2>1
  <2>5. full => f \in files
    BY <2>2 DEF files
  <2>6. ASSUME settled, ~Owed(f) PROVE parseSession(f) \in rows
    <3>1. armed # <<>>
      BY <1>2, <2>6 DEF PollFits
    <3>2. Watched(f)
      BY <1>1, <2>1, <3>1 DEF Watched, loadMonitoredTranscriptStores, loadTranscriptStores
    <3>3. Settles(f)
      BY <2>1, <2>6, <3>2 DEF Settles
    <3> QED BY <1>2, <1>3, <2>6, <3>3 DEF NothingIsMissed
  <2>7. full => ~Owed(f)
    BY <1>1 DEF Settles, Owed
  <2>8. ASSUME Owed(f), ~full PROVE f \in files
    <3>1. PICK g \in noted : About[g].id = About[f].id
      BY <2>8 DEF Owed
    <3>2. g \in File /\ logs[g] # <<>>
      BY <1>2 DEF PollFits
    <3>3. g \in Candidates
      BY <1>2, <2>2, <3>1, <3>2, Together
    <3> QED BY <1>2, <2>2, <2>8, <3>1, <3>3, ChangedAreWhole DEF files
  <2>9. poll'.settles = (full /\ consent = "given")
    BY <1>1
  <2>10. settled' => settled /\ (full \/ consent = "given")
    BY <1>1
  <2> QED BY <2>3, <2>4, <2>5, <2>6, <2>7, <2>8, <2>9, <2>10
<1>14. NoRowIsOffLimits'
  BY <1>1, <1>2 DEF NoRowIsOffLimits
<1>15. ConsentComesFirst'
  <2> SUFFICES ASSUME consent = "never"
               PROVE  armed' = <<>> /\ noted' = {} /\ poll'.found = {} /\ rows' = {}
    BY <1>1 DEF ConsentComesFirst
  <2>1. armed = <<>> /\ noted = {} /\ rows = {}
    BY <1>2 DEF ConsentComesFirst
  <2> QED BY <1>1, <1>6, <2>1
<1> QED BY <1>4, <1>10, <1>11, <1>12, <1>13, <1>14, <1>15 DEF ScanInv

\* What of a poll is recorded: all of it, or what came before a failure.
LEMMA RecordsKeep ==
    ASSUME ScanInv, NEW some \in SUBSET poll.found,
           rows' = recordScan(purgeBlacklisted(rows), some), purged' = blacklist, poll' = NoPoll,
           UNCHANGED <<logs, turn, writes, consent, armed, noted, blacklist, sources, hosts>>,
           settled' \in BOOLEAN, armed = <<>> => ~settled',
           \A f \in File : Settles(f) /\ settled' =>
              /\ parseSession(f) \in rows \cup some
              /\ \A row \in some : row.id = About[f].id => row = parseSession(f)
    PROVE  ScanInv'
<1> DEFINE table == purgeBlacklisted(rows)
           fresh == {t \in some : Mine(t) /\ \A row \in table : row.id = t.id => t.at >= row.at}
<1>1. /\ rows' = recordScan(table, some)
      /\ purged' = blacklist /\ poll' = NoPoll
      /\ UNCHANGED <<logs, turn, writes, consent, armed, noted, blacklist, sources, hosts>>
  OBVIOUS
<1>2. /\ TranscriptsFit /\ ParentsWrite /\ RowsFit /\ NoneIsAhead /\ PollFits
      /\ NoRowIsOffLimits /\ ConsentComesFirst
  BY DEF ScanInv
<1>3. /\ TranscriptsFit' /\ ParentsWrite'
      /\ \A f \in File : /\ parseSession(f)' = parseSession(f) /\ Best(f)' = Best(f)
                         /\ Stands(f)' = Stands(f)
      /\ \A row : RowFits(row)' = RowFits(row)
  <2>1. UNCHANGED <<logs, turn, writes, hosts>> /\ UNCHANGED <<logs, blacklist, sources, hosts>>
    BY <1>1
  <2> QED BY <1>2, <2>1, NothingWritten, ConfiguredAlike
<1>4. /\ poll'.found = {} /\ poll'.settles = FALSE
  BY <1>1 DEF NoPoll
<1>5. rows' = fresh \cup {row \in table : \A t \in fresh : t.id # row.id}
  BY <1>1 DEF recordScan
<1>6. table \subseteq rows /\ \A row \in table : Mine(row)
  BY DEF purgeBlacklisted
<1>7. \A row \in rows : Mine(row) => row \in table
  BY DEF purgeBlacklisted
<1>8. fresh \subseteq some /\ fresh \subseteq poll.found /\ \A t \in fresh : Mine(t)
  OBVIOUS
<1>9. \A t \in some : Mine(t) /\ (\A row \in table : row.id = t.id => t.at >= row.at) => t \in fresh
  OBVIOUS
<1> HIDE DEF table, fresh
<1>10. rows' \subseteq rows \cup poll.found /\ \A row \in rows' : Mine(row)
  BY <1>5, <1>6, <1>8
<1>11. RowsFit'
  <2>1. OneOfEach(rows')
    <3> SUFFICES ASSUME NEW r \in rows', NEW s \in rows', r.id = s.id PROVE r = s
      BY DEF OneOfEach
    <3>1. \A x, y \in poll.found : x.id = y.id => x = y
      BY <1>2 DEF RowsFit, OneOfEach
    <3>2. \A x, y \in rows : x.id = y.id => x = y
      BY <1>2 DEF RowsFit, OneOfEach
    <3> QED BY <1>5, <1>6, <1>8, <3>1, <3>2
  <2>2. \A row \in rows' \cup poll'.found : RowFits(row)'
    BY <1>2, <1>3, <1>4, <1>10 DEF RowsFit
  <2> QED BY <1>4, <2>1, <2>2 DEF RowsFit, OneOfEach
<1>12. NoneIsAhead'
  <2> SUFFICES ASSUME NEW row \in rows' \cup poll'.found, NEW f \in File,
                      logs'[f] # <<>>, About[f].id = row.id, Best(f)'
               PROVE  row.at <= parseSession(f)'.at
    BY DEF NoneIsAhead
  <2>1. logs[f] # <<>> /\ Best(f) /\ parseSession(f)' = parseSession(f) /\ row \in rows \cup poll.found
    BY <1>1, <1>3, <1>4, <1>10
  <2> QED BY <1>2, <2>1 DEF NoneIsAhead
<1>13. PollFits'
  <2>1. armed = <<>> => noted = {} /\ ~settled'
    BY <1>2 DEF PollFits
  <2>2. \A f \in noted' : f \in File /\ logs'[f] # <<>>
    BY <1>1, <1>2 DEF PollFits
  <2> QED BY <1>1, <2>1, <2>2 DEF PollFits, NoPoll
<1>14. NothingIsMissed'
  <2> SUFFICES ASSUME NEW f \in File, Settles(f)', settled'
               PROVE  parseSession(f) \in rows'
    BY <1>3, <1>4 DEF NothingIsMissed
  <2>1. Settles(f)
    BY <1>1, <1>3 DEF Settles, Watched, Owed, loadMonitoredTranscriptStores, loadTranscriptStores
  <2>2. Stands(f) /\ Mine(parseSession(f)) /\ Best(f) /\ logs[f] # <<>> /\ parseSession(f).id = About[f].id
    BY <2>1, <1>2, ThreadOf DEF Settles, Stands, Candidates
  <2>3. /\ parseSession(f) \in rows \cup some
        /\ \A row \in some : row.id = About[f].id => row = parseSession(f)
    BY <2>1
  <2>4. CASE parseSession(f) \in some
    <3>1. \A row \in table : row.id = parseSession(f).id => parseSession(f).at >= row.at
      <4> SUFFICES ASSUME NEW row \in table, row.id = About[f].id PROVE parseSession(f).at >= row.at
        BY <2>2
      <4>1. row \in rows
        BY <1>6
      <4>2. row.at <= parseSession(f).at
        BY <1>2, <2>2, <4>1 DEF NoneIsAhead
      <4>3. row.at \in Nat /\ parseSession(f).at \in Nat
        BY <1>2, <2>4, <4>1 DEF RowsFit, RowFits
      <4> QED BY <4>2, <4>3
    <3> QED BY <1>5, <1>9, <2>2, <2>4, <3>1
  <2>5. CASE parseSession(f) \notin some
    <3>1. parseSession(f) \in table
      BY <1>7, <2>2, <2>3, <2>5
    <3>2. \A t \in fresh : t.id # parseSession(f).id
      BY <1>8, <2>2, <2>3, <2>5
    <3> QED BY <1>5, <3>1, <3>2
  <2> QED BY <2>4, <2>5
<1>15. NoRowIsOffLimits'
  <2> SUFFICES ASSUME NEW row \in rows'
               PROVE  RepoOf[row.project] \notin blacklist.repos /\ blacklist.paths \cap Around[row.project] = {}
    BY <1>1 DEF NoRowIsOffLimits
  <2>1. Mine(row) /\ row.project \in Dir
    BY <1>2, <1>10 DEF RowsFit, RowFits
  <2>2. row.project # NoDir
    BY <2>1, HomeAssumption
  <2> QED BY <2>1, <2>2 DEF Mine, isBlacklisted, Inside
<1>16. ConsentComesFirst'
  BY <1>1, <1>2, <1>4, <1>10 DEF ConsentComesFirst
<1> QED BY <1>3, <1>11, <1>12, <1>13, <1>14, <1>15, <1>16 DEF ScanInv

LEMMA RecordingKeeps ==
    ASSUME ScanInv, recordPoll
    PROVE  ScanInv'
<1>1. /\ rows' = recordScan(purgeBlacklisted(rows), poll.found) /\ purged' = blacklist /\ poll' = NoPoll
      /\ settled' = (settled \/ poll.settles)
      /\ UNCHANGED <<logs, turn, writes, consent, armed, noted, blacklist, sources, hosts>>
  BY DEF recordPoll, homeVars
<1>2. PollFits /\ NothingIsMissed
  BY DEF ScanInv
<1>3. settled' \in BOOLEAN /\ (armed = <<>> => ~settled')
  BY <1>1, <1>2 DEF PollFits
<1>4. \A f \in File : Settles(f) /\ settled' =>
        /\ parseSession(f) \in rows \cup poll.found
        /\ \A row \in poll.found : row.id = About[f].id => row = parseSession(f)
  BY <1>1, <1>2 DEF NothingIsMissed
<1> QED BY <1>1, <1>3, <1>4, RecordsKeep

\* A poll that fails has recorded nothing, or some of what it read.
LEMMA FailingKeeps ==
    ASSUME ScanInv, PollFails
    PROVE  ScanInv'
<1>1. /\ settled' = (settled /\ poll.settles) /\ poll' = NoPoll
      /\ UNCHANGED <<logs, turn, writes, consent, armed, noted, blacklist, sources, hosts>>
  BY DEF PollFails, homeVars
<1>2. /\ TranscriptsFit /\ ParentsWrite /\ RowsFit /\ NoneIsAhead /\ PollFits
      /\ NothingIsMissed /\ NoRowIsOffLimits /\ ConsentComesFirst
  BY DEF ScanInv
<1>3. settled' \in BOOLEAN /\ (armed = <<>> => ~settled')
  BY <1>1, <1>2 DEF PollFits
<1>4. \A f \in File : Settles(f) /\ settled' =>
        /\ parseSession(f) \in rows
        /\ \A row \in poll.found : row.id = About[f].id => row = parseSession(f)
  BY <1>1, <1>2 DEF NothingIsMissed
<1>5. CASE UNCHANGED <<rows, purged>>
  <2>1. /\ TranscriptsFit' /\ ParentsWrite'
        /\ \A f \in File : /\ parseSession(f)' = parseSession(f) /\ Best(f)' = Best(f)
                           /\ Stands(f)' = Stands(f)
        /\ \A row : RowFits(row)' = RowFits(row)
    <3>1. UNCHANGED <<logs, turn, writes, hosts>> /\ UNCHANGED <<logs, blacklist, sources, hosts>>
      BY <1>1
    <3> QED BY <1>2, <3>1, NothingWritten, ConfiguredAlike
  <2>2. poll'.found = {} /\ poll'.settles = FALSE /\ rows' = rows
    BY <1>1, <1>5 DEF NoPoll
  <2>3. RowsFit' /\ NoneIsAhead' /\ NoRowIsOffLimits'
    BY <1>1, <1>2, <1>5, <2>1, <2>2 DEF RowsFit, OneOfEach, NoneIsAhead, NoRowIsOffLimits
  <2>4. PollFits'
    BY <1>1, <1>2, <1>3 DEF PollFits, NoPoll
  <2>5. \A f \in File : Settles(f)' = Settles(f)
    BY <1>1, <2>1 DEF Settles, Watched, Owed, loadMonitoredTranscriptStores, loadTranscriptStores
  <2>6. NothingIsMissed'
    BY <1>4, <2>1, <2>2, <2>5 DEF NothingIsMissed
  <2>7. ConsentComesFirst'
    BY <1>1, <1>2, <2>2 DEF ConsentComesFirst
  <2> QED BY <2>1, <2>3, <2>4, <2>6, <2>7 DEF ScanInv
<1>6. ASSUME NEW some \in SUBSET poll.found, rows' = recordScan(purgeBlacklisted(rows), some), purged' = blacklist
      PROVE  ScanInv'
  <2>1. \A f \in File : Settles(f) /\ settled' =>
          /\ parseSession(f) \in rows \cup some
          /\ \A row \in some : row.id = About[f].id => row = parseSession(f)
    BY <1>4
  <2> QED BY <1>1, <1>3, <1>6, <2>1, RecordsKeep
<1> QED BY <1>5, <1>6 DEF PollFails

\* Consent that comes or goes changes nothing that is there.
LEMMA ConsentKeeps ==
    ASSUME ScanInv, Consent
    PROVE  ScanInv'
<1>1. /\ consent' # "never"
      /\ UNCHANGED <<logs, turn, writes, armed, noted, poll, rows, settled, purged, blacklist, sources, hosts>>
  BY DEF Consent, homeVars
<1>2. /\ TranscriptsFit /\ ParentsWrite /\ RowsFit /\ NoneIsAhead /\ PollFits
      /\ NothingIsMissed /\ NoRowIsOffLimits
  BY DEF ScanInv
<1>3. /\ TranscriptsFit' /\ ParentsWrite'
      /\ \A f \in File : /\ parseSession(f)' = parseSession(f) /\ Best(f)' = Best(f)
                         /\ Stands(f)' = Stands(f)
      /\ \A row : RowFits(row)' = RowFits(row)
  <2>1. UNCHANGED <<logs, turn, writes, hosts>> /\ UNCHANGED <<logs, blacklist, sources, hosts>>
    BY <1>1
  <2> QED BY <1>2, <2>1, NothingWritten, ConfiguredAlike
<1>4. RowsFit' /\ NoneIsAhead' /\ PollFits' /\ NoRowIsOffLimits'
  BY <1>1, <1>2, <1>3 DEF RowsFit, OneOfEach, NoneIsAhead, PollFits, NoRowIsOffLimits
<1>5. \A f \in File : Settles(f)' = Settles(f)
  BY <1>1, <1>3 DEF Settles, Watched, Owed, loadMonitoredTranscriptStores, loadTranscriptStores
<1>6. NothingIsMissed'
  BY <1>1, <1>2, <1>3, <1>5 DEF NothingIsMissed
<1>7. ConsentComesFirst'
  BY <1>1 DEF ConsentComesFirst
<1> QED BY <1>3, <1>4, <1>6, <1>7 DEF ScanInv

\* A change of the configuration takes back what was settled.
LEMMA ReconfiguringKeeps ==
    ASSUME ScanInv, Reconfigured
    PROVE  ScanInv'
<1>1. /\ settled' = FALSE /\ poll' = [poll EXCEPT !.settles = FALSE]
      /\ UNCHANGED <<hosts, logs, turn, writes, consent, armed, noted, rows, purged>>
  BY DEF Reconfigured
<1>2. /\ TranscriptsFit /\ ParentsWrite /\ RowsFit /\ NoneIsAhead /\ PollFits /\ NoRowIsOffLimits
      /\ ConsentComesFirst
  BY DEF ScanInv
<1>3. /\ TranscriptsFit' /\ ParentsWrite'
      /\ \A f \in File : parseSession(f)' = parseSession(f) /\ Best(f)' = Best(f)
      /\ \A row : RowFits(row)' = RowFits(row)
  <2>1. UNCHANGED <<logs, turn, writes, hosts>>
    BY <1>1
  <2> QED BY <1>2, <2>1, NothingWritten
<1>4. poll' = [at |-> poll.at, found |-> poll.found, settles |-> FALSE]
  BY <1>1, <1>2 DEF PollFits
<1>5. poll'.at = poll.at /\ poll'.found = poll.found /\ poll'.settles = FALSE
  BY <1>4
<1>6. RowsFit'
  BY <1>1, <1>2, <1>3, <1>5 DEF RowsFit, OneOfEach
<1>7. NoneIsAhead'
  BY <1>1, <1>2, <1>3, <1>5 DEF NoneIsAhead
<1>8. PollFits'
  <2>1. poll = NoPoll => poll' = NoPoll
    BY <1>4 DEF NoPoll
  <2> QED BY <1>1, <1>2, <1>4, <1>5, <2>1 DEF PollFits
<1>9. NothingIsMissed' /\ NoRowIsOffLimits' /\ ConsentComesFirst'
  BY <1>1, <1>2, <1>5 DEF NothingIsMissed, NoRowIsOffLimits, ConsentComesFirst
<1> QED BY <1>3, <1>6, <1>7, <1>8, <1>9 DEF ScanInv

LEMMA KillKeeps ==
    ASSUME ScanInv, NEW f \in File, Kill(f)
    PROVE  ScanInv'
<1>1. /\ turn[f] = "running" /\ turn' = [turn EXCEPT ![f] = "severed"]
      /\ UNCHANGED <<logs, writes, consent, armed, noted, poll, rows, settled, purged, blacklist, sources, hosts>>
  BY DEF Kill, homeVars
<1>2. /\ TranscriptsFit /\ ParentsWrite /\ RowsFit /\ NoneIsAhead /\ PollFits
      /\ NothingIsMissed /\ NoRowIsOffLimits /\ ConsentComesFirst
  BY DEF ScanInv
<1>3. TranscriptsFit'
  <2>1. ASSUME NEW g \in File PROVE TranscriptFits(g, logs[g], turn'[g], writes)
    <3>1. TranscriptFits(g, logs[g], turn[g], writes)
      BY <1>2 DEF TranscriptsFit
    <3>2. CASE g = f
      <4>1. turn'[g] = "severed" /\ turn[g] = "running"
        BY <1>1, <1>2, <3>2 DEF TranscriptsFit
      <4> QED BY <3>1, <4>1 DEF TranscriptFits
    <3>3. CASE g # f
      <4>1. turn'[g] = turn[g]
        BY <1>1, <1>2, <3>3 DEF TranscriptsFit
      <4> QED BY <3>1, <4>1
    <3> QED BY <3>2, <3>3
  <2> QED BY <1>1, <1>2, <2>1 DEF TranscriptsFit
<1>4. \A g : parseSession(g)' = parseSession(g) /\ Automated(g)' = Automated(g)
  BY <1>1, SameReading
<1>5. \A g \in File : Best(g)' = Best(g)
  BY <1>1, <1>4 DEF Best
<1>6. ASSUME NEW g \in File PROVE Settles(g)' = Settles(g)
  <2>1. Candidates' = Candidates
    BY <1>1 DEF Candidates, loadMonitoredTranscriptStores, loadTranscriptStores, SlugBlocked, Inside
  <2>2. Mine(parseSession(g))' = Mine(parseSession(g))
    <3>1. Mine(parseSession(g))' = ~isBlacklisted(blacklist', parseSession(g)'.project,
                                                   RepoOf[parseSession(g)'.project])
      BY DEF Mine, isBlacklisted, Inside
    <3> QED BY <1>1, <1>4, <3>1 DEF Mine
  <2>3. Watched(g)' = Watched(g) /\ Owed(g)' = Owed(g)
    BY <1>1 DEF Watched, Owed, loadMonitoredTranscriptStores, loadTranscriptStores
  <2> QED BY <1>4, <1>5, <2>1, <2>2, <2>3 DEF Settles, Stands
<1>7. ParentsWrite' /\ PollFits' /\ NoRowIsOffLimits' /\ ConsentComesFirst'
  BY <1>1, <1>2 DEF ParentsWrite, PollFits, NoRowIsOffLimits, ConsentComesFirst
<1>8. RowsFit' /\ NoneIsAhead'
  BY <1>1, <1>2, <1>4, <1>5 DEF RowsFit, RowFits, OneOfEach, NoneIsAhead
<1>9. NothingIsMissed'
  BY <1>1, <1>2, <1>4, <1>6 DEF NothingIsMissed
<1> QED BY <1>3, <1>7, <1>8, <1>9 DEF ScanInv

-----------------------------------------------------------------------------
(* A transcript that grows.                                                *)

\* What is written now is the latest that was said; or nothing was said, and the thread
\* stands where it stood.
LEMMA Grows ==
    ASSUME NEW f \in File, NEW q \in Seq(LogRecord), NEW e \in Seq(LogRecord), NEW w \in Nat,
           NEW now, NEW then, TranscriptFits(f, q, now, w), TranscriptFits(f, q \o e, then, w + 1),
           q \o e # <<>>, \A i \in 1..Len(e) : e[i].at = w, NEW roots
    PROVE  /\ \/ ThreadIn(f, q \o e, roots).at = w
              \/ /\ q # <<>> /\ ThreadIn(f, q \o e, roots).at = ThreadIn(f, q, roots).at
                 /\ ThreadIn(f, q \o e, roots).users = ThreadIn(f, q, roots).users
                 /\ ThreadIn(f, q \o e, roots).count = ThreadIn(f, q, roots).count
           /\ ThreadIn(f, q \o e, roots).users >= ThreadIn(f, q, roots).users
           /\ ThreadIn(f, q \o e, roots).count >= ThreadIn(f, q, roots).count
<1> DEFINE j == q \o e
<1>1. \A kinds : KindsIn(q, kinds) \subseteq KindsIn(j, kinds)
  BY KindsJoined
<1>2. \A kinds : KindsIn(e, kinds) = {} =>
        /\ KindsIn(j, kinds) = KindsIn(q, kinds)
        /\ KindsIn(q, kinds) # {} => LatestIn(j, kinds) = LatestIn(q, kinds)
  BY KindsJoined
<1>3. KindsIn(e, ConvoKinds) # {} => LatestIn(j, ConvoKinds) = LatestIn(e, ConvoKinds)
  BY KindsJoined
<1>4. j # <<>> /\ KindsIn(j, ConvoKinds) # {}
  BY DEF TranscriptFits
<1>5. TranscriptFits(f, j, then, w + 1)
  OBVIOUS
<1> HIDE DEF j
<1>6. \A kinds : /\ IsFiniteSet(KindsIn(j, kinds)) /\ Cardinality(KindsIn(q, kinds)) \in Nat
                 /\ Cardinality(KindsIn(j, kinds)) \in Nat
  BY <1>5, ReadNumbers
<1>7. ASSUME NEW kinds PROVE Cardinality(KindsIn(j, kinds)) >= Cardinality(KindsIn(q, kinds))
  <2>1. Cardinality(KindsIn(q, kinds)) <= Cardinality(KindsIn(j, kinds))
    BY <1>1, <1>6, FS_Subset
  <2> QED BY <1>6, <2>1
<1>8. CASE KindsIn(e, ConvoKinds) # {}
  <2>1. \E i \in 1..Len(e) : LatestIn(e, ConvoKinds) = e[i]
    BY <1>8, LatestIsOne
  <2>2. LatestIn(j, ConvoKinds).at = w
    BY <1>3, <1>8, <2>1
  <2> QED BY <1>7, <2>2 DEF ThreadIn, j
<1>9. CASE KindsIn(e, ConvoKinds) = {}
  <2>1. KindsIn(e, {"user"}) = {}
    BY <1>9 DEF KindsIn, ConvoKinds
  <2>2. KindsIn(j, ConvoKinds) = KindsIn(q, ConvoKinds) /\ KindsIn(j, {"user"}) = KindsIn(q, {"user"})
    BY <1>2, <1>9, <2>1
  <2>3. LatestIn(j, ConvoKinds) = LatestIn(q, ConvoKinds)
    BY <1>2, <1>4, <1>9, <2>2
  <2>4. q # <<>>
    BY <1>4, <2>2, EmptySeq DEF KindsIn
  <2> QED BY <1>7, <2>2, <2>3, <2>4 DEF ThreadIn, j
<1> QED BY <1>8, <1>9

\* One who is outdone by a transcript that has grown was outdone by it at most.
LEMMA RicherGrows ==
    ASSUME NEW t, NEW p, NEW x,
           /\ t.users \in Nat /\ t.count \in Nat /\ t.at \in Nat /\ t.sub \in BOOLEAN
           /\ p.users \in Nat /\ p.count \in Nat /\ p.at \in Nat /\ p.sub \in BOOLEAN
           /\ x.users \in Nat /\ x.count \in Nat /\ x.at \in Nat
           /\ x.sub = p.sub /\ x.users >= p.users /\ x.count >= p.count /\ x.at >= p.at,
           richer(t, x)
    PROVE  richer(t, p)
BY DEF richer

LEMMA WriteKeeps ==
    ASSUME ScanInv, NEW w \in File, NEW entries \in Seq(LogRecord), NEW then,
           Write(w, entries, then), Parented(w), logs[w] \o entries # <<>>,
           \A i \in 1..Len(entries) : entries[i].at = writes,
           TranscriptFits(w, logs[w] \o entries, then, writes + 1)
    PROVE  ScanInv'
<1>1. /\ writes' = writes + 1 /\ logs' = [logs EXCEPT ![w] = logs[w] \o entries]
      /\ turn' = [turn EXCEPT ![w] = then]
      /\ noted' = IF Watched(w) THEN noted \cup {w} ELSE noted
      /\ UNCHANGED <<consent, armed, poll, rows, settled, purged, blacklist, sources, hosts>>
  BY DEF Write, homeVars
<1>2. /\ TranscriptsFit /\ ParentsWrite /\ RowsFit /\ NoneIsAhead /\ PollFits
      /\ NothingIsMissed /\ NoRowIsOffLimits /\ ConsentComesFirst
  BY DEF ScanInv
<1>3. /\ writes \in Nat /\ logs \in [File -> Seq(LogRecord)] /\ DOMAIN turn = File
      /\ \A f \in File : TranscriptFits(f, logs[f], turn[f], writes)
  BY <1>2 DEF TranscriptsFit
<1>4. /\ logs'[w] = logs[w] \o entries /\ turn'[w] = then
      /\ \A f \in File : f # w => logs'[f] = logs[f] /\ turn'[f] = turn[f]
  BY <1>1, <1>3
<1>5. TranscriptsFit'
  <2>1. \A f \in File : logs'[f] \in Seq(LogRecord)
    BY <1>3, <1>4 DEF TranscriptFits
  <2>2. logs' \in [File -> Seq(LogRecord)]
    BY <1>1, <1>3, <2>1
  <2>3. ASSUME NEW f \in File PROVE TranscriptFits(f, logs'[f], turn'[f], writes')
    <3>1. CASE f = w
      BY <1>1, <1>4, <3>1
    <3>2. CASE f # w
      <4>1. TranscriptFits(f, logs[f], turn[f], writes)
        BY <1>3
      <4>2. logs[f] \in Seq(LogRecord) /\ \A i \in 1..Len(logs[f]) : logs[f][i] \in LogRecord
        BY <4>1, ElementOfSeq DEF TranscriptFits
      <4>3. ASSUME NEW i \in 1..Len(logs[f]) PROVE RecordFits(f, logs[f][i], writes + 1)
        <5>1. RecordFits(f, logs[f][i], writes) /\ logs[f][i].at \in Nat
          BY <4>1, <4>2 DEF TranscriptFits, LogRecord
        <5>2. logs[f][i].at < writes + 1
          BY <1>3, <5>1 DEF RecordFits
        <5> QED BY <5>1, <5>2 DEF RecordFits
      <4>4. TranscriptFits(f, logs[f], turn[f], writes + 1)
        BY <4>1, <4>3 DEF TranscriptFits
      <4> QED BY <1>1, <1>4, <3>2, <4>4
    <3> QED BY <3>1, <3>2
  <2>4. DOMAIN turn' = File /\ writes' \in Nat
    BY <1>1, <1>3
  <2> QED BY <2>2, <2>3, <2>4 DEF TranscriptsFit
<1>6. /\ logs'[w] # <<>> /\ \A f \in File : logs[f] # <<>> => logs'[f] # <<>>
      /\ \A f \in File : f # w => (logs'[f] # <<>> <=> logs[f] # <<>>)
  BY <1>4
<1>7. ParentsWrite'
  <2> SUFFICES ASSUME NEW f \in File, logs'[f] # <<>>, About[f].sub
               PROVE  \E p \in File : About[p].id = About[f].id /\ ~About[p].sub /\ logs'[p] # <<>>
    BY DEF ParentsWrite
  <2>1. \E p \in File : About[p].id = About[f].id /\ ~About[p].sub /\ logs[p] # <<>>
    BY <1>2, <1>6 DEF ParentsWrite, Parented
  <2> QED BY <1>6, <2>1
<1>8. \A f \in File : f # w => parseSession(f)' = parseSession(f) /\ Automated(f)' = Automated(f)
  BY <1>1, <1>4, SameReading
<1>9. ASSUME NEW f \in File, logs'[f] # <<>>
      PROVE  LET t == parseSession(f)'
             IN  /\ t.users \in Nat /\ t.count \in Nat /\ t.at \in Nat /\ t.sub = About[f].sub
                 /\ t.sub \in BOOLEAN
  <2>1. TranscriptFits(f, logs'[f], turn'[f], writes')
    BY <1>5 DEF TranscriptsFit
  <2>2. logs'[f] \in Seq(LogRecord) /\ KindsIn(logs'[f], ConvoKinds) # {}
    BY <1>9, <2>1 DEF TranscriptFits
  <2>3. LatestIn(logs'[f], ConvoKinds).at \in Nat
    BY <2>2, LatestIsOne DEF LogRecord
  <2>4. \A kinds : Cardinality(KindsIn(logs'[f], kinds)) \in Nat
    BY <2>1, ReadNumbers
  <2>5. parseSession(f)' = ThreadIn(f, logs'[f], hosts')
    BY ReadInNext
  <2>6. About[f].sub \in BOOLEAN
    BY ScanAssumption DEF FileRecord
  <2> QED BY <2>3, <2>4, <2>5, <2>6 DEF ThreadIn
<1>10. \A f \in File : logs[f] # <<>> =>
         LET t == parseSession(f)
         IN  /\ t.users \in Nat /\ t.count \in Nat /\ t.at \in Nat /\ t.at < writes
             /\ t.sub = About[f].sub /\ t.sub \in BOOLEAN
  BY <1>2, ThreadOf DEF RowFits
<1>11. LET t == parseSession(w)'  p == parseSession(w)
       IN  /\ t.at = writes \/ (logs[w] # <<>> /\ t.at = p.at /\ t.users = p.users /\ t.count = p.count)
           /\ t.users >= p.users /\ t.count >= p.count
  <2>1. parseSession(w) = ThreadIn(w, logs[w], hosts) /\ parseSession(w)' = ThreadIn(w, logs[w] \o entries, hosts)
    BY <1>1, <1>4, ReadIn, ReadInNext
  <2>2. logs[w] \in Seq(LogRecord) /\ TranscriptFits(w, logs[w], turn[w], writes)
    BY <1>3
  <2> QED BY <1>3, <2>1, <2>2, Grows
<1>12. ASSUME NEW t, NEW u, NEW p, u.sub = t.sub, u.users = t.users, u.count = t.count, u.at = t.at
       PROVE  richer(u, p) <=> richer(t, p)
  BY <1>12 DEF richer
<1>13. ASSUME NEW f \in File, f # w, logs[f] # <<>>, Best(f)' PROVE Best(f)
  <2> SUFFICES ASSUME NEW g \in File, g # f, About[g].id = About[f].id, logs[g] # <<>>
               PROVE  richer(parseSession(f), parseSession(g))
    BY DEF Best
  <2>1. richer(parseSession(f)', parseSession(g)')
    BY <1>6, <1>13 DEF Best, richer
  <2>2. CASE g # w
    BY <1>8, <1>13, <2>1, <2>2
  <2>3. CASE g = w
    <3> DEFINE t == parseSession(f)
               p == parseSession(w)
               x == parseSession(w)'
    <3>1. richer(t, x)
      BY <1>8, <1>13, <2>1, <2>3
    <3>2. /\ t.users \in Nat /\ t.count \in Nat /\ t.at \in Nat /\ t.sub \in BOOLEAN
          /\ p.users \in Nat /\ p.count \in Nat /\ p.at \in Nat /\ p.at < writes /\ p.sub \in BOOLEAN
          /\ p.sub = About[w].sub
      BY <1>10, <1>13, <2>3
    <3>3. /\ x.users \in Nat /\ x.count \in Nat /\ x.at \in Nat /\ x.sub = About[w].sub
      BY <1>6, <1>9
    <3>4. x.users >= p.users /\ x.count >= p.count /\ (x.at = writes \/ x.at = p.at)
      BY <1>11
    <3> HIDE DEF t, p, x
    <3>5. x.at >= p.at
      BY <1>3, <3>2, <3>4
    <3>6. richer(t, p)
      BY <3>1, <3>2, <3>3, <3>4, <3>5, RicherGrows
    <3> QED BY <2>3, <3>6 DEF t, p
  <2> QED BY <2>2, <2>3
<1>14. RowsFit'
  <2>1. \A row : RowFits(row) => RowFits(row)'
    BY <1>1, <1>3 DEF RowFits
  <2> QED BY <1>1, <1>2, <2>1 DEF RowsFit, OneOfEach
<1>15. NoneIsAhead'
  <2> SUFFICES ASSUME NEW row \in rows \cup poll.found, NEW f \in File,
                      logs'[f] # <<>>, About[f].id = row.id, Best(f)'
               PROVE  row.at <= parseSession(f)'.at
    BY <1>1 DEF NoneIsAhead
  <2>1. row.at \in Nat /\ row.at < writes
    BY <1>2 DEF RowsFit, RowFits
  <2>2. CASE f # w
    <3>1. logs[f] # <<>> /\ Best(f) /\ parseSession(f)' = parseSession(f)
      BY <1>6, <1>8, <1>13, <2>2
    <3> QED BY <1>2, <3>1 DEF NoneIsAhead
  <2>3. CASE f = w /\ parseSession(w)'.at = writes
    BY <1>3, <2>1, <2>3
  <2>4. CASE f = w /\ parseSession(w)'.at # writes
    <3> DEFINE t == parseSession(w)
               u == parseSession(w)'
    <3>1. logs[w] # <<>> /\ u.at = t.at /\ u.users = t.users /\ u.count = t.count
      BY <1>11, <2>4
    <3>2. u.sub = t.sub
      BY <1>6, <1>9, <1>10, <3>1
    <3> HIDE DEF t, u
    <3>3. \A p : richer(u, p) <=> richer(t, p)
      BY <1>12, <3>1, <3>2
    <3>4. Best(w)
      <4> SUFFICES ASSUME NEW g \in File, g # w, About[g].id = About[w].id, logs[g] # <<>>
                   PROVE  richer(parseSession(w), parseSession(g))
        BY DEF Best
      <4>1. richer(parseSession(w)', parseSession(g)')
        BY <1>6, <2>4 DEF Best, richer
      <4>2. richer(u, parseSession(g))
        BY <1>8, <4>1 DEF u
      <4> QED BY <3>3, <4>2 DEF t
    <3>5. row.at <= t.at
      BY <1>2, <2>4, <3>1, <3>4 DEF NoneIsAhead, t
    <3> QED BY <2>4, <3>1, <3>5 DEF u
  <2> QED BY <2>2, <2>3, <2>4
<1>16. PollFits'
  <2>1. Watched(w) => armed # <<>>
    BY DEF Watched
  <2>2. \A f \in noted' : f \in File /\ logs'[f] # <<>>
    BY <1>1, <1>2, <1>6 DEF PollFits
  <2> QED BY <1>1, <1>2, <2>1, <2>2 DEF PollFits
<1>17. \A f \in File : Settles(f)' => Settles(f) /\ parseSession(f)' = parseSession(f)
  <2> SUFFICES ASSUME NEW f \in File, Settles(f)'
               PROVE  Settles(f) /\ parseSession(f)' = parseSession(f)
    OBVIOUS
  <2>1. /\ Stands(f)' /\ Watched(f) /\ \A g \in noted' : About[g].id # About[f].id
    BY <1>1 DEF Settles, Watched, Owed, loadMonitoredTranscriptStores, loadTranscriptStores
  <2>2. About[w].id # About[f].id
    <3> SUFFICES ASSUME About[w].id = About[f].id PROVE FALSE
      OBVIOUS
    <3>1. About[w].store = About[f].store /\ About[w].format = About[f].format
      BY SessionsLieTogether
    <3>2. Watched(w)
      BY <2>1, <3>1 DEF Watched
    <3> QED BY <1>1, <2>1, <3>2
  <2>3. f # w /\ logs'[f] = logs[f]
    BY <1>4, <2>2
  <2>4. ~Owed(f)
    BY <1>1, <2>1 DEF Owed
  <2>5. parseSession(f)' = parseSession(f) /\ Automated(f)' = Automated(f)
    BY <1>8, <2>3
  <2>6. f \in Candidates
    <3>1. f \in Candidates'
      BY <2>1 DEF Stands
    <3> QED BY <1>1, <2>3, <3>1
            DEF Candidates, loadMonitoredTranscriptStores, loadTranscriptStores, SlugBlocked, Inside
  <2>7. Mine(parseSession(f)) /\ ~Automated(f)
    <3>1. Mine(parseSession(f))' /\ ~Automated(f)'
      BY <2>1 DEF Stands
    <3>2. Mine(parseSession(f))' = ~isBlacklisted(blacklist', parseSession(f)'.project,
                                                   RepoOf[parseSession(f)'.project])
      BY DEF Mine, isBlacklisted, Inside
    <3> QED BY <1>1, <2>5, <3>1, <3>2 DEF Mine
  <2>8. Best(f)
    <3>1. Best(f)' /\ logs[f] # <<>>
      BY <2>1, <2>6 DEF Stands, Candidates
    <3> QED BY <1>13, <2>3, <3>1
  <2> QED BY <2>1, <2>4, <2>5, <2>6, <2>7, <2>8 DEF Settles, Stands
<1>18. NothingIsMissed'
  BY <1>1, <1>2, <1>17 DEF NothingIsMissed
<1>19. NoRowIsOffLimits' /\ ConsentComesFirst'
  BY <1>1, <1>2 DEF NoRowIsOffLimits, ConsentComesFirst, Watched
<1> QED BY <1>5, <1>7, <1>14, <1>15, <1>16, <1>18, <1>19 DEF ScanInv

-----------------------------------------------------------------------------
(* What the harnesses write.                                               *)

\* Records of this moment, each in its place.
Written(f, e, w) ==
    e \in Seq(LogRecord) /\ \A i \in 1..Len(e) : e[i].at = w /\ RecordFits(f, e[i], w + 1)

LEMMA WrittenJoined ==
    ASSUME NEW f, NEW w, NEW e, NEW d, Written(f, e, w), Written(f, d, w)
    PROVE  Written(f, e \o d, w)
<1> DEFINE j == e \o d
<1>1. /\ j \in Seq(LogRecord) /\ \A i \in 1..Len(e) : j[i] = e[i]
      /\ \A i \in 1..Len(d) : j[Len(e) + i] = d[i]
      /\ \A i \in 1..Len(j) : i \in 1..Len(e) \/ \E k \in 1..Len(d) : i = Len(e) + k
  BY Joined DEF Written
<1> HIDE DEF j
<1>2. ASSUME NEW i \in 1..Len(j) PROVE j[i].at = w /\ RecordFits(f, j[i], w + 1)
  <2>1. CASE i \in 1..Len(e)
    BY <1>1, <2>1 DEF Written
  <2>2. ASSUME NEW k \in 1..Len(d), i = Len(e) + k PROVE j[i].at = w /\ RecordFits(f, j[i], w + 1)
    BY <1>1, <2>2 DEF Written
  <2> QED BY <1>1, <2>1, <2>2
<1>3. Written(f, j, w)
  BY <1>1, <1>2 DEF Written
<1> QED BY <1>3 DEF j

LEMMA NothingIsWritten ==
    ASSUME NEW f, NEW w
    PROVE  Written(f, <<>>, w) /\ \A kinds : KindsIn(<<>>, kinds) = {}
BY EmptySeq DEF Written, KindsIn

\* A line of this moment, and what it shows.
LEMMA LineWritten ==
    ASSUME NEW f \in File, writes \in Nat, NEW kind \in RecordKinds, NEW dir \in Dir \cup {NoDir},
           kind = "head" => dir = Home[f], kind \in Stamps => Own(f) /\ dir \in Dir,
           kind \notin {"head"} \cup Stamps => dir = NoDir
    PROVE  /\ Line(kind, dir) \in LogRecord /\ Line(kind, dir).kind = kind /\ Line(kind, dir).at = writes
           /\ RecordFits(f, Line(kind, dir), writes + 1)
           /\ Written(f, <<Line(kind, dir)>>, writes)
           /\ \A kinds : kind \in kinds => /\ KindsIn(<<Line(kind, dir)>>, kinds) # {}
                                           /\ LatestIn(<<Line(kind, dir)>>, kinds).kind = kind
           /\ \A kinds : kind \notin kinds => KindsIn(<<Line(kind, dir)>>, kinds) = {}
<1> DEFINE r == Line(kind, dir)
           e == <<r>>
<1>1. r = [kind |-> kind, cwd |-> dir, at |-> writes]
  BY DEF Line
<1>2. r \in LogRecord /\ r.kind = kind /\ r.at = writes /\ r.cwd = dir
  BY <1>1 DEF LogRecord
<1>3. RecordFits(f, r, writes + 1)
  BY <1>2 DEF RecordFits
<1> HIDE DEF r
<1>4. e \in Seq(LogRecord) /\ Len(e) = 1 /\ e[1] = r /\ DOMAIN e = 1..1
  BY <1>2
<1> HIDE DEF e
<1>5. Written(f, e, writes)
  BY <1>2, <1>3, <1>4 DEF Written
<1>6. ASSUME NEW kinds, kind \in kinds
      PROVE  KindsIn(e, kinds) # {} /\ LatestIn(e, kinds).kind = kind
  <2>1. KindsIn(e, kinds) # {}
    BY <1>2, <1>4, <1>6 DEF KindsIn
  <2>2. \E i \in 1..Len(e) : LatestIn(e, kinds) = e[i]
    BY <1>4, <2>1, LatestIsOne
  <2> QED BY <1>2, <1>4, <2>1, <2>2
<1>7. \A kinds : kind \notin kinds => KindsIn(e, kinds) = {}
  BY <1>2, <1>4 DEF KindsIn
<1> QED BY <1>2, <1>3, <1>5, <1>6, <1>7 DEF r, e

LEMMA PlainLine ==
    ASSUME NEW f \in File, writes \in Nat, NEW kind \in RecordKinds \ ({"head"} \cup Stamps)
    PROVE  /\ Line(kind, NoDir) \in LogRecord /\ Line(kind, NoDir).kind = kind
           /\ Line(kind, NoDir).at = writes /\ RecordFits(f, Line(kind, NoDir), writes + 1)
           /\ Written(f, <<Line(kind, NoDir)>>, writes)
           /\ \A kinds : kind \in kinds => /\ KindsIn(<<Line(kind, NoDir)>>, kinds) # {}
                                           /\ LatestIn(<<Line(kind, NoDir)>>, kinds).kind = kind
           /\ \A kinds : kind \notin kinds => KindsIn(<<Line(kind, NoDir)>>, kinds) = {}
<1>1. NoDir \in Dir \cup {NoDir} /\ kind \in RecordKinds /\ kind # "head" /\ kind \notin Stamps
  OBVIOUS
<1> QED BY <1>1, LineWritten

LEMMA HeadLine ==
    ASSUME NEW f \in File, writes \in Nat
    PROVE  /\ Line("head", Home[f]) \in LogRecord /\ Line("head", Home[f]).kind = "head"
           /\ Line("head", Home[f]).at = writes /\ RecordFits(f, Line("head", Home[f]), writes + 1)
<1> DEFINE r == Line("head", Home[f])
<1>1. r = [kind |-> "head", cwd |-> Home[f], at |-> writes] /\ Home[f] \in Dir /\ "head" \in RecordKinds
  BY ScanAssumption DEF Line, RecordKinds
<1> HIDE DEF r
<1>2. r \in LogRecord /\ r.kind = "head" /\ r.at = writes /\ r.cwd = Home[f]
  BY <1>1 DEF LogRecord
<1>3. RecordFits(f, r, writes + 1)
  BY <1>2 DEF RecordFits, Stamps
<1> QED BY <1>2, <1>3 DEF r

\* A transcript goes on: only how its turn stands is to be seen to.
LEMMA Continues ==
    ASSUME NEW f \in File, NEW q, NEW now, NEW w \in Nat, TranscriptFits(f, q, now, w),
           NEW e, Written(f, e, w), NEW then \in {"idle", "running", "severed"}, q \o e # <<>>,
           (q \o e)[1].kind = "head", KindsIn(q \o e, ConvoKinds) # {},
           Own(f) => KindsIn(q \o e, Stamps) # {},
           IF About[f].format = "codex"
           THEN /\ KindsIn(q \o e, Lifecycle) # {}
                /\ (LatestIn(q \o e, Lifecycle).kind = "start" <=> then # "idle")
           ELSE LatestIn(q \o e, ConvoKinds).kind = "step" => then # "idle"
    PROVE  TranscriptFits(f, q \o e, then, w + 1)
<1> DEFINE j == q \o e
<1>1. q \in Seq(LogRecord) /\ e \in Seq(LogRecord)
  BY DEF TranscriptFits, Written
<1>2. /\ j \in Seq(LogRecord) /\ \A i \in 1..Len(q) : j[i] = q[i]
      /\ \A i \in 1..Len(e) : j[Len(q) + i] = e[i]
      /\ \A i \in 1..Len(j) : i \in 1..Len(q) \/ \E k \in 1..Len(e) : i = Len(q) + k
  BY <1>1, Joined
<1>3. ASSUME NEW i \in 1..Len(q) PROVE RecordFits(f, q[i], w + 1)
  <2>1. RecordFits(f, q[i], w) /\ q[i].at \in Nat
    <3>1. q[i] \in LogRecord
      BY <1>1, ElementOfSeq
    <3> QED BY <3>1 DEF TranscriptFits, LogRecord
  <2>2. q[i].at < w + 1
    BY <2>1 DEF RecordFits
  <2> QED BY <2>1, <2>2 DEF RecordFits
<1> HIDE DEF j
<1>4. ASSUME NEW i \in 1..Len(j) PROVE RecordFits(f, j[i], w + 1)
  <2>1. CASE i \in 1..Len(q)
    BY <1>2, <1>3, <2>1
  <2>2. ASSUME NEW k \in 1..Len(e), i = Len(q) + k PROVE RecordFits(f, j[i], w + 1)
    BY <1>2, <2>2 DEF Written
  <2> QED BY <1>2, <2>1, <2>2
<1> QED BY <1>2, <1>4 DEF TranscriptFits, j

\* In a turn that runs, what is written goes on with what there is.
LEMMA RunsOn ==
    ASSUME ScanInv, NEW f \in File, turn[f] = "running", NEW e, Written(f, e, writes),
           NEW then \in {"idle", "running", "severed"}, Write(f, e, then),
           IF About[f].format = "codex"
           THEN IF KindsIn(e, Lifecycle) = {} THEN then # "idle"
                ELSE LatestIn(e, Lifecycle).kind = "start" <=> then # "idle"
           ELSE /\ KindsIn(e, ConvoKinds) # {}
                /\ LatestIn(e, ConvoKinds).kind = "step" => then # "idle"
    PROVE  ScanInv'
<1> DEFINE q == logs[f]
<1>1. writes \in Nat /\ TranscriptFits(f, q, turn[f], writes) /\ ParentsWrite
  BY DEF ScanInv, TranscriptsFit
<1>2. q # <<>> /\ q \in Seq(LogRecord) /\ e \in Seq(LogRecord)
  BY <1>1 DEF TranscriptFits, Written
<1>3. q \o e # <<>> /\ (q \o e)[1].kind = "head"
  <2>1. 1 \in 1..Len(q)
    BY <1>2, EmptySeq, LenProperties
  <2>2. (q \o e)[1] = q[1] /\ 1 \in 1..Len(q \o e)
    BY <1>2, <2>1, Joined
  <2>3. q[1].kind = "head"
    BY <1>1, <1>2 DEF TranscriptFits
  <2>4. q \o e # <<>>
    BY <2>2, EmptySeq
  <2> QED BY <2>2, <2>3, <2>4
<1>4. \A kinds : /\ KindsIn(q, kinds) \subseteq KindsIn(q \o e, kinds)
                 /\ KindsIn(e, kinds) = {} /\ KindsIn(q, kinds) # {} =>
                      LatestIn(q \o e, kinds) = LatestIn(q, kinds)
                 /\ KindsIn(e, kinds) # {} => LatestIn(q \o e, kinds) = LatestIn(e, kinds)
  BY <1>2, KindsJoined
<1>5. /\ KindsIn(q, ConvoKinds) # {} /\ (Own(f) => KindsIn(q, Stamps) # {})
      /\ About[f].format = "codex" =>
           KindsIn(q, Lifecycle) # {} /\ (LatestIn(q, Lifecycle).kind = "start" <=> turn[f] # "idle")
  BY <1>1, <1>2 DEF TranscriptFits
<1>6. IF About[f].format = "codex"
      THEN /\ KindsIn(q \o e, Lifecycle) # {}
           /\ (LatestIn(q \o e, Lifecycle).kind = "start" <=> then # "idle")
      ELSE LatestIn(q \o e, ConvoKinds).kind = "step" => then # "idle"
  BY <1>4, <1>5
<1>7. TranscriptFits(f, q \o e, then, writes + 1)
  BY <1>1, <1>3, <1>4, <1>5, <1>6, Continues
<1>8. Parented(f)
  BY <1>1, <1>2 DEF ParentsWrite, Parented
<1>9. \A i \in 1..Len(e) : e[i].at = writes
  BY DEF Written
<1> QED BY <1>2, <1>3, <1>7, <1>8, <1>9, WriteKeeps

LEMMA StepKeeps ==
    ASSUME ScanInv, NEW f \in File, Step(f)
    PROVE  ScanInv'
<1> DEFINE e == <<Line("step", NoDir)>>
<1>1. turn[f] = "running" /\ Write(f, e, "running") /\ writes \in Nat
  BY DEF Step, ScanInv, TranscriptsFit
<1>2. /\ Written(f, e, writes) /\ KindsIn(e, Lifecycle) = {} /\ KindsIn(e, ConvoKinds) # {}
  BY <1>1, PlainLine DEF RecordKinds, Stamps, Lifecycle, ConvoKinds
<1> HIDE DEF e
<1> QED BY <1>1, <1>2, RunsOn

LEMMA YieldKeeps ==
    ASSUME ScanInv, NEW f \in File, Yield(f)
    PROVE  ScanInv'
<1> DEFINE s == Line("say", NoDir)
           c == Line("complete", NoDir)
           one == <<s>>
           two == <<s, c>>
<1>1. turn[f] = "running" /\ writes \in Nat
  BY DEF Yield, ScanInv, TranscriptsFit
<1>2. /\ s \in LogRecord /\ s.kind = "say" /\ s.at = writes /\ RecordFits(f, s, writes + 1)
      /\ Written(f, one, writes)
      /\ KindsIn(one, ConvoKinds) # {} /\ LatestIn(one, ConvoKinds).kind = "say"
  BY <1>1, PlainLine DEF RecordKinds, Stamps, ConvoKinds
<1>3. c \in LogRecord /\ c.kind = "complete" /\ c.at = writes /\ RecordFits(f, c, writes + 1)
  BY <1>1, PlainLine DEF RecordKinds, Stamps
<1>4. Write(f, IF About[f].format = "codex" THEN two ELSE one, "idle")
  BY DEF Yield
<1> HIDE DEF s, c
<1>5. /\ two \in Seq(LogRecord) /\ Len(two) = 2 /\ two[1] = s /\ two[2] = c /\ DOMAIN two = 1..2
  BY <1>2, <1>3
<1> HIDE DEF one, two
<1>6. CASE About[f].format = "codex"
  <2>1. Written(f, two, writes)
    BY <1>2, <1>3, <1>5 DEF Written
  <2>2. KindsIn(two, Lifecycle) # {}
    BY <1>3, <1>5 DEF KindsIn, Lifecycle
  <2>3. LatestIn(two, Lifecycle).kind \in Lifecycle /\ \E i \in 1..Len(two) : LatestIn(two, Lifecycle) = two[i]
    BY <1>5, <2>2, LatestIsOne
  <2>4. LatestIn(two, Lifecycle).kind # "start"
    BY <1>2, <1>3, <1>5, <2>3 DEF Lifecycle
  <2> QED BY <1>1, <1>4, <1>6, <2>1, <2>2, <2>4, RunsOn
<1>7. CASE About[f].format # "codex"
  BY <1>1, <1>2, <1>4, <1>7, RunsOn
<1> QED BY <1>6, <1>7

LEMMA InterruptKeeps ==
    ASSUME ScanInv, NEW f \in File, Interrupt(f)
    PROVE  ScanInv'
<1> DEFINE a == <<Line("abort", NoDir)>>
           u == <<Line("user", NoDir)>>
           s == <<Line("say", NoDir)>>
<1>1. turn[f] = "running" /\ writes \in Nat
  BY DEF Interrupt, ScanInv, TranscriptsFit
<1>2. Written(f, a, writes) /\ KindsIn(a, Lifecycle) # {} /\ LatestIn(a, Lifecycle).kind = "abort"
  BY <1>1, PlainLine DEF RecordKinds, Stamps, Lifecycle
<1>3. Written(f, u, writes) /\ KindsIn(u, ConvoKinds) # {} /\ LatestIn(u, ConvoKinds).kind = "user"
  BY <1>1, PlainLine DEF RecordKinds, Stamps, ConvoKinds
<1>4. Written(f, s, writes) /\ KindsIn(s, ConvoKinds) # {} /\ LatestIn(s, ConvoKinds).kind = "say"
  BY <1>1, PlainLine DEF RecordKinds, Stamps, ConvoKinds
<1>5. \/ About[f].format = "codex" /\ Write(f, a, "idle")
      \/ About[f].format # "codex" /\ (Write(f, u, "idle") \/ Write(f, s, "idle"))
  BY DEF Interrupt
<1> HIDE DEF a, u, s
<1>6. CASE About[f].format = "codex" /\ Write(f, a, "idle")
  BY <1>1, <1>2, <1>6, RunsOn
<1>7. CASE About[f].format # "codex" /\ Write(f, u, "idle")
  BY <1>1, <1>3, <1>7, RunsOn
<1>8. CASE About[f].format # "codex" /\ Write(f, s, "idle")
  BY <1>1, <1>4, <1>8, RunsOn
<1> QED BY <1>5, <1>6, <1>7, <1>8

LEMMA PromptKeeps ==
    ASSUME ScanInv, NEW f \in File, NEW dir \in Dir, NEW stamp \in Stamps, Prompt(f, dir, stamp)
    PROVE  ScanInv'
<1> DEFINE q == logs[f]
           o == Opening(f)
           s == IF Own(f) THEN <<Line(stamp, dir)>> ELSE <<>>
           c == IF About[f].format = "codex" THEN <<Line("start", NoDir)>> ELSE <<>>
           u == <<Line("user", NoDir)>>
           e == o \o s \o c \o u
<1>1. /\ Parented(f) /\ Write(f, e, "running") /\ writes \in Nat
      /\ TranscriptFits(f, q, turn[f], writes) /\ q \in Seq(LogRecord)
  BY DEF Prompt, ScanInv, TranscriptsFit, TranscriptFits
<1>2. Written(f, u, writes) /\ KindsIn(u, Lifecycle) = {} /\ KindsIn(u, ConvoKinds) # {}
  BY <1>1, PlainLine DEF RecordKinds, Stamps, Lifecycle, ConvoKinds
<1>3. /\ Written(f, c, writes)
      /\ About[f].format = "codex" => KindsIn(c, Lifecycle) # {} /\ LatestIn(c, Lifecycle).kind = "start"
  <2>1. CASE About[f].format = "codex"
    BY <1>1, <2>1, PlainLine DEF RecordKinds, Stamps, Lifecycle
  <2>2. CASE About[f].format # "codex"
    BY <2>2, NothingIsWritten
  <2> QED BY <2>1, <2>2
<1>4. Written(f, s, writes) /\ (Own(f) => KindsIn(s, Stamps) # {})
  <2>1. CASE Own(f)
    <3>1. stamp \in RecordKinds /\ stamp # "head" /\ stamp \in {"head"} \cup Stamps
      BY DEF RecordKinds, Stamps
    <3>2. dir \in Dir \cup {NoDir}
      OBVIOUS
    <3>3. Written(f, <<Line(stamp, dir)>>, writes) /\ KindsIn(<<Line(stamp, dir)>>, Stamps) # {}
      BY <1>1, <2>1, <3>1, <3>2, LineWritten
    <3> QED BY <2>1, <3>3
  <2>2. CASE ~Own(f)
    BY <2>2, NothingIsWritten
  <2> QED BY <2>1, <2>2
<1>5. /\ Written(f, o, writes)
      /\ q = <<>> => 1 \in 1..Len(o) /\ o[1].kind = "head"
  <2>1. CASE q # <<>>
    BY <2>1, NothingIsWritten DEF Opening
  <2>2. CASE q = <<>>
    <3> DEFINE h == Line("head", Home[f])
               i == Line("inject", NoDir)
    <3>1. h \in LogRecord /\ h.kind = "head" /\ h.at = writes /\ RecordFits(f, h, writes + 1)
      BY <1>1, HeadLine
    <3>2. i \in LogRecord /\ i.at = writes /\ RecordFits(f, i, writes + 1)
      BY <1>1, PlainLine DEF RecordKinds, Stamps
    <3>3. o = <<h, i>>
      BY <2>2 DEF Opening
    <3> HIDE DEF h, i, o
    <3>4. o \in Seq(LogRecord) /\ Len(o) = 2 /\ o[1] = h /\ o[2] = i
      BY <3>1, <3>2, <3>3
    <3> QED BY <3>1, <3>2, <3>4 DEF Written
  <2> QED BY <2>1, <2>2
<1> HIDE DEF q, o, s, c, u
<1>6. /\ Written(f, o \o s, writes) /\ Written(f, o \o s \o c, writes) /\ Written(f, e, writes)
  BY <1>2, <1>3, <1>4, <1>5, WrittenJoined
<1>7. /\ o \in Seq(LogRecord) /\ s \in Seq(LogRecord) /\ c \in Seq(LogRecord) /\ u \in Seq(LogRecord)
      /\ o \o s \in Seq(LogRecord) /\ o \o s \o c \in Seq(LogRecord) /\ e \in Seq(LogRecord)
  BY <1>2, <1>3, <1>4, <1>5, <1>6 DEF Written
<1>8. \A kinds : /\ KindsIn(s, kinds) # {} => KindsIn(o \o s, kinds) # {}
                 /\ KindsIn(o \o s, kinds) \subseteq KindsIn(o \o s \o c, kinds)
                 /\ KindsIn(o \o s \o c, kinds) \subseteq KindsIn(e, kinds)
                 /\ KindsIn(u, kinds) # {} => KindsIn(e, kinds) # {}
                 /\ KindsIn(e, kinds) # {} => KindsIn(q \o e, kinds) # {}
  BY <1>1, <1>7, KindsJoined
<1>9. KindsIn(q \o e, ConvoKinds) # {} /\ (Own(f) => KindsIn(q \o e, Stamps) # {})
  <2>1. Own(f) => KindsIn(e, Stamps) # {}
    BY <1>4, <1>8
  <2> QED BY <1>2, <1>8, <2>1
<1>10. ASSUME About[f].format = "codex"
       PROVE  KindsIn(q \o e, Lifecycle) # {} /\ LatestIn(q \o e, Lifecycle).kind = "start"
  <2>1. KindsIn(o \o s \o c, Lifecycle) # {} /\ LatestIn(o \o s \o c, Lifecycle).kind = "start"
    <3>1. KindsIn(c, Lifecycle) # {} /\ LatestIn(c, Lifecycle).kind = "start"
      BY <1>3, <1>10
    <3> DEFINE a == o \o s
    <3>2. a \in Seq(LogRecord) /\ c \in Seq(LogRecord)
      BY <1>7
    <3> HIDE DEF a
    <3>3. KindsIn(a \o c, Lifecycle) # {} /\ LatestIn(a \o c, Lifecycle) = LatestIn(c, Lifecycle)
      BY <3>1, <3>2, KindsJoined
    <3> QED BY <3>1, <3>3 DEF a
  <2>2. KindsIn(e, Lifecycle) # {} /\ LatestIn(e, Lifecycle).kind = "start"
    BY <1>2, <1>7, <2>1, KindsJoined
  <2>3. q \in Seq(LogRecord)
    BY <1>1
  <2> HIDE DEF e
  <2> QED BY <1>7, <2>2, <2>3, KindsJoined
<1>11. 1 \in 1..Len(q \o e) /\ (q \o e)[1].kind = "head"
  <2>1. CASE q # <<>>
    <3>1. 1 \in 1..Len(q) /\ q[1].kind = "head"
      BY <1>1, <2>1, EmptySeq, LenProperties DEF TranscriptFits
    <3> QED BY <1>1, <1>7, <3>1, Joined
  <2>2. CASE q = <<>>
    <3>1. 1 \in 1..Len(o) /\ o[1].kind = "head"
      BY <1>5, <2>2
    <3>2. 1 \in 1..Len(o \o s) /\ (o \o s)[1] = o[1]
      BY <1>7, <3>1, Joined
    <3>3. 1 \in 1..Len(o \o s \o c) /\ (o \o s \o c)[1] = o[1]
      BY <1>7, <3>2, Joined
    <3>4. 1 \in 1..Len(e) /\ e[1] = o[1]
      BY <1>7, <3>3, Joined
    <3>5. q \o e = e
      BY <1>7, <2>2, ConcatEmptySeq
    <3> QED BY <3>1, <3>4, <3>5
  <2> QED BY <2>1, <2>2
<1> HIDE DEF e
<1>12. q \o e # <<>>
  BY <1>11, EmptySeq
<1>13. TranscriptFits(f, q \o e, "running", writes + 1)
  BY <1>1, <1>6, <1>9, <1>10, <1>11, <1>12, Continues
<1>14. \A i \in 1..Len(e) : e[i].at = writes
  BY <1>6 DEF Written
<1> QED BY <1>1, <1>7, <1>12, <1>13, <1>14, WriteKeeps DEF q

-----------------------------------------------------------------------------
LEMMA ScanInvStep == ScanInv /\ [ScanNext]_<<scanVars, homeVars>> => ScanInv'
<1> SUFFICES ASSUME ScanInv, [ScanNext]_<<scanVars, homeVars>> PROVE ScanInv'
  OBVIOUS
<1>1. ASSUME NEW f \in File, NEW dir \in Dir, NEW stamp \in Stamps, Prompt(f, dir, stamp) PROVE ScanInv'
  BY <1>1, PromptKeeps
<1>2. ASSUME NEW f \in File, Step(f) \/ Yield(f) \/ Interrupt(f) \/ Kill(f) PROVE ScanInv'
  BY <1>2, StepKeeps, YieldKeeps, InterruptKeeps, KillKeeps
<1>3. ASSUME NEW full \in BOOLEAN, scanActiveTranscripts(full) PROVE ScanInv'
  BY <1>3, ScanKeeps
<1>4. ASSUME recordPoll \/ PollFails \/ Consent PROVE ScanInv'
  BY <1>4, RecordingKeeps, FailingKeeps, ConsentKeeps
<1>5. ASSUME NEW b \in Blockable, Blacklist(b) PROVE ScanInv'
  BY <1>5, ReconfiguringKeeps DEF Blacklist
<1>6. ASSUME NEW formats \in Selections, Select(formats) PROVE ScanInv'
  BY <1>6, ReconfiguringKeeps DEF Select
<1>7. ASSUME UNCHANGED <<scanVars, homeVars>> PROVE ScanInv'
  <2>1. /\ UNCHANGED <<logs, turn, writes, consent, armed, noted, poll, rows, settled, purged>>
        /\ UNCHANGED <<blacklist, sources, hosts>>
    BY <1>7 DEF scanVars, homeVars
  <2>2. /\ TranscriptsFit /\ ParentsWrite /\ RowsFit /\ NoneIsAhead /\ PollFits
        /\ NothingIsMissed /\ NoRowIsOffLimits /\ ConsentComesFirst
    BY DEF ScanInv
  <2>3. /\ TranscriptsFit' /\ ParentsWrite'
        /\ \A f \in File : /\ parseSession(f)' = parseSession(f) /\ Best(f)' = Best(f)
                           /\ Stands(f)' = Stands(f)
        /\ \A row : RowFits(row)' = RowFits(row)
    <3>1. UNCHANGED <<logs, turn, writes, hosts>> /\ UNCHANGED <<logs, blacklist, sources, hosts>>
      BY <2>1
    <3> QED BY <2>1, <2>2, <3>1, NothingWritten, ConfiguredAlike
  <2>4. RowsFit' /\ NoneIsAhead' /\ PollFits' /\ NoRowIsOffLimits' /\ ConsentComesFirst'
    BY <2>1, <2>2, <2>3 DEF RowsFit, OneOfEach, NoneIsAhead, PollFits, NoRowIsOffLimits, ConsentComesFirst
  <2>5. \A f \in File : Settles(f)' = Settles(f)
    BY <2>1, <2>3 DEF Settles, Watched, Owed, loadMonitoredTranscriptStores, loadTranscriptStores
  <2>6. NothingIsMissed'
    BY <2>1, <2>2, <2>3, <2>5 DEF NothingIsMissed
  <2> QED BY <2>3, <2>4, <2>6 DEF ScanInv
<1> QED BY <1>1, <1>2, <1>3, <1>4, <1>5, <1>6, <1>7 DEF ScanNext

\* The rows of the monitor follow the transcripts, whatever the harnesses write and the
\* owner blocks or selects while scans are under way or fail (RowsFollowTranscripts).
THEOREM RowsStayFaithful == ScanSpec => []RowsFollowTranscripts
<1>1. HomeTypeOK /\ ScanInit => ScanInv
  BY ScanInvInit
<1>2. ScanInv /\ [ScanNext]_<<scanVars, homeVars>> => ScanInv'
  BY ScanInvStep
<1>3. ScanInv => RowsFollowTranscripts
  BY ScanInvShows
<1> QED BY <1>1, <1>2, <1>3, PTL DEF ScanSpec
=============================================================================
