--------------------------- MODULE HarnessSnapshot ---------------------------
(***************************************************************************)
(* What the daemon tells of the harnesses it could delegate to             *)
(* (harness-details.ts): the owner's preferences, one disposable ACP       *)
(* session of each harness (harness-details-acp-observer.ts), and the      *)
(* account that Codex (harness-details-codex-client.ts) and Cursor         *)
(* (harness-details-cursor-client.ts) report of themselves.  Every source  *)
(* is read beside the others, may fail, never answer or answer in part,    *)
(* and null means unknown.                                                 *)
(*                                                                         *)
(* The harnesses are external.  The process of a session and its lease are *)
(* those of ProcessLeases, the choice of a candidate that of DelegatedLaunch. *)
(***************************************************************************)
EXTENDS Integers

CONSTANTS Harness,
          Codex, Cursor,   \* the two that have an account to read
          Request,         \* what a client may ask for
          Report,          \* what a session may say it has
          Limits           \* the rate limits Codex may answer with

(* null, and something read: null means unknown, an empty list is something read. *)
Null == {}
Read(x) == {x}

Facts == {"models", "current", "options", "usage"}

ASSUME SnapshotAssumption ==
  /\ {Codex, Cursor} \subseteq Harness /\ Codex # Cursor
  /\ \A facts \in Report : facts \subseteq Facts /\ ("current" \in facts => "models" \in facts)
  /\ \A r \in Request :
       /\ DOMAIN r = {"harnesses", "inspect", "twice", "candidates"}
       /\ r.harnesses \subseteq Harness /\ r.inspect \subseteq Harness
       /\ {r.twice, r.candidates} \subseteq BOOLEAN
  /\ \A p \in Limits : DOMAIN p = {"is", "byId", "single"}

VARIABLES
  request,      \* what was asked for, and how far its answer is
  preferences,  \* the owner's file, as read
  capability,   \* each harness's row
  account,      \* each harness's account row
  server,       \* the child that speaks for Codex
  said          \* (history) what each source answered

snapshotVars == <<request, preferences, capability, account, server, said>>

NotAsked == [at |-> "idle", rows |-> {}, inspect |-> {}, candidates |-> FALSE]
NoRow == [at |-> "runtime", runtime |-> FALSE, session |-> Null, confirmed |-> FALSE,
          candidate |-> Null, failed |-> FALSE]
emptyAccount == [at |-> "idle", plan |-> FALSE, authenticated |-> Null, windows |-> Null,
                 failed |-> FALSE, about |-> "waiting", status |-> "waiting"]
Nothing == [session |-> Null, confirmed |-> FALSE, plan |-> FALSE,
            authenticated |-> Null, windows |-> Null]

SnapshotInit ==
  /\ request = NotAsked /\ preferences = Null
  /\ capability = [h \in Harness |-> NoRow]
  /\ account = [h \in Harness |-> emptyAccount]
  /\ server = [runs |-> FALSE, does |-> "nothing"]
  /\ said = [h \in Harness |-> Nothing]

assertUniqueHarnessInspections(r) == ~r.twice

(* The file's content, whatever it says, or none that could be read.        *)
readUserHarnessPreferences == {Null, Read("content")}

(* readHarnessDetails, up to where it waits.  A harness inspected twice is  *)
(* refused before anything is read; the preferences are read at once.       *)
Ask ==
  /\ request.at = "idle"
  /\ \E r \in Request :
       LET ordinary == IF r.harnesses # {} THEN r.harnesses
                       ELSE IF r.inspect # {} THEN {} ELSE Harness
       IN  request' = [at |-> IF assertUniqueHarnessInspections(r) THEN "reading" ELSE "refused",
                       rows |-> ordinary \cup r.inspect,
                       inspect |-> r.inspect, candidates |-> r.candidates]
  /\ IF request'.at = "refused" THEN UNCHANGED preferences
     ELSE preferences' \in readUserHarnessPreferences
  /\ UNCHANGED <<capability, account, server, said>>

Reading(h) == request.at = "reading" /\ h \in request.rows
RowAt(h, at) == Reading(h) /\ capability[h].at = at
AccountAt(h, stages) == Reading(h) /\ account[h].at \in stages

-----------------------------------------------------------------------------
(* One harness's capabilities: observeAcpHarness.                           *)

(* readAcpRuntimeProvenance: packages are found on disk, and a command says *)
(* its version or is stopped at its deadline.                               *)
FindRuntime(h) ==
  /\ RowAt(h, "runtime")
  /\ \/ /\ capability' = [capability EXCEPT ![h].runtime = TRUE, ![h].at = "opening"]
       
     \/ /\ capability' = [capability EXCEPT ![h].failed = TRUE, ![h].at = "projected"]
  /\ UNCHANGED <<request, preferences, account, server, said>>

(* createRuntime, ensureSession and the status, each failing or out of time. *)
(* A session says which models, options and usage it has, or none of them.   *)
Observe(h) ==
  /\ RowAt(h, "opening")
  /\ \E facts \in Report :
       /\ capability' = [capability EXCEPT ![h].session = Read(facts),
              ![h].at = IF h \in request.inspect THEN "confirming" ELSE "discarding"]
       /\ said' = [said EXCEPT ![h].session = Read(facts)]
  /\ UNCHANGED <<request, preferences, account, server>>

(* A candidate that was applied is what the session now uses.                *)
Confirm(h) ==
  /\ RowAt(h, "confirming")
  /\ capability' = [capability EXCEPT ![h].confirmed = TRUE, ![h].at = "discarding",
        ![h].session = {facts \cup {"options"} \cup (IF "models" \in facts THEN {"current"} ELSE {}) : facts \in @}]
  /\ said' = [said EXCEPT ![h].session = capability'[h].session, ![h].confirmed = TRUE]
  /\ UNCHANGED <<request, preferences, account, server>>

\* (mutant) a row that fails takes its session with it
WithoutSession(row) == [row EXCEPT !.failed = TRUE, !.session = Null]
WithError(row) == [row EXCEPT !.failed = TRUE]

(* withDeadline, or a request refused: the row keeps what it had.  Without a *)
(* runtime there is nothing to discard.                                      *)
GiveUp(h) ==
  /\ RowAt(h, "opening") \/ RowAt(h, "confirming")
  /\ \E at \in {"discarding"} \cup (IF RowAt(h, "opening") THEN {"projected"} ELSE {}) :
       capability' = [capability EXCEPT ![h] = [WithError(@) EXCEPT !.at = at]]
  /\ UNCHANGED <<request, preferences, account, server, said>>

(* discardObservation: nothing is confirmed by a session that may still be there. *)
Discard(h) ==
  /\ RowAt(h, "discarding")
  /\ \/ /\ capability' = [capability EXCEPT ![h].at = "projected"]
        /\ UNCHANGED said
     \/ /\ capability' = [capability EXCEPT ![h].at = "projected", ![h].confirmed = FALSE,
                                            ![h].failed = TRUE]
        /\ said' = [said EXCEPT ![h].confirmed = FALSE]
  /\ UNCHANGED <<request, preferences, account, server>>

-----------------------------------------------------------------------------
(* The accounts: readHarnessAccount.                                         *)

ReadNoAccount(h) ==
  /\ AccountAt(h, {"idle"}) /\ h \notin {Codex, Cursor}
  /\ account' = [account EXCEPT ![h].at = "read"]
  /\ UNCHANGED <<request, preferences, capability, server, said>>

(* normalizeCodexAllowanceWindows                                            *)
Windows(limit) == {<<limit.id, slot>> : slot \in limit.usable}
normalizeCodexAllowanceWindows(payload) ==
  IF payload.is = "nothing" THEN Null
  ELSE Read(UNION {Windows(limit) : limit \in IF payload.byId # {} THEN payload.byId
                                              ELSE payload.single})

(* withServer: a child that is asked three things in turn.                   *)
SpawnServer ==
  /\ AccountAt(Codex, {"idle"})
  /\ \/ /\ server' = [runs |-> TRUE, does |-> "initialize"]
        /\ account' = [account EXCEPT ![Codex].at = "asking"]
     \/ /\ UNCHANGED server
        /\ account' = [account EXCEPT ![Codex].at = "read", ![Codex].failed = TRUE]
  /\ UNCHANGED <<request, preferences, capability, said>>

(* The account is asked for before the limits, and told with them or not at all. *)
ServerAnswers ==
  /\ AccountAt(Codex, {"asking"}) /\ server.runs
  /\ \/ /\ server.does = "initialize"
        /\ server' = [server EXCEPT !.does = "account"] /\ UNCHANGED <<account, said>>
     \/ /\ server.does = "account"
        /\ \E plan \in BOOLEAN : account' = [account EXCEPT ![Codex].plan = plan]
        /\ server' = [server EXCEPT !.does = "limits"] /\ UNCHANGED said
     \/ /\ server.does = "limits"
        /\ \E payload \in Limits :
             account' = [account EXCEPT ![Codex].at = "ending",
                            ![Codex].windows = normalizeCodexAllowanceWindows(payload)]
        /\ server' = [server EXCEPT !.does = "nothing"]
        /\ said' = [said EXCEPT ![Codex].plan = account[Codex].plan,
                                ![Codex].windows = account'[Codex].windows]
  /\ UNCHANGED <<request, preferences, capability>>

(* It answers with an error, exits, or does not answer until the deadline.   *)
ServerFails ==
  /\ AccountAt(Codex, {"asking"})
  /\ \E runs \in {server.runs, FALSE} : server' = [runs |-> runs, does |-> "nothing"]
  /\ account' = [account EXCEPT ![Codex] = [emptyAccount EXCEPT !.at = "ending", !.failed = TRUE]]
  /\ UNCHANGED <<request, preferences, capability, said>>

\* (mutant) the child is told to end, and not waited for
ToldToEnd(child) == child.does \in {"term", "kill"} \/ ~child.runs
HasEnded(child) == ~child.runs

\* (mutant) a child that outlives its grace is still waited for
OnlyTold(child) == [child EXCEPT !.does = "term"]
(* What it is sent next; SIGKILL it does not survive.                        *)
Pressed(child) ==
  IF child.does = "kill" THEN [child EXCEPT !.runs = FALSE]
  ELSE [child EXCEPT !.does = IF @ = "term" THEN "kill" ELSE "term"]

(* terminate: SIGTERM, after a grace SIGKILL, and its exit is waited for.    *)
EndServer ==
  /\ AccountAt(Codex, {"ending"})
  /\ IF HasEnded(server)
     THEN account' = [account EXCEPT ![Codex].at = "read"] /\ UNCHANGED server
     ELSE server' = Pressed(server) /\ UNCHANGED account
  /\ UNCHANGED <<request, preferences, capability, said>>

ServerExits ==
  /\ server.runs /\ server.does \in {"term", "kill"}
  /\ server' = [server EXCEPT !.runs = FALSE]
  /\ UNCHANGED <<request, preferences, capability, account, said>>

(* readCursorCliPayloads: two commands at once, each with its own result.    *)
ReadCursor ==
  /\ AccountAt(Cursor, {"idle"})
  /\ \/ account' = [account EXCEPT ![Cursor].at = "asking"]
     \/ account' = [account EXCEPT ![Cursor].at = "read", ![Cursor].failed = TRUE]
  /\ UNCHANGED <<request, preferences, capability, server, said>>

OneFails(row, command) == [row EXCEPT !.failed = TRUE, ![command] = "done"]

CursorAnswers(command) ==
  /\ AccountAt(Cursor, {"asking"}) /\ account[Cursor][command] = "waiting"
  /\ \/ /\ command = "about"
        /\ \E plan \in BOOLEAN :
             /\ account' = [account EXCEPT ![Cursor].plan = plan, ![Cursor].about = "done"]
             /\ said' = [said EXCEPT ![Cursor].plan = plan]
       
     \/ /\ command = "status"
        /\ \E is \in {Read("yes"), Read("no"), Null} :
             /\ account' = [account EXCEPT ![Cursor].authenticated = is, ![Cursor].status = "done",
                                           ![Cursor].failed = @ \/ is = Read("no")]
             /\ said' = [said EXCEPT ![Cursor].authenticated = is]
       
     \/ UNCHANGED said
        /\ account' = [account EXCEPT ![Cursor] = OneFails(@, command)]
  /\ UNCHANGED <<request, preferences, capability, server>>

CursorRead ==
  /\ AccountAt(Cursor, {"asking"})
  /\ account[Cursor].about = "done" /\ account[Cursor].status = "done"
  /\ account' = [account EXCEPT ![Cursor].at = "read"]
  /\ UNCHANGED <<request, preferences, capability, server, said>>

-----------------------------------------------------------------------------
(* All are in: candidates are projected, and the answer is given.            *)

(* A row that failed, has no usable model or an effort of no use gives none. *)
Projected(row, inspected, usable) ==
  IF ~request.candidates THEN row
  ELSE IF inspected THEN row
  ELSE IF row.failed \/ "current" \notin UNION row.session \/ ~usable
       THEN [row EXCEPT !.candidate = Null, !.failed = TRUE]
       ELSE [row EXCEPT !.candidate = Read("candidate")]

Return ==
  /\ request.at = "reading"
  /\ \A h \in request.rows : capability[h].at = "projected" /\ account[h].at = "read"
  /\ \/ /\ request' = [request EXCEPT !.at = "returned"]
        /\ \E usable \in SUBSET request.rows :
             capability' = [h \in Harness |->
                IF h \in request.rows THEN Projected(capability[h], h \in request.inspect, h \in usable)
                ELSE capability[h]]
     \/ request' = [request EXCEPT !.at = "rejected"] /\ UNCHANGED capability
  /\ UNCHANGED <<preferences, account, server, said>>

\* (mutant) models that are listed are taken to include the current one
ListedIsCurrent(session) == IF "models" \in session THEN {} ELSE {"models"}
UnknownModels(session) == {IF "models" \in session THEN "current" ELSE "models"}
UnknownOfRow(row) ==
  (IF row.runtime THEN {} ELSE {"runtime"}) \cup
  (IF row.session = Null THEN {"session"}
   ELSE (UnknownModels(UNION row.session) \cup {"options", "usage"}) \ UNION row.session)
UnknownOfAccount(row) ==
  (IF row.plan THEN {} ELSE {"plan"})
  \cup (IF row.authenticated = Null THEN {"authenticated"} ELSE {})
  \cup (IF row.windows = Null THEN {"windows"} ELSE {})
unknownsIn ==
  (IF preferences = Null THEN {<<"owner", "preferences">>} ELSE {})
  \cup UNION {{<<h, fact>> : fact \in UnknownOfRow(capability[h]) \cup UnknownOfAccount(account[h])} :
                h \in request.rows}

-----------------------------------------------------------------------------

SnapshotNext ==
  \/ Ask \/ Return
  \/ \E h \in Harness : \/ FindRuntime(h) \/ Observe(h) \/ Confirm(h) \/ GiveUp(h) \/ Discard(h)
                       \/ ReadNoAccount(h)
  \/ SpawnServer \/ ServerAnswers \/ ServerFails \/ EndServer \/ ServerExits
  \/ ReadCursor \/ CursorRead \/ \E command \in {"about", "status"} : CursorAnswers(command)

(* Every wait on a harness has a deadline, whether it answers or not.  What  *)
(* Cursor's commands do when theirs ends them is up to them: they end.       *)
SnapshotFairness ==
  /\ \A h \in Harness :
       WF_snapshotVars(FindRuntime(h) \/ GiveUp(h) \/ Discard(h) \/ ReadNoAccount(h))
  /\ WF_snapshotVars(SpawnServer \/ ServerFails \/ EndServer)
  /\ \A command \in {"about", "status"} : WF_snapshotVars(CursorAnswers(command))
  /\ WF_snapshotVars(ReadCursor \/ CursorRead) /\ WF_snapshotVars(Return)
SnapshotSpec == SnapshotInit /\ [][SnapshotNext]_snapshotVars /\ SnapshotFairness

-----------------------------------------------------------------------------
(* Properties.                                                               *)

(* What a source answered is in the snapshot, and nothing else is, whatever  *)
(* became of the other sources ("a source failure stays in its own namespace *)
(* and cannot erase successful sibling observations", readHarnessDetails).   *)
SourcesStandAlone ==
  request.at = "returned" =>
    \A h \in request.rows :
      /\ capability[h].session = said[h].session /\ capability[h].confirmed = said[h].confirmed
      /\ account[h].plan = said[h].plan /\ account[h].windows = said[h].windows
      /\ account[h].authenticated = said[h].authenticated

(* Every fact a reader could miss is either told or listed as unknown with   *)
(* its harness, and none is both (unknownsIn).                               *)
Told(h) ==
  (IF capability[h].runtime THEN {"runtime"} ELSE {})
  \cup (IF capability[h].session = Null THEN {} ELSE {"session"} \cup UNION capability[h].session)
  \cup (IF account[h].plan THEN {"plan"} ELSE {})
  \cup (IF account[h].authenticated = Null THEN {} ELSE {"authenticated"})
  \cup (IF account[h].windows = Null THEN {} ELSE {"windows"})
NothingIsMissing ==
  request.at = "returned" =>
    \A h \in request.rows :
      LET unknown == {u[2] : u \in {v \in unknownsIn : v[1] = h}} IN
      /\ unknown \cap Told(h) = {}
      /\ {"runtime", "session", "plan", "authenticated", "windows"} \subseteq unknown \cup Told(h)
      /\ "session" \in Told(h) => Facts \ (unknown \cup Told(h)) \subseteq {"current"}
      /\ "models" \in Told(h) => "current" \in unknown \cup Told(h)

(* An answer, or a refusal, leaves no child of Codex behind, and a candidate *)
(* is offered only by a row that has nothing to say against it.              *)
NothingIsLeft ==
  request.at \in {"returned", "rejected"} =>
    /\ ~server.runs
    /\ \A h \in request.rows :
         capability[h].candidate # Null => ~capability[h].failed /\ h \notin request.inspect

(* No source holds the answer up for ever (withDeadline, terminate).         *)
SnapshotsReturn == request.at = "reading" ~> request.at \in {"returned", "rejected"}

SnapshotIsTrue == SourcesStandAlone /\ NothingIsMissing /\ NothingIsLeft
=============================================================================
