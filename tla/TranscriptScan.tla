--------------------------- MODULE TranscriptScan ---------------------------
(***************************************************************************)
(* What a poll reads and what it leaves in State, over the log files the   *)
(* harnesses write: src/src/session-monitor/scan-active-transcripts.mjs,   *)
(* State.recordPoll and ThreadDb.recordScan/purgeBlacklisted, and the      *)
(* other reader of the same files, src/src/session-search/session-search.  *)
(*                                                                         *)
(* A transcript is the sequence of its records: "head" carries the id and  *)
(* the working directory, "stamp" and "errand" the caller's directory in   *)
(* Owner Operator's own chats (an errand is an agent's or the scheduler's  *)
(* call), "inject" is boilerplate, "user" the owner, "step" an assistant   *)
(* message that goes on to a tool, "say" one that yields,                  *)
(* "start", "complete" and "abort" are Codex's turn records.  A record's   *)
(* time is the number of writes before it.                                 *)
(***************************************************************************)
EXTENDS OwnerHome

CONSTANTS File,       \* transcript files
          Session,    \* session ids
          About,      \* [File -> FileRecord]
          Home,       \* [File -> Dir]: the directory a session is started in
          Moved,      \* directories an Owner Operator chat is invoked from
          Blockable,  \* what the owner may blacklist: [paths, repos]
          Selections, \* what a review may select
          MaxWrites   \* bound on records written

FileRecord == [format : Format, id : Session, names : SUBSET Session, stem : Session \cup {"agent", "stamped"},
               sub : BOOLEAN, headless : BOOLEAN, guardian : BOOLEAN, store : Dir]
ASSUME ScanAssumption ==
  /\ About \in [File -> FileRecord] /\ Home \in [File -> Dir] /\ Moved \subseteq Dir
  /\ \A f \in File : About[f].id \in About[f].names     \* PathsCarryIds
  /\ MaxWrites \in Nat

(* A session's transcripts lie beside each other, a sub-agent's in a        *)
(* directory of its parent's; an Owner Operator chat has one; and a         *)
(* session's own transcript is named after it.                              *)
ASSUME SessionsLieTogether ==
  \A f, g \in File :
    /\ About[f].id = About[g].id /\ f # g =>
         /\ About[f].store # OwnStore
         /\ About[f].store = About[g].store /\ Home[f] = Home[g]
         /\ About[f].format = About[g].format /\ About[f].names = About[g].names
    /\ ~About[f].sub => About[f].stem \in {About[f].id, "stamped"}

VARIABLES logs,     \* [File -> Seq(entry)]
          turn,     \* [File -> "idle" | "running" | "severed"]
          writes,
          consent,  \* setup's marker is complete for this version: "never" yet, "given", or
                    \* "lost" (a torn read while it is rewritten, a newer version's marker)
          armed,    \* the source selection the watchers were armed for, or <<>>
          noted,    \* files the watchers noted since the last scan began
          poll,     \* the poll in flight
          rows,     \* the threads table: at most one row of an id
          settled,  \* a full poll was read and recorded with the files as they are configured,
                    \* and no partial one lost what it took since
          purged    \* history: the blacklist of the last purge
scanVars == <<logs, turn, writes, consent, armed, noted, poll, rows, settled, purged>>

NoPoll == [at |-> "idle", found |-> {}, settles |-> FALSE]
Own(f) == About[f].store = OwnStore

ScanInit ==
  /\ logs = [f \in File |-> <<>>] /\ turn = [f \in File |-> "idle"] /\ writes = 0 /\ armed = <<>>
  /\ consent \in {"never", "given"}
  /\ noted = {} /\ poll = NoPoll /\ rows = {}
  /\ settled = FALSE /\ purged = NothingBlocked

----------------------------------------------------------------------------
(* The harnesses: each writes its own records, and the watchers, armed by  *)
(* the first poll that finds consent and not again, note the file.         *)
Line(kind, dir) == [kind |-> kind, cwd |-> dir, at |-> writes]
Watched(f) == armed # <<>> /\ [format |-> About[f].format, root |-> About[f].store]
                                 \in loadMonitoredTranscriptStores(armed[1])
Write(f, entries, then) ==
  /\ writes < MaxWrites /\ writes' = writes + 1
  /\ logs' = [logs EXCEPT ![f] = @ \o entries]
  /\ turn' = [turn EXCEPT ![f] = then]
  /\ noted' = IF Watched(f) THEN noted \cup {f} ELSE noted
  /\ UNCHANGED <<consent, armed, poll, rows, settled, purged, homeVars>>

Opening(f) == IF logs[f] # <<>> THEN <<>> ELSE <<Line("head", Home[f]), Line("inject", NoDir)>>
Parented(f) == About[f].sub => \E p \in File : /\ About[p].id = About[f].id /\ ~About[p].sub
                                              /\ logs[p] # <<>>
Stamps == {"stamp", "errand"}
Prompt(f, dir, stamp) ==
  /\ turn[f] # "running" /\ Parented(f)
  /\ IF Own(f) THEN dir \in Moved ELSE dir = Home[f] /\ stamp = "stamp"
  /\ Write(f, Opening(f) \o (IF Own(f) THEN <<Line(stamp, dir)>> ELSE <<>>)
                \o (IF About[f].format = "codex" THEN <<Line("start", NoDir)>> ELSE <<>>)
                \o <<Line("user", NoDir)>>, "running")
Step(f) == /\ turn[f] = "running" /\ Last(logs[f]).kind # "step"
           /\ Write(f, <<Line("step", NoDir)>>, "running")
Yield(f) ==
  /\ turn[f] = "running"
  /\ Write(f, IF About[f].format = "codex" THEN <<Line("say", NoDir), Line("complete", NoDir)>>
              ELSE <<Line("say", NoDir)>>, "idle")
(* Codex records the abort, Claude a user record, Pi what was said so far. *)
Interrupt(f) ==
  /\ turn[f] = "running"
  /\ CASE About[f].format = "codex"  -> Write(f, <<Line("abort", NoDir)>>, "idle")
       [] About[f].format = "claude" -> Write(f, <<Line("user", NoDir)>>, "idle")
       [] OTHER                      -> Write(f, <<Line("say", NoDir)>>, "idle")
Kill(f) ==
  /\ turn[f] = "running"
  /\ turn' = [turn EXCEPT ![f] = "severed"]
  /\ UNCHANGED <<logs, writes, consent, armed, noted, poll, rows, settled, purged, homeVars>>

----------------------------------------------------------------------------
(* parseSession. *)
\* Where a transcript has records of these kinds, and the latest of them.
Kinds(f, kinds) == {i \in DOMAIN logs[f] : logs[f][i].kind \in kinds}
latest(f, kinds) == logs[f][Max(Kinds(f, kinds))]
ConvoKinds == {"user", "step", "say"}
Convo(f) == Kinds(f, ConvoKinds)                    \* without isSessionBoilerplate
userTurns(f) == Cardinality(Kinds(f, {"user"}))
firstCwd(f) == logs[f][Min({i \in DOMAIN logs[f] : logs[f][i].cwd # NoDir})].cwd
Stamped(f) == Own(f) /\ Kinds(f, Stamps) # {}
Project(f) ==
  IF Stamped(f) THEN latest(f, Stamps).cwd
  ELSE IF About[f].format \in {"codex", "pi"} THEN latest(f, {"head"}).cwd
  ELSE firstCwd(f)

Lifecycle == {"start", "complete", "abort"}
\* (mutant) an abort is not the end of a turn
WorkingUntilComplete(f) ==
  IF About[f].format = "codex"
  THEN \E s \in Kinds(f, {"start"}) : \A c \in Kinds(f, {"complete"}) : c < s
  ELSE latest(f, ConvoKinds).kind = "step"
Working(f) ==
  IF About[f].format = "codex"
  THEN Kinds(f, Lifecycle) # {} /\ latest(f, Lifecycle).kind = "start"
  ELSE latest(f, ConvoKinds).kind = "step"

(* A session inside a host app's worktree is the owner's, whatever wrote   *)
(* it, but for a Codex guardian's; a chat is its last caller's.             *)
Automated(f) ==
  IF Stamped(f) THEN latest(f, Stamps).kind = "errand"
  ELSE \/ userTurns(f) = 0 \/ About[f].guardian
       \/ About[f].headless /\ ~\E root \in hosts : Inside(Project(f), root)

parseSession(f) ==
  [id |-> About[f].id, file |-> f, project |-> Project(f), at |-> latest(f, ConvoKinds).at,
   working |-> Working(f), automated |-> Automated(f), sub |-> About[f].sub,
   users |-> userTurns(f), count |-> Cardinality(Convo(f))]

(* Which files a scan lists, and which of them it may read. *)
Candidates ==
  {f \in File : /\ logs[f] # <<>>
                /\ [format |-> About[f].format, root |-> About[f].store]
                     \in loadMonitoredTranscriptStores(sources)
                /\ ~(About[f].format = "claude" /\ SlugBlocked(blacklist, Home[f]))}
\* (mutant) only the files that changed are parsed
ChangedAlone(files) == Candidates \cap files
Changed(files) ==
  LET changed == Candidates \cap files
      ids     == {About[f].id : f \in {g \in changed : Convo(g) # {}}}
  IN  changed \cup {f \in Candidates : About[f].names \cap ids # {}}

Mine(t) == ~isBlacklisted(blacklist, t.project, RepoOf[t.project])
\* (mutant) the file written last stands for its session
richerByTime(t, p) == t.at > p.at
richer(t, p) ==
  \/ p.sub /\ ~t.sub
  \/ /\ p.sub = t.sub
     /\ \/ t.users > p.users
        \/ t.users = p.users /\ t.count > p.count
        \/ t.users = p.users /\ t.count = p.count /\ t.at > p.at
Threads(files) ==
  LET parsed == {parseSession(f) : f \in {g \in files : Convo(g) # {}}}
      best   == {t \in parsed : Mine(t) /\ \A p \in parsed \ {t} : Mine(p) /\ p.id = t.id => richer(t, p)}
  IN  {t \in best : ~t.automated}

----------------------------------------------------------------------------
(* A poll: the scan in its worker, then recordPoll in the daemon.  Nothing *)
(* is watched or read without consent; a partial poll takes the files that *)
(* were noted, whatever comes of it.                                       *)
\* (mutant) the stores are read whether or not setup is over
scanTranscriptsAnyway(files) == Threads(files)
scanTranscripts(files) == IF consent = "given" THEN Threads(files) ELSE {}
scanActiveTranscripts(full) ==
  /\ poll.at = "idle" /\ (full \/ noted # {})
  /\ armed' = IF armed = <<>> /\ consent = "given" THEN <<sources>> ELSE armed
  /\ poll' = [at |-> "scanned", settles |-> full /\ consent = "given",
              found |-> scanTranscripts(IF full THEN Candidates ELSE Changed(noted))]
  /\ noted' = IF full THEN noted ELSE {}
  /\ settled' = (settled /\ (full \/ consent = "given"))
  /\ UNCHANGED <<logs, turn, writes, consent, rows, purged, homeVars>>

purgeBlacklisted(table) == {row \in table : Mine(row)}
(* An observation of an older message than the row's is not recorded. *)
\* (mutant) what was scanned is recorded as it was judged then
recordScanUnchecked(table, found) ==
  LET fresh == {t \in found : \A row \in table : row.id = t.id => t.at >= row.at}
  IN  fresh \cup {row \in table : \A t \in fresh : t.id # row.id}
recordScan(table, found) ==
  LET fresh == {t \in found : Mine(t) /\ \A row \in table : row.id = t.id => t.at >= row.at}
  IN  fresh \cup {row \in table : \A t \in fresh : t.id # row.id}
\* (mutant) what was noted meanwhile counts as read
recordPollAndForget ==
  /\ poll.at = "scanned"
  /\ rows' = recordScan(purgeBlacklisted(rows), poll.found)
  /\ settled' = (settled \/ poll.settles)
  /\ purged' = blacklist /\ poll' = NoPoll /\ noted' = {}
  /\ UNCHANGED <<logs, turn, writes, consent, armed, homeVars>>
recordPoll ==
  /\ poll.at = "scanned"
  /\ rows' = recordScan(purgeBlacklisted(rows), poll.found)
  /\ settled' = (settled \/ poll.settles)
  /\ purged' = blacklist
  /\ poll' = NoPoll
  /\ UNCHANGED <<logs, turn, writes, consent, armed, noted, homeVars>>
(* The scan or its recording throws: what a partial poll took is lost to   *)
(* the next full one, since the tick only enriches while watchers live.    *)
PollFails ==
  /\ poll.at = "scanned"
  /\ \/ UNCHANGED <<rows, purged>>
     \/ /\ \E some \in SUBSET poll.found : rows' = recordScan(purgeBlacklisted(rows), some)
        /\ purged' = blacklist
  /\ settled' = (settled /\ poll.settles)
  /\ poll' = NoPoll
  /\ UNCHANGED <<logs, turn, writes, consent, armed, noted, homeVars>>

(* The owner, or setup, while the daemon runs. *)
Reconfigured == /\ settled' = FALSE /\ poll' = [poll EXCEPT !.settles = FALSE]
                /\ UNCHANGED <<hosts, logs, turn, writes, consent, armed, noted, rows, purged>>
Blacklist(entry) ==
  /\ blacklist' = addBlacklistEntries(blacklist, entry.paths, entry.repos)
  /\ blacklist' # blacklist
  /\ Reconfigured /\ UNCHANGED sources
Select(formats) ==
  /\ sources' = saveTranscriptAccess(formats, {}, formats) /\ sources' # sources
  /\ Reconfigured /\ UNCHANGED blacklist
Consent ==
  /\ consent' = IF consent = "given" THEN "lost" ELSE "given"
  /\ UNCHANGED <<logs, turn, writes, armed, noted, poll, rows, settled, purged, homeVars>>

ScanNext ==
  \/ \E f \in File : \/ \E dir \in Dir, stamp \in Stamps : Prompt(f, dir, stamp)
                     \/ Step(f) \/ Yield(f) \/ Interrupt(f) \/ Kill(f)
  \/ \E full \in BOOLEAN : scanActiveTranscripts(full)
  \/ recordPoll \/ PollFails
  \/ \E entry \in Blockable : Blacklist(entry)
  \/ \E formats \in Selections : Select(formats)
  \/ Consent

(* A daemon begins with an empty table, whatever is configured.            *)
ScanSpec == HomeTypeOK /\ ScanInit /\ [][ScanNext]_<<scanVars, homeVars>>

----------------------------------------------------------------------------
(* session-search reads the same files without the daemon. *)
\* (mutant) the header says where a chat belongs
searchCwdFromHeader(f) == firstCwd(f)
searchCwdFromFile(f) ==
  IF Stamped(f) THEN latest(f, Stamps).cwd ELSE firstCwd(f)
fileBlacklisted(f) ==
  isBlacklisted(blacklist, searchCwdFromFile(f), RepoOf[searchCwdFromFile(f)])
Excluded(f) == About[f].format = "claude" /\ SlugBlocked(blacklist, Home[f])
(* The id a hit carries: a Pi file's stem is its stable id behind a time stamp. *)
\* (mutant) a hit carries the stem of its file
stemOf(f) == About[f].stem
stableSessionId(f) == IF About[f].stem = "stamped" THEN About[f].id ELSE About[f].stem
SearchSources(ownerOnly) ==
  {[format |-> OwnFormat, root |-> OwnStore]} \cup
    (IF ownerOnly THEN {} ELSE {s \in loadTranscriptStores(sources) : s.format # "cursor"})
Searched(ownerOnly) ==
  {f \in File : /\ logs[f] # <<>> /\ ~Excluded(f) /\ ~fileBlacklisted(f)
                /\ [format |-> About[f].format, root |-> About[f].store] \in SearchSources(ownerOnly)}
Discovered(ownerOnly, callers) == {f \in Searched(ownerOnly) : stableSessionId(f) \notin callers}
ReadById(id) == {f \in Searched(FALSE) : stableSessionId(f) = id}

----------------------------------------------------------------------------
AllRead == poll.at = "idle" /\ noted = {} /\ settled
(* Once nothing is left to read, every thread of a watched store has the   *)
(* row a full scan would give it, however the scans before it were cut     *)
(* into partial ones, whichever full ones failed and whenever consent came *)
(* and went, unless a partial poll lost what it took; and the transcript   *)
(* of a sub-agent never stands for a session whose own can be read.        *)
RowsMatchAFullScan ==
  AllRead => \A t \in {x \in Threads(Candidates) : Watched(x.file)} :
             /\ t \in rows
             /\ \A row \in rows, f \in Candidates :
                  row.id = t.id /\ About[f].id = t.id /\ About[row.file].sub => About[f].sub

(* No row is about a tree or a repository that was off limits when the     *)
(* last poll was recorded, also when the owner blacklisted it between the  *)
(* scan and its recording.                                                 *)
NoRowIsOffLimits ==
  \A row \in rows : /\ RepoOf[row.project] \notin purged.repos
                    /\ purged.paths \cap Around[row.project] = {}

(* A row that says its agent is working is about a turn that is running or *)
(* was killed, and a Codex turn that runs says so.                         *)
WorkingIsTrue ==
  AllRead => \A row \in rows : row \in Threads(Candidates) =>
    /\ row.working => turn[row.file] # "idle"
    /\ About[row.file].format = "codex" /\ turn[row.file] = "running" => row.working

(* Search and scan agree on every file (session-cwd.mjs:4-5), and a thread *)
(* of an authorised store is found under the id its row has.               *)
SearchAgrees ==
  /\ \A ownerOnly \in BOOLEAN, f \in File : f \in Searched(ownerOnly) =>
       /\ ~isBlacklisted(blacklist, Project(f), RepoOf[Project(f)])
       /\ f \in Candidates
  /\ \A f \in Candidates : ~isBlacklisted(blacklist, Project(f), RepoOf[Project(f)]) =>
       f \in Discovered(FALSE, {}) \/ About[f].format = "cursor"
  /\ AllRead => \A row \in rows : row \in Threads(Candidates) =>
       ReadById(row.id) # {} \/ About[row.file].format = "cursor"

(* Before the owner has been through setup nothing is watched, and nothing *)
(* is read or recorded.                                                    *)
ConsentComesFirst ==
  consent = "never" => armed = <<>> /\ noted = {} /\ poll.found = {} /\ rows = {}

RowsFollowTranscripts ==
  /\ RowsMatchAFullScan /\ NoRowIsOffLimits /\ WorkingIsTrue /\ SearchAgrees
  /\ ConsentComesFirst
=============================================================================
