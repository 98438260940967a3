------------------------------- MODULE MCHome -------------------------------
(***************************************************************************)
(* The owner's configuration for TLC: setup in two terminals, the polls    *)
(* and searches that read by it, and the skill links made beside it.  A    *)
(* behaviour is of one part, chosen at the start; the variables of the     *)
(* other parts keep their initial values.                                  *)
(***************************************************************************)
EXTENDS OwnerSetup, TranscriptScan, SkillLinks

CONSTANTS t1, t2

VARIABLE part

(* home > inner > below; alias is a link to inner, found one to below.     *)
Enclosing == [home |-> "home", inner |-> "home", below |-> "inner", alias |-> "home",
              found |-> "alias", claude |-> "home", codex |-> "home", own |-> "home", moved |-> "home"]
Linked == [d \in DOMAIN Enclosing |-> IF d = "alias" THEN "inner" ELSE IF d = "found" THEN "below" ELSE d]
Repos == [d \in DOMAIN Enclosing |->
            IF d \in {"inner", "alias", "below", "found"} THEN "Personal" ELSE "Work"]
Names == [d \in DOMAIN Enclosing |-> IF d = "found" THEN "Personal" ELSE d]
Stores == [claude |-> {"claude"}, codex |-> {"codex"}, pi |-> {}]

----------------------------------------------------------------------------
At(f, r) == [format |-> f, root |-> r]
Entries == {NothingBlocked, [paths |-> {"alias"}, repos |-> {}]}
InSettings == {At("claude", "moved")}
Findable == {At("codex", "found")}
OneReply == {{}, {"codex"}}
Fresh == [versionCurrent |-> FALSE, completed |-> {}, authCurrent |-> FALSE,
          catalogCurrent |-> FALSE, import |-> "none"]
Older == [Fresh EXCEPT !.completed = StepSet, !.authCurrent = TRUE]
UpTo(n) == [Fresh EXCEPT !.versionCurrent = TRUE, !.completed = {Steps[i] : i \in 1..n},
                         !.authCurrent = n > 2, !.catalogCurrent = n > 4]
Markers == {Fresh, Older, UpTo(5),
            [Older EXCEPT !.versionCurrent = TRUE, !.completed = @ \ {"privacy", "permissions"},
                          !.catalogCurrent = TRUE]}
Busy == {t \in Term : term[t].at \notin {"closed", "chat"}}
TwoAreShort ==
  Cardinality(Busy) = 2 => /\ \A t \in Term : ~term[t].forced
                           /\ Cardinality(UNION {term[t].todo : t \in Term}) <= 2
                           /\ setupCrashes = 0

----------------------------------------------------------------------------
Log(f, i, s, sub, headless, store) ==
  [format |-> f, id |-> i, names |-> {i}, stem |-> s, sub |-> sub, headless |-> headless,
   guardian |-> FALSE, store |-> store]
Files == [main |-> Log("claude", "a", "a", FALSE, FALSE, "claude"),
          task |-> Log("claude", "a", "agent", TRUE, FALSE, "claude"),
          roll |-> Log("codex", "b", "b", FALSE, TRUE, "codex"),
          chat |-> Log("pi", "c", "stamped", FALSE, FALSE, "own")]
Places == [main |-> "home", task |-> "home", roll |-> "below", chat |-> "home"]
OffLimits == {[paths |-> {"inner"}, repos |-> {}], [paths |-> {}, repos |-> {"Personal"}]}
Selected == {{"claude", "codex", "pi"}, {"claude", "pi"}}
OneSession == Cardinality({About[f].id : f \in {g \in File : logs[g] # <<>>}}) <= 1
AsConfigured == blacklist = NothingBlocked /\ sources = NoConfig
ShortLogs ==
  /\ writes > 1 => consent = "given"
  /\ writes = 2 => AsConfigured \/ OneSession
  /\ writes >= 3 => AsConfigured /\ OneSession
  /\ writes = 4 => settled \/ poll.settles

----------------------------------------------------------------------------
TwoHarnesses == {<<"claude">>, <<"other claude">>}

----------------------------------------------------------------------------
HomeInit ==
  /\ part \in {"setup", "scan", "skills"} /\ blacklist = NothingBlocked
  /\ IF part = "setup"
     THEN sources \in {NoConfig, [disable |-> {"codex"}, add |-> {}]} /\ hosts \in {{}, HostRoots}
     ELSE sources = NoConfig /\ hosts = {"inner"}
  /\ SetupInit /\ ScanInit /\ SkillInit
  /\ IF part = "setup" THEN marker.catalogCurrent <=> hosts # {} ELSE marker = Fresh
  /\ part # "scan" => consent = "never"
  /\ part # "skills" => folder = [f \in Folder |-> "none"]
  /\ HomeTypeOK
HomeNext ==
  \/ part = "setup" /\ SetupNext /\ TwoAreShort' /\ UNCHANGED <<part, scanVars, skillVars>>
  \/ part = "scan" /\ ScanNext /\ ShortLogs' /\ UNCHANGED <<part, setupVars, skillVars>>
  \/ /\ part = "skills" /\ SkillNext
     /\ UNCHANGED <<part, blacklist, sources, hosts, setupVars, scanVars>>

HomeSpec == HomeInit /\ [][HomeNext]_<<part, homeVars, setupVars, scanVars, skillVars>>

(* What setup promises, in the behaviours in which only setup runs (the    *)
(* scan's change the files directly).                                      *)
SetupIsKept == part = "setup" => SetupHolds
=============================================================================
