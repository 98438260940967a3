------------------------------ MODULE OwnerHome ------------------------------
(***************************************************************************)
(* The owner's two privacy files and what reads them: blacklist.json (what *)
(* is off limits, packages/core/src/blacklist.mjs) and session_sources.json *)
(* (which transcript stores may be read, session-sources.mjs), with the    *)
(* operators that decide a path: the lexical rule of the scan and the      *)
(* real-path rule of the agent's file tools (src/agent/privacy-tools.ts).  *)
(***************************************************************************)
EXTENDS FiniteSets, Integers, SequencesExt

CONSTANTS Format,    \* transcript formats
          Dir,       \* directories, as paths
          Repo,      \* repository names
          NoDir,
          Parent,    \* [Dir -> Dir]: the enclosing directory; a root is its own
          Real,      \* [Dir -> Dir]: where a path really is
          RepoOf,    \* [Dir -> Repo]: the repository a path resolves to
          Standard,  \* [Format -> SUBSET Dir]: default and common stores
          OwnFormat, \* the format and the store of Owner Operator's own chats
          OwnStore

ASSUME HomeAssumption ==
  /\ NoDir \notin Dir /\ OwnFormat \in Format /\ OwnStore \in Dir
  /\ Parent \in [Dir -> Dir] /\ Real \in [Dir -> Dir] /\ RepoOf \in [Dir -> Repo]
  /\ \A d \in Dir : Real[Real[d]] = Real[d]
  /\ Standard \in [Format -> SUBSET Dir]

VARIABLES blacklist,   \* blacklist.json
          sources,     \* session_sources.json
          hosts        \* session_hosts.json: worktree folders of host apps
homeVars == <<blacklist, sources, hosts>>

Store == [format : Format, root : Dir]
HomeTypeOK == /\ blacklist \in [paths : SUBSET Dir, repos : SUBSET Repo]
              /\ sources \in [disable : SUBSET Format, add : SUBSET Store]
              /\ hosts \in SUBSET Dir

NothingBlocked == [paths |-> {}, repos |-> {}]
NoConfig == [disable |-> {}, add |-> {}]

----------------------------------------------------------------------------
Around[d \in Dir] == IF Parent[d] = d THEN {d} ELSE {d} \cup Around[Parent[d]]
Inside(dir, tree) == dir # NoDir /\ tree \in Around[dir]

pathIdentities(d) == {d, Real[d]}

\* (mutant) an entry blocks only the directory it names
isBlacklistedExactly(bl, cwd, repo) == repo \in bl.repos \/ cwd \in bl.paths
isBlacklisted(bl, cwd, repo) ==
  \/ repo \in bl.repos
  \/ \E p \in bl.paths : Inside(cwd, p)

(* A project directory named after a blocked path is skipped before it is read. *)
SlugBlocked(bl, project) == \E p \in bl.paths : Inside(project, p)

loadTranscriptStores(cfg) ==
  {s \in Store : s.root \in Standard[s.format] /\ s.format \notin cfg.disable} \cup cfg.add
loadMonitoredTranscriptStores(cfg) ==
  loadTranscriptStores(cfg) \cup {[format |-> OwnFormat, root |-> OwnStore]}
loadTranscriptAccess(cfg) ==
  [selected |-> {s.format : s \in loadTranscriptStores(cfg)}, defaults |-> Format \ cfg.disable]

(* The writers, each one read and one write of its file. *)
\* (mutant) the new entries replace the file
addBlacklistEntriesOnly(bl, paths, repos) == [paths |-> paths, repos |-> repos]
addBlacklistEntries(bl, paths, repos) ==
  [paths |-> bl.paths \cup paths, repos |-> bl.repos \cup repos]
\* (mutant) a format that is selected keeps its defaults
saveTranscriptAccessAll(selected, roots, defaults) ==
  [disable |-> Format \ selected, add |-> {s \in roots : s.format \in selected}]
saveTranscriptAccess(selected, roots, defaults) ==
  [disable |-> Format \ defaults, add |-> {s \in roots : s.format \in selected}]

----------------------------------------------------------------------------
(* The agent's file tools. *)
toolBlacklist(bl) == [bl EXCEPT !.paths = UNION {pathIdentities(p) : p \in @}]
\* (mutant) a path is judged as it is written
blacklistedPathVerdictLexical(bl, d) == isBlacklisted(bl, d, RepoOf[d])
blacklistedPathVerdict(bl, d) ==
  \E candidate \in pathIdentities(d) :
    isBlacklisted(toolBlacklist(bl), candidate, RepoOf[candidate])
blacklistedDescendantVerdict(bl, d) ==
  \E root \in pathIdentities(d), blocked \in toolBlacklist(bl).paths : Inside(blocked, root)
guardOwnerOperatorToolCall(bl, mayTraverse, d) ==
  blacklistedPathVerdict(bl, d) \/ (mayTraverse /\ blacklistedDescendantVerdict(bl, d))

(* A file tool the guard lets through reaches no tree the owner blocked,   *)
(* under whatever name it is called, nor a repository blocked by name that *)
(* it names itself.                                                        *)
ToolsKeepOut ==
  \A d \in Dir, mayTraverse \in BOOLEAN : ~guardOwnerOperatorToolCall(blacklist, mayTraverse, d) =>
    /\ RepoOf[Real[d]] \notin blacklist.repos
    /\ \A p \in blacklist.paths :
         /\ ~Inside(Real[d], Real[p])
         /\ mayTraverse => ~Inside(Real[p], Real[d])
=============================================================================
