------------------------------ MODULE Worktrees ------------------------------
(***************************************************************************)
(* Owner Operator's Git worktrees: creating, adopting and selecting them   *)
(* while other requests, the owner's own Git commands, failing writes and  *)
(* restarts of the daemon come between the steps (worktrees.ts, git.ts,    *)
(* the tables of database.ts), and the interactive terminal that moves     *)
(* into what its session selected (agent/worktree-runtime.ts,              *)
(* cli/interactive.ts).                                                    *)
(*                                                                         *)
(* Two repositories of one base name share the folder of their worktrees,  *)
(* so a path is a worktree's name. Git adds a branch and a worktree in two *)
(* steps and undoes neither; it goes on when the daemon ends.              *)
(***************************************************************************)
EXTENDS Naturals, FiniteSets

CONSTANTS
    Repo,       \* repositories of one base name
    Name,       \* names of worktrees, and of their branches
    Owned,      \* branches the owner may have made already
    Thread,     \* sessions
    Request,    \* bound: the requests made of the daemon
    MaxTrouble  \* bound: the owner's changes of worktrees, failing writes, restarts
                \* and replacements that are announced and do not come

VARIABLES
    disk,       \* what each path holds: nothing, a folder, or a worktree
    branches,   \* the branches of the repositories, by name
    rows,       \* the worktrees table: the repository registered for a path
    selection,  \* the thread_worktrees table
    req,        \* the requests
    term,       \* the terminal: its session, its cwd, whose replacement was announced
    swap,       \* the replacements under way, the owner's and the handler's
    settling,   \* its agent_settled handler, between its two awaits
    abandoned,  \* (history) a replacement was announced and did not come, and none since
    was,        \* (history) whose worktrees each path has held
    excused,    \* (history) the requests something else can have made to fail
    trouble     \* bounded

folder == <<disk, branches, was>>
tables == <<rows, selection>>
terminal == <<term, swap, settling, abandoned>>
vars == <<disk, branches, rows, selection, req, term, swap, settling, abandoned, was, excused, trouble>>

None == "none"
Fallback == "fallback"

ASSUME WorktreesAssumption ==
    /\ Owned \subseteq Repo \X Name /\ MaxTrouble \in Nat
    /\ None \notin Repo \cup Name

Nothing == [holds |-> "nothing", repo |-> None, branch |-> None]
Stray   == [holds |-> "folder", repo |-> None, branch |-> None]
Linked(repo, branch) == [holds |-> "worktree", repo |-> repo, branch |-> branch]

Idle == [at |-> "idle", thread |-> None, repo |-> None, name |-> None, saw |-> Nothing]
Unsettled == [at |-> "idle", thread |-> None, cwd |-> None, selected |-> None]
NoSwap == [at |-> "none", to |-> None, selected |-> None]

\* Who asks Pi for a replacement: the owner (/new, /resume, /fork), or the handler.
Asker == {"owner", "handler"}

Init ==
    /\ disk = [n \in Name |-> Nothing]
    /\ branches \in SUBSET Owned
    /\ rows = [n \in Name |-> None]
    /\ selection = [t \in Thread |-> None]
    /\ req = [r \in Request |-> Idle]
    /\ \E t \in Thread :
          term = [at |-> "live", thread |-> t, cwd |-> Fallback, replacing |-> None]
    /\ swap = [k \in Asker |-> NoSwap]
    /\ settling = Unsettled /\ abandoned = FALSE
    /\ was = [n \in Name |-> {}]
    /\ excused = {} /\ trouble = 0

Pending(r) == req[r].at \notin {"idle", "done", "failed"}
Rivals(r)  == {q \in Request \ {r} : Pending(q) /\ req[q].name = req[r].name}

Holds(n, thing) ==
    /\ disk' = [disk EXCEPT ![n] = thing]
    /\ was' = [was EXCEPT ![n] = IF thing.repo = None THEN @ ELSE @ \cup {thing.repo}]

\* assertExactWorktree: the very path, of the repository expected and on the branch.
Exactly(saw, repo) == saw.holds = "worktree" /\ saw.repo = repo

Fail(r) == req' = [req EXCEPT ![r].at = "failed"]
Goes(r, to) == req' = [req EXCEPT ![r].at = to]

-----------------------------------------------------------------------------
(* WorktreeService.create                                                  *)

Exists(n) == disk[n].holds # "nothing"

\* (mutant) what is there is left to git
NothingAdopted(n) == FALSE

\* existsSync: what is there is inspected instead of created.
Adopts(n) == Exists(n)

\* The repository is resolved, then the path looked at.
Create(r) ==
    /\ req[r].at = "idle"
    /\ \E t \in Thread, repo \in Repo, n \in Name :
          /\ req' = [req EXCEPT ![r] =
                [at |-> IF Adopts(n) THEN "inspecting" ELSE "creating",
                 thread |-> t, repo |-> repo, name |-> n, saw |-> Nothing]]
          /\ excused' = IF \E q \in Request \ {r} : Pending(q) /\ req[q].name = n
                        THEN excused \cup {r} \cup {q \in Request : Pending(q)} ELSE excused
    /\ UNCHANGED <<folder, tables, terminal, trouble>>

\* git worktree add -b: a path in use or a branch that exists is refused;
AddBranch(r) ==
    /\ req[r].at = "creating"
    /\ IF Exists(req[r].name) \/ <<req[r].repo, req[r].name>> \in branches
       THEN Fail(r) /\ UNCHANGED branches
       ELSE /\ branches' = branches \cup {<<req[r].repo, req[r].name>>}
            /\ Goes(r, "adding")
    /\ UNCHANGED <<disk, was, tables, terminal, excused, trouble>>

\* the branch stays when the worktree cannot be added.
AddWorktree(r) ==
    /\ req[r].at = "adding"
    /\ IF Exists(req[r].name)
       THEN Fail(r) /\ UNCHANGED <<disk, was>>
       ELSE Holds(req[r].name, Linked(req[r].repo, req[r].name)) /\ Goes(r, "inspecting")
    /\ UNCHANGED <<branches, tables, terminal, excused, trouble>>

\* inspectWorktree
Inspect(r) ==
    /\ req[r].at \in {"inspecting", "selecting"}
    /\ req' = [req EXCEPT ![r].at = IF @ = "inspecting" THEN "registering" ELSE "choosing",
                          ![r].saw = disk[req[r].name]]
    /\ UNCHANGED <<folder, tables, terminal, excused, trouble>>

\* (mutant) any worktree at the path will do
ExactlySomewhere(r) == req[r].saw.holds = "worktree"

\* An adopted or a new worktree must be of the repository, on the branch of its name.
ExactlyCreated(r) == Exactly(req[r].saw, req[r].repo) /\ req[r].saw.branch = req[r].name

\* registerAndSelectWorktree: one transaction; the row of a path is never changed.
Register(r) ==
    /\ req[r].at = "registering"
    /\ LET n == req[r].name IN
       \/ /\ ExactlyCreated(r) /\ rows[n] \in {None, req[r].repo}
          /\ rows' = [rows EXCEPT ![n] = req[r].repo]
          /\ selection' = [selection EXCEPT ![req[r].thread] = n]
          /\ Goes(r, "done") /\ UNCHANGED <<excused, trouble>>
       \/ /\ ~ExactlyCreated(r) \/ rows[n] \notin {None, req[r].repo}
          /\ Fail(r) /\ UNCHANGED <<tables, excused, trouble>>
       \/ /\ trouble < MaxTrouble /\ trouble' = trouble + 1
          /\ Fail(r) /\ excused' = excused \cup {r} /\ UNCHANGED tables
    /\ UNCHANGED <<folder, terminal>>

-----------------------------------------------------------------------------
(* WorktreeService.select                                                  *)

Select(r) ==
    /\ req[r].at = "idle"
    /\ \E t \in Thread, n \in Name :
          /\ rows[n] # None
          /\ req' = [req EXCEPT ![r] = [at |-> "selecting", thread |-> t, repo |-> rows[n],
                                        name |-> n, saw |-> Nothing]]
    /\ UNCHANGED <<folder, tables, terminal, excused, trouble>>

Choose(r) ==
    /\ req[r].at = "choosing"
    /\ \/ /\ Exactly(req[r].saw, req[r].repo)
          /\ selection' = [selection EXCEPT ![req[r].thread] = req[r].name]
          /\ Goes(r, "done") /\ UNCHANGED <<excused, trouble>>
       \/ /\ ~Exactly(req[r].saw, req[r].repo)
          /\ Fail(r) /\ UNCHANGED <<selection, excused, trouble>>
       \/ /\ trouble < MaxTrouble /\ trouble' = trouble + 1
          /\ Fail(r) /\ excused' = excused \cup {r} /\ UNCHANGED selection
    /\ UNCHANGED <<folder, rows, terminal>>

-----------------------------------------------------------------------------
(* The owner and the daemon.                                               *)

\* A worktree is removed, replaced by a folder, or moved to another branch.
Edit(n) ==
    /\ trouble < MaxTrouble /\ trouble' = trouble + 1
    /\ \E thing \in {Nothing, Stray} \cup {Linked(disk[n].repo, None)} :
          /\ disk[n].holds = "worktree" \/ thing = Stray
          /\ Holds(n, thing)
    /\ excused' = Request
    /\ UNCHANGED <<branches, tables, req, terminal>>

\* The daemon ends and is started again: its requests fail, git goes on.
Restart ==
    /\ trouble < MaxTrouble /\ trouble' = trouble + 1
    /\ LET adding == {r \in Request : req[r].at = "adding" /\ ~Exists(req[r].name)}
           added  == {n \in Name : \E r \in adding : req[r].name = n}
           by     == [n \in added |-> CHOOSE r \in adding : req[r].name = n]
       IN /\ disk' = [n \in Name |-> IF n \in added THEN Linked(req[by[n]].repo, n) ELSE disk[n]]
          /\ was' = [n \in Name |-> IF n \in added THEN was[n] \cup {req[by[n]].repo} ELSE was[n]]
    /\ req' = [r \in Request |-> IF Pending(r) THEN [req[r] EXCEPT !.at = "failed"] ELSE req[r]]
    /\ excused' = excused \cup {r \in Request : Pending(r)}
    /\ UNCHANGED <<branches, tables, terminal>>

-----------------------------------------------------------------------------
(* The interactive terminal. resolveCwd reads the selection, and answers   *)
(* after it has inspected what is selected.                                *)

\* The fallback without a selection, an error for one that is not what was registered.
Resolves(n) == n = None \/ Exactly(disk[n], rows[n])
Cwd(n) == IF n = None THEN Fallback ELSE n

\* agent_settled: not for a session whose replacement was announced. The handler
\* ends with the replacement it asks for.
Settle ==
    /\ term.at = "live" /\ term.replacing # term.thread
    /\ settling.at = "idle" /\ swap["handler"].at = "none"
    /\ settling' = [at |-> "resolving", thread |-> term.thread, cwd |-> term.cwd,
                    selected |-> selection[term.thread]]
    /\ UNCHANGED <<folder, tables, req, term, swap, abandoned, excused, trouble>>

\* session_before_switch, session_before_fork: the session on screen is noted.
Announce(k, to) ==
    /\ swap' = [swap EXCEPT ![k] = [at |-> "announced", to |-> to, selected |-> None]]
    /\ term' = [term EXCEPT !.replacing = term.thread]

\* A session whose cwd has changed is replaced by itself, if it is still the one on
\* screen: whether the owner has asked for another meanwhile was only looked at
\* before the cwd was resolved.
Rebind ==
    /\ settling.at = "resolving"
    /\ settling' = Unsettled
    /\ LET wanted == settling.selected IN
       IF /\ Resolves(wanted) /\ Cwd(wanted) # settling.cwd
          /\ term.at = "live" /\ term.thread = settling.thread
       THEN Announce("handler", settling.thread)
       ELSE UNCHANGED <<term, swap>>
    /\ UNCHANGED <<folder, tables, req, abandoned, excused, trouble>>

\* /new, /resume and /fork
Switch ==
    /\ term.at = "live" /\ swap["owner"].at = "none"
    /\ \E t \in Thread \ {term.thread} : Announce("owner", t)
    /\ UNCHANGED <<folder, tables, req, settling, abandoned, excused, trouble>>

\* Pi gives an announced replacement up before it closes the session: another
\* extension cancels it, or the transcript cannot be opened. Nothing takes the
\* announcement back.
Abandon(k) ==
    /\ swap[k].at = "announced"
    /\ trouble < MaxTrouble /\ trouble' = trouble + 1
    /\ swap' = [swap EXCEPT ![k] = NoSwap] /\ abandoned' = TRUE
    /\ UNCHANGED <<folder, tables, req, term, settling, excused>>

\* The runtime factory resolves again, for the session that comes.
Resolve(k) ==
    /\ swap[k].at = "announced"
    /\ swap' = [swap EXCEPT ![k] = [at |-> "resolving", to |-> swap[k].to,
                                    selected |-> selection[swap[k].to]]]
    /\ UNCHANGED <<folder, tables, req, term, settling, abandoned, excused, trouble>>

\* (mutant) the end of a replacement is not noted
CompleteForgotten(k) ==
    /\ swap[k].at = "resolving"
    /\ swap' = [swap EXCEPT ![k] = NoSwap]
    /\ term' = IF Resolves(swap[k].selected)
               THEN [term EXCEPT !.at = "live", !.thread = swap[k].to, !.cwd = Cwd(swap[k].selected)]
               ELSE [term EXCEPT !.at = "dead"]
    /\ abandoned' = (abandoned /\ ~Resolves(swap[k].selected))
    /\ UNCHANGED <<folder, tables, req, settling, excused, trouble>>

\* Pi has closed the session that goes by then: a failure leaves no session, unless
\* another replacement comes to its end after it.
Complete(k) ==
    /\ swap[k].at = "resolving"
    /\ swap' = [swap EXCEPT ![k] = NoSwap]
    /\ term' = IF Resolves(swap[k].selected)
               THEN [at |-> "live", thread |-> swap[k].to, cwd |-> Cwd(swap[k].selected),
                     replacing |-> None]
               ELSE [term EXCEPT !.at = "dead"]
    /\ abandoned' = (abandoned /\ ~Resolves(swap[k].selected))
    /\ UNCHANGED <<folder, tables, req, settling, excused, trouble>>

-----------------------------------------------------------------------------

Serves(r) ==
    \/ Create(r) \/ AddBranch(r) \/ AddWorktree(r) \/ Inspect(r) \/ Register(r)
    \/ Select(r) \/ Choose(r)
Replaces(k) == Resolve(k) \/ Complete(k)

Next ==
    \/ \E r \in Request : Serves(r)
    \/ \E n \in Name : Edit(n)
    \/ Restart
    \/ Settle \/ Rebind \/ Switch
    \/ \E k \in Asker : Replaces(k) \/ Abandon(k)

\* Replacements and handlers come to an end, and turns settle again and again.
Fairness ==
    /\ WF_vars(Settle) /\ WF_vars(Rebind)
    /\ \A k \in Asker : WF_vars(Replaces(k))

Spec == Init /\ [][Next]_vars /\ Fairness

-----------------------------------------------------------------------------
(* Properties.                                                             *)

\* What is registered for a repository was a worktree of that repository, whoever
\* else took the path before or meanwhile (create, registerAndSelectWorktree).
RowsNameTheirWorktrees == \A n \in Name : rows[n] # None => rows[n] \in was[n]

\* A create that nothing disturbed fails only on what was there before it: another
\* repository's worktree, or a branch of its name without one. In particular what a
\* failed write or a restart left unregistered is adopted by the next (create).
RetriedCreatesSucceed ==
    \A r \in Request :
       req[r].at = "failed" /\ r \notin excused =>
          LET n == req[r].name IN
          \/ Exists(n) /\ ~Exactly(disk[n], req[r].repo)
          \/ rows[n] \notin {None, req[r].repo}
          \/ ~Exists(n) /\ <<req[r].repo, n>> \in branches

\* A terminal that stays with a session works in what that session selected, as long
\* as that is what was registered: also when the owner's replacement and the
\* handler's overlap, and whichever of them ends last. Excused: from a replacement
\* that was announced and did not come until the next that does, the session's turns
\* settle unheard (createWorktreeRuntimeRebindExtension).
SelectionIsFollowed ==
    \A t \in Thread, n \in Name :
       <>[](/\ term.at = "live" /\ term.thread = t /\ selection[t] = n
            /\ Exactly(disk[n], rows[n]) /\ ~abandoned)
       => <>[](term.cwd = n)
=============================================================================
