--------------------------- MODULE WorktreeProofs ---------------------------
(***************************************************************************)
(* Proofs about Owner Operator's worktrees: a registered path was a        *)
(* worktree of the repository it is registered for, and a create that      *)
(* nothing disturbed fails only on what was there before it.               *)
(***************************************************************************)
EXTENDS Worktrees, TLAPS

Things == {Nothing, Stray} \cup {Linked(repo, branch) : repo \in Repo, branch \in Name \cup {None}}
Phases == {"idle", "creating", "adding", "inspecting", "registering",
           "selecting", "choosing", "done", "failed"}
Requests == [at : Phases, thread : Thread \cup {None}, repo : Repo \cup {None},
             name : Name \cup {None}, saw : Things]

\* What is on disk, in the tables and asked for.
TypeInv ==
    /\ disk \in [Name -> Things] /\ was \in [Name -> SUBSET Repo]
    /\ branches \subseteq Repo \X Name
    /\ rows \in [Name -> Repo \cup {None}]
    /\ req \in [Request -> Requests]
    /\ \A r \in Request : req[r].at # "idle" => req[r].repo \in Repo /\ req[r].name \in Name
    /\ excused \subseteq Request

\* Whoever's worktree is at a path, was seen there or is registered there, was there.
SeenWas ==
    /\ \A n \in Name : disk[n].repo # None => disk[n].repo \in was[n]
    /\ \A r \in Request : req[r].at # "idle" /\ req[r].saw.repo # None =>
          req[r].saw.repo \in was[req[r].name]

RowsInv == TypeInv /\ SeenWas /\ RowsNameTheirWorktrees

\* The terminal reads what the requests write, and writes none of it.
TerminalStep ==
    \/ Settle \/ Rebind \/ Switch
    \/ \E k \in Asker : Replaces(k) \/ Abandon(k)

LEMMA TerminalKeeps == TerminalStep => UNCHANGED <<disk, was, branches, rows, req, excused>>
BY DEF TerminalStep, Settle, Rebind, Switch, Replaces, Resolve, Complete, Abandon, folder, tables

LEMMA NoneIsNothing == None \notin Repo /\ None \notin Name
BY WorktreesAssumption

LEMMA ThingsHold ==
    ASSUME NEW thing \in Things
    PROVE  /\ thing.repo \in Repo \cup {None}
           /\ thing.holds = "worktree" <=> thing.repo # None
           /\ thing.holds = "worktree" => Linked(thing.repo, None) \in Things
           /\ thing.holds \in {"nothing", "folder", "worktree"}
           /\ thing.holds = "nothing" <=> thing = Nothing
           /\ thing.holds = "worktree" => thing = Linked(thing.repo, thing.branch)
BY NoneIsNothing DEF Things, Nothing, Stray, Linked

LEMMA RowsInvInit == Init => RowsInv
BY NoneIsNothing, WorktreesAssumption
   DEF Init, RowsInv, TypeInv, SeenWas, RowsNameTheirWorktrees, Idle, Nothing, Requests, Phases, Things

\* A request that goes on.
LEMMA Moves ==
    ASSUME RowsInv, NEW r \in Request, req[r].at # "idle", NEW to \in Phases \ {"idle"},
           req' = [req EXCEPT ![r].at = to]
    PROVE  /\ req' \in [Request -> Requests]
           /\ req'[r] = [at |-> to, thread |-> req[r].thread, repo |-> req[r].repo,
                         name |-> req[r].name, saw |-> req[r].saw]
           /\ \A q \in Request \ {r} : req'[q] = req[q]
BY DEF RowsInv, TypeInv, Requests

LEMMA Opens ==
    ASSUME RowsInv, NEW r \in Request, NEW at \in Phases \ {"idle"}, NEW t \in Thread,
           NEW repo \in Repo, NEW n \in Name,
           req' = [req EXCEPT ![r] = [at |-> at, thread |-> t, repo |-> repo, name |-> n,
                                      saw |-> Nothing]]
    PROVE  /\ req' \in [Request -> Requests]
           /\ req'[r] = [at |-> at, thread |-> t, repo |-> repo, name |-> n, saw |-> Nothing]
           /\ \A q \in Request \ {r} : req'[q] = req[q]
BY DEF RowsInv, TypeInv, Requests, Things

LEMMA Looks ==
    ASSUME RowsInv, NEW r \in Request, req[r].at # "idle", NEW to \in Phases \ {"idle"},
           req' = [req EXCEPT ![r].at = to, ![r].saw = disk[req[r].name]]
    PROVE  /\ req' \in [Request -> Requests]
           /\ req'[r] = [at |-> to, thread |-> req[r].thread, repo |-> req[r].repo,
                         name |-> req[r].name, saw |-> disk[req[r].name]]
           /\ \A q \in Request \ {r} : req'[q] = req[q]
<1> DEFINE row == [req[r] EXCEPT !.at = to, !.saw = disk[req[r].name]]
<1>1. disk[req[r].name] \in Things /\ req[r] \in Requests
  BY DEF RowsInv, TypeInv
<1>5. PICK old \in Requests : old = req[r]
  BY <1>1
<1>6. PICK thing \in Things : thing = disk[req[r].name]
  BY <1>1
<1>7. [old EXCEPT !.at = to, !.saw = thing]
         = [at |-> to, thread |-> old.thread, repo |-> old.repo, name |-> old.name, saw |-> thing]
  <2>1. PICK mid \in Requests : mid = [old EXCEPT !.at = to]
    BY DEF Requests
  <2>2. [old EXCEPT !.at = to, !.saw = thing] = [mid EXCEPT !.saw = thing]
    BY <2>1
  <2>3. /\ mid.at = to /\ mid.thread = old.thread /\ mid.repo = old.repo
        /\ mid.name = old.name
    BY <2>1 DEF Requests
  <2>4. [mid EXCEPT !.saw = thing]
           = [at |-> mid.at, thread |-> mid.thread, repo |-> mid.repo, name |-> mid.name, saw |-> thing]
    BY DEF Requests
  <2> QED BY <2>2, <2>3, <2>4
<1>2. row = [at |-> to, thread |-> req[r].thread, repo |-> req[r].repo,
             name |-> req[r].name, saw |-> disk[req[r].name]]
  BY <1>5, <1>6, <1>7
<1>3. row \in Requests
  BY <1>1, <1>2 DEF Requests
<1>4. req' = [req EXCEPT ![r] = row]
  OBVIOUS
<1> HIDE DEF row
<1> QED BY <1>2, <1>3, <1>4 DEF RowsInv, TypeInv

\* A step of a request that leaves the paths alone and registers nothing.
LEMMA RequestKeepsRows ==
    ASSUME RowsInv, NEW r \in Request, req' \in [Request -> Requests],
           \A q \in Request \ {r} : req'[q] = req[q],
           req'[r].at # "idle", req'[r].repo \in Repo, req'[r].name \in Name,
           req'[r].saw.repo # None => req'[r].saw.repo \in was[req'[r].name],
           UNCHANGED <<disk, was, rows>>, branches' \subseteq Repo \X Name, excused' \subseteq Request
    PROVE  RowsInv'
BY DEF RowsInv, TypeInv, SeenWas, RowsNameTheirWorktrees

\* What a path holds changes: whose worktree it becomes is noted.
LEMMA PathKeepsRows ==
    ASSUME RowsInv, NEW n \in Name, NEW thing \in Things, Holds(n, thing),
           req' \in [Request -> Requests], excused' \subseteq Request,
           \A q \in Request : /\ req'[q].repo = req[q].repo /\ req'[q].name = req[q].name
                              /\ req'[q].saw = req[q].saw
                              /\ req'[q].at = "idle" <=> req[q].at = "idle",
           UNCHANGED <<branches, rows>>
    PROVE  RowsInv'
<1>1. \A m \in Name : /\ disk'[m] = IF m = n THEN thing ELSE disk[m]
                      /\ was'[m] = IF m = n /\ thing.repo # None THEN was[m] \cup {thing.repo} ELSE was[m]
  BY DEF RowsInv, TypeInv, Holds
<1>2. thing.repo \in Repo \cup {None}
  BY ThingsHold
<1>3. TypeInv'
  BY <1>1, <1>2 DEF RowsInv, TypeInv, Holds
<1>4. SeenWas'
  BY <1>1 DEF RowsInv, TypeInv, SeenWas
<1>5. RowsNameTheirWorktrees'
  BY <1>1 DEF RowsInv, RowsNameTheirWorktrees
<1> QED BY <1>3, <1>4, <1>5 DEF RowsInv

LEMMA RowsInvNext == RowsInv /\ [Next]_vars => RowsInv'
<1> SUFFICES ASSUME RowsInv, [Next]_vars PROVE RowsInv'
  OBVIOUS
<1> USE NoneIsNothing
<1>1. ASSUME NEW r \in Request, Create(r) PROVE RowsInv'
  <2>1. PICK t \in Thread, repo \in Repo, n \in Name :
            req' = [req EXCEPT ![r] = [at |-> IF Adopts(n) THEN "inspecting" ELSE "creating",
                                       thread |-> t, repo |-> repo, name |-> n, saw |-> Nothing]]
    BY <1>1 DEF Create
  <2>2. excused' \subseteq Request /\ UNCHANGED <<disk, was, branches, rows>>
    BY <1>1 DEF Create, folder, tables, RowsInv, TypeInv
  <2>3. PICK at \in Phases \ {"idle"} : at = IF Adopts(n) THEN "inspecting" ELSE "creating"
    BY DEF Phases
  <2>4. /\ req' \in [Request -> Requests] /\ \A q \in Request \ {r} : req'[q] = req[q]
        /\ req'[r] = [at |-> at, thread |-> t, repo |-> repo, name |-> n, saw |-> Nothing]
    BY <2>1, <2>3, Opens
  <2> QED BY <2>2, <2>4, RequestKeepsRows DEF RowsInv, TypeInv, Nothing
<1>2. ASSUME NEW r \in Request, AddBranch(r) PROVE RowsInv'
  <2>1. PICK to \in Phases \ {"idle"} : req' = [req EXCEPT ![r].at = to]
    BY <1>2 DEF AddBranch, Fail, Goes, Phases
  <2>2. req[r].at # "idle" /\ excused' = excused /\ UNCHANGED <<disk, was, rows>>
        /\ req[r].repo \in Repo /\ req[r].name \in Name
    BY <1>2 DEF AddBranch, tables, RowsInv, TypeInv
  <2>3. branches' \subseteq Repo \X Name
    BY <1>2, <2>2 DEF AddBranch, RowsInv, TypeInv
  <2>4. /\ req' \in [Request -> Requests] /\ \A q \in Request \ {r} : req'[q] = req[q]
        /\ req'[r] = [at |-> to, thread |-> req[r].thread, repo |-> req[r].repo,
                      name |-> req[r].name, saw |-> req[r].saw]
    BY <2>1, <2>2, Moves
  <2> QED BY <2>2, <2>3, <2>4, RequestKeepsRows DEF RowsInv, TypeInv, SeenWas
<1>3. ASSUME NEW r \in Request, AddWorktree(r) PROVE RowsInv'
  <2>1. PICK to \in Phases \ {"idle"} : req' = [req EXCEPT ![r].at = to]
    BY <1>3 DEF AddWorktree, Fail, Goes, Phases
  <2>2. req[r].at # "idle" /\ excused' = excused /\ UNCHANGED <<branches, rows>>
        /\ req[r].repo \in Repo /\ req[r].name \in Name
    BY <1>3 DEF AddWorktree, tables, RowsInv, TypeInv
  <2>3. /\ req' \in [Request -> Requests] /\ \A q \in Request \ {r} : req'[q] = req[q]
        /\ req'[r] = [at |-> to, thread |-> req[r].thread, repo |-> req[r].repo,
                      name |-> req[r].name, saw |-> req[r].saw]
    BY <2>1, <2>2, Moves
  <2>4. CASE UNCHANGED <<disk, was>>
    BY <2>2, <2>3, <2>4, RequestKeepsRows DEF RowsInv, TypeInv, SeenWas
  <2>5. CASE Holds(req[r].name, Linked(req[r].repo, req[r].name))
    <3>1. Linked(req[r].repo, req[r].name) \in Things
      BY <2>2 DEF Things
    <3>2. \A q \in Request : /\ req'[q].repo = req[q].repo /\ req'[q].name = req[q].name
                             /\ req'[q].saw = req[q].saw
                             /\ req'[q].at = "idle" <=> req[q].at = "idle"
      BY <2>2, <2>3
    <3> QED BY <2>2, <2>3, <2>5, <3>1, <3>2, PathKeepsRows DEF RowsInv, TypeInv
  <2> QED BY <1>3, <2>4, <2>5 DEF AddWorktree
<1>4. ASSUME NEW r \in Request, Inspect(r) PROVE RowsInv'
  <2>1. PICK to \in Phases \ {"idle"} :
            req' = [req EXCEPT ![r].at = to, ![r].saw = disk[req[r].name]]
    BY <1>4 DEF Inspect, Phases
  <2>2. req[r].at # "idle" /\ excused' = excused /\ UNCHANGED <<disk, was, branches, rows>>
        /\ req[r].repo \in Repo /\ req[r].name \in Name
    BY <1>4 DEF Inspect, tables, folder, RowsInv, TypeInv
  <2>3. /\ req' \in [Request -> Requests] /\ \A q \in Request \ {r} : req'[q] = req[q]
        /\ req'[r] = [at |-> to, thread |-> req[r].thread, repo |-> req[r].repo,
                      name |-> req[r].name, saw |-> disk[req[r].name]]
    BY <2>1, <2>2, Looks
  <2> QED BY <2>2, <2>3, RequestKeepsRows DEF RowsInv, TypeInv, SeenWas
<1>5. ASSUME NEW r \in Request, Register(r) PROVE RowsInv'
  <2>1. PICK to \in Phases \ {"idle"} : req' = [req EXCEPT ![r].at = to]
    BY <1>5 DEF Register, Fail, Goes, Phases
  <2>2. req[r].at = "registering" /\ excused' \subseteq Request /\ UNCHANGED <<disk, was, branches>>
        /\ req[r].repo \in Repo /\ req[r].name \in Name
    BY <1>5 DEF Register, folder, RowsInv, TypeInv
  <2>3. /\ req' \in [Request -> Requests] /\ \A q \in Request \ {r} : req'[q] = req[q]
        /\ req'[r] = [at |-> to, thread |-> req[r].thread, repo |-> req[r].repo,
                      name |-> req[r].name, saw |-> req[r].saw]
    BY <2>1, <2>2, Moves
  <2>4. CASE UNCHANGED rows
    BY <2>2, <2>3, <2>4, RequestKeepsRows DEF RowsInv, TypeInv, SeenWas
  <2>5. CASE ExactlyCreated(r) /\ rows' = [rows EXCEPT ![req[r].name] = req[r].repo]
    <3>1. req[r].repo \in was[req[r].name]
      BY <2>2, <2>5 DEF ExactlyCreated, Exactly, RowsInv, SeenWas
    <3>2. TypeInv' /\ SeenWas'
      BY <2>2, <2>3, <2>5 DEF RowsInv, TypeInv, SeenWas
    <3>3. RowsNameTheirWorktrees'
      BY <2>2, <2>5, <3>1 DEF RowsInv, TypeInv, RowsNameTheirWorktrees
    <3> QED BY <3>2, <3>3 DEF RowsInv
  <2> QED BY <1>5, <2>4, <2>5 DEF Register, tables
<1>6. ASSUME NEW r \in Request, Select(r) PROVE RowsInv'
  <2>1. PICK t \in Thread, n \in Name :
            /\ rows[n] # None
            /\ req' = [req EXCEPT ![r] = [at |-> "selecting", thread |-> t, repo |-> rows[n],
                                          name |-> n, saw |-> Nothing]]
    BY <1>6 DEF Select
  <2>2. rows[n] \in Repo /\ excused' = excused /\ UNCHANGED <<disk, was, branches, rows>>
    BY <1>6, <2>1 DEF Select, folder, tables, RowsInv, TypeInv
  <2>3. "selecting" \in Phases \ {"idle"}
    BY DEF Phases
  <2>4. /\ req' \in [Request -> Requests] /\ \A q \in Request \ {r} : req'[q] = req[q]
        /\ req'[r] = [at |-> "selecting", thread |-> t, repo |-> rows[n], name |-> n, saw |-> Nothing]
    BY <2>1, <2>2, <2>3, Opens
  <2> QED BY <2>2, <2>4, RequestKeepsRows DEF RowsInv, TypeInv, Nothing
<1>7. ASSUME NEW r \in Request, Choose(r) PROVE RowsInv'
  <2>1. PICK to \in Phases \ {"idle"} : req' = [req EXCEPT ![r].at = to]
    BY <1>7 DEF Choose, Fail, Goes, Phases
  <2>2. req[r].at # "idle" /\ excused' \subseteq Request /\ UNCHANGED <<disk, was, branches, rows>>
        /\ req[r].repo \in Repo /\ req[r].name \in Name
    BY <1>7 DEF Choose, folder, RowsInv, TypeInv
  <2>3. /\ req' \in [Request -> Requests] /\ \A q \in Request \ {r} : req'[q] = req[q]
        /\ req'[r] = [at |-> to, thread |-> req[r].thread, repo |-> req[r].repo,
                      name |-> req[r].name, saw |-> req[r].saw]
    BY <2>1, <2>2, Moves
  <2> QED BY <2>2, <2>3, RequestKeepsRows DEF RowsInv, TypeInv, SeenWas
<1>8. ASSUME NEW n \in Name, Edit(n) PROVE RowsInv'
  <2>1. PICK thing \in {Nothing, Stray} \cup {Linked(disk[n].repo, None)} :
            (disk[n].holds = "worktree" \/ thing = Stray) /\ Holds(n, thing)
    BY <1>8 DEF Edit
  <2>2. thing \in Things
    BY <2>1, ThingsHold DEF RowsInv, TypeInv, Things
  <2>3. excused' = Request /\ UNCHANGED <<branches, rows, req>>
    BY <1>8 DEF Edit, tables
  <2> QED BY <2>1, <2>2, <2>3, PathKeepsRows DEF RowsInv, TypeInv
<1>9. CASE Restart
  <2> DEFINE adding == {r \in Request : req[r].at = "adding" /\ ~Exists(req[r].name)}
             added  == {n \in Name : \E r \in adding : req[r].name = n}
             by     == [n \in added |-> CHOOSE r \in adding : req[r].name = n]
  <2>1. \A n \in added : by[n] \in adding /\ req[by[n]].repo \in Repo /\ req[by[n]].name = n
    BY DEF RowsInv, TypeInv
  <2>2. /\ disk' = [n \in Name |-> IF n \in added THEN Linked(req[by[n]].repo, n) ELSE disk[n]]
        /\ was' = [n \in Name |-> IF n \in added THEN was[n] \cup {req[by[n]].repo} ELSE was[n]]
        /\ UNCHANGED <<branches, rows>>
        /\ req' = [r \in Request |-> IF Pending(r) THEN [req[r] EXCEPT !.at = "failed"] ELSE req[r]]
        /\ excused' \subseteq Request
    BY <1>9 DEF Restart, tables, RowsInv, TypeInv
  <2> HIDE DEF by, added, adding
  <2>3. \A r \in Request : /\ req'[r] \in Requests /\ req'[r].repo = req[r].repo
                           /\ req'[r].name = req[r].name /\ req'[r].saw = req[r].saw
                           /\ req'[r].at # "idle" => req[r].at # "idle"
    BY <2>2 DEF RowsInv, TypeInv, Requests, Phases, Pending
  <2>4. \A n \in added : n \in Name /\ Linked(req[by[n]].repo, n) \in Things
                         /\ Linked(req[by[n]].repo, n).repo = req[by[n]].repo
    BY <2>1 DEF Things, Linked, added
  <2>5. TypeInv'
    BY <2>1, <2>2, <2>3, <2>4 DEF RowsInv, TypeInv
  <2>6. SeenWas'
    BY <2>1, <2>2, <2>3, <2>4 DEF RowsInv, TypeInv, SeenWas
  <2>7. RowsNameTheirWorktrees'
    BY <2>2 DEF RowsInv, RowsNameTheirWorktrees
  <2> QED BY <2>5, <2>6, <2>7 DEF RowsInv
<1>10. CASE TerminalStep \/ UNCHANGED vars
  <2>1. UNCHANGED <<disk, was, branches, rows, req, excused>>
    BY <1>10, TerminalKeeps DEF vars
  <2> QED BY <2>1 DEF RowsInv, TypeInv, SeenWas, RowsNameTheirWorktrees
<1> QED BY <1>1, <1>2, <1>3, <1>4, <1>5, <1>6, <1>7, <1>8, <1>9, <1>10 DEF Next, Serves, TerminalStep

\* A path registered for a repository has held a worktree of that repository, for
\* every number of requests, names and sessions, whoever takes the path meanwhile
\* (assertExactWorktree, registerAndSelectWorktree).
THEOREM RowsStayTrue == Spec => []RowsNameTheirWorktrees
<1>1. RowsInv => RowsNameTheirWorktrees
  BY DEF RowsInv
<1> QED BY <1>1, RowsInvInit, RowsInvNext, PTL DEF Spec

-----------------------------------------------------------------------------
(* What a create can fail on.                                              *)

\* Until the owner changes a worktree: every path was created here, and stays.
PathsAreCreated == \A n \in Name : disk[n] = Nothing \/ \E repo \in Repo : disk[n] = Linked(repo, n)
RowsAreThere == \A n \in Name : rows[n] # None => disk[n] = Linked(rows[n], n)

\* What a request saw of its path is still what is there.
LooksAreFresh ==
    \A r \in Request :
       /\ req[r].at \in {"inspecting", "registering"} => Exists(req[r].name)
       /\ req[r].at \in {"registering", "choosing"} => req[r].saw = disk[req[r].name]
       /\ req[r].at \in {"selecting", "choosing"} => rows[req[r].name] = req[r].repo

\* A create that nothing disturbs has its path for itself.
CreatesAreAlone ==
    \A r \in Request \ excused :
       /\ req[r].at \in {"creating", "adding"} => ~Exists(req[r].name)
       /\ req[r].at \in {"creating", "adding", "inspecting", "registering"} =>
             \A q \in Rivals(r) : req[q].at \in {"selecting", "choosing"}

\* A branch without a worktree stays without one: nobody adds a worktree for it.
Barred(r) ==
    LET n == req[r].name IN
    \/ Exists(n) /\ ~Exactly(disk[n], req[r].repo)
    \/ rows[n] \notin {None, req[r].repo}
    \/ /\ ~Exists(n) /\ <<req[r].repo, n>> \in branches
       /\ \A q \in Request : req[q].at = "adding" =>
             <<req[q].repo, req[q].name>> # <<req[r].repo, n>>
FailuresAreBarred == \A r \in Request \ excused : req[r].at = "failed" => Barred(r)

Undisturbed == excused # Request
Calm == PathsAreCreated /\ RowsAreThere /\ LooksAreFresh /\ CreatesAreAlone /\ FailuresAreBarred
CreatesInv == Undisturbed => Calm

LEMMA CreatesInvInit == Init => CreatesInv
BY NoneIsNothing DEF Init, CreatesInv, Calm, PathsAreCreated, RowsAreThere, LooksAreFresh,
                     CreatesAreAlone, FailuresAreBarred, Idle

\* Nothing but the owner's change disturbs them all.
LEMMA ExcusedGrows ==
    ASSUME RowsInv, [Next]_vars, Undisturbed'
    PROVE  Undisturbed /\ excused \subseteq excused' /\ ~\E n \in Name : Edit(n)
<1>1. excused \subseteq excused' /\ excused' \subseteq Request
  BY RowsInvNext, TerminalKeeps DEF Next, TerminalStep, Serves, Create, AddBranch, AddWorktree, Inspect,
         Register, Select, Choose, Edit, Restart, vars, RowsInv, TypeInv
<1> QED BY <1>1 DEF Undisturbed, RowsInv, TypeInv, Edit

LEMMA LinkedExists ==
    /\ \A repo, n : Linked(repo, n).holds = "worktree" /\ Linked(repo, n).repo = repo
                    /\ Linked(repo, n).branch = n /\ Linked(repo, n) # Nothing
    /\ Nothing.holds = "nothing"
BY DEF Linked, Nothing

\* The failures that a step leaves as they were.
LEMMA StillBarred ==
    ASSUME NEW r \in Request, Barred(r), UNCHANGED <<disk, rows, branches>>,
           req'[r] = req[r], \A q \in Request : req'[q].at = "adding" => req'[q] = req[q]
    PROVE  Barred(r)'
BY DEF Barred, Exists, Exactly

LEMMA CalmCreate ==
    ASSUME RowsInv, Calm, NEW r \in Request, Create(r)
    PROVE  Calm'
<1> USE DEF Calm
<1>1. PICK t \in Thread, repo \in Repo, n \in Name :
          /\ req' = [req EXCEPT ![r] = [at |-> IF Adopts(n) THEN "inspecting" ELSE "creating",
                                        thread |-> t, repo |-> repo, name |-> n, saw |-> Nothing]]
          /\ excused' = IF \E q \in Request \ {r} : Pending(q) /\ req[q].name = n
                        THEN excused \cup {r} \cup {q \in Request : Pending(q)} ELSE excused
  BY DEF Create
<1>2. UNCHANGED <<disk, branches, rows>> /\ req[r].at = "idle"
  BY DEF Create, folder, tables
<1>3. /\ \A q \in Request \ {r} : req'[q] = req[q]
      /\ req'[r].at \in {"inspecting", "creating"} /\ req'[r].name = n
      /\ req'[r].at = "inspecting" <=> Exists(n)
  BY <1>1 DEF RowsInv, TypeInv, Adopts
<1>4. PathsAreCreated' /\ RowsAreThere'
  BY <1>2 DEF PathsAreCreated, RowsAreThere
<1>5. LooksAreFresh'
  BY <1>2, <1>3 DEF LooksAreFresh, Exists
<1>6. CreatesAreAlone'
  <2>1. ASSUME NEW u \in Request \ excused',
               req'[u].at \in {"creating", "adding", "inspecting", "registering"},
               NEW q \in Request \ {u}, Pending(q)', req'[q].name = req'[u].name
        PROVE  req'[q].at \in {"selecting", "choosing"}
    <3>1. CASE u = r
      BY <1>1, <1>3, <2>1, <3>1 DEF Pending
    <3>2. CASE q = r
      BY <1>1, <1>3, <2>1, <3>2 DEF Pending
    <3>3. CASE u # r /\ q # r
      BY <1>1, <1>3, <2>1, <3>3 DEF Pending, CreatesAreAlone, Rivals
    <3> QED BY <3>1, <3>2, <3>3
  <2>2. ASSUME NEW u \in Request \ excused', req'[u].at \in {"creating", "adding"}
        PROVE  disk'[req'[u].name].holds = "nothing"
    BY <1>1, <1>2, <1>3, <2>2 DEF CreatesAreAlone, Exists
  <2> QED BY <2>1, <2>2 DEF CreatesAreAlone, Rivals, Exists
<1>7. FailuresAreBarred'
  BY <1>1, <1>2, <1>3, StillBarred DEF FailuresAreBarred
<1> QED BY <1>4, <1>5, <1>6, <1>7

LEMMA CalmAddBranch ==
    ASSUME RowsInv, Calm, NEW r \in Request, AddBranch(r)
    PROVE  Calm'
<1> USE DEF Calm
<1>1. UNCHANGED <<disk, rows, excused>> /\ req[r].at = "creating" /\ branches \subseteq branches'
  BY DEF AddBranch, tables
<1>2. PICK to \in {"failed", "adding"} :
          /\ req' = [req EXCEPT ![r].at = to]
          /\ to = "failed" => (Exists(req[r].name) \/ <<req[r].repo, req[r].name>> \in branches)
                              /\ UNCHANGED branches
          /\ to = "adding" => ~Exists(req[r].name) /\ <<req[r].repo, req[r].name>> \notin branches
  BY DEF AddBranch, Fail, Goes
<1>3. /\ \A q \in Request : req'[q].name = req[q].name /\ req'[q].repo = req[q].repo
                            /\ req'[q].saw = req[q].saw
      /\ \A q \in Request \ {r} : req'[q] = req[q]
      /\ req'[r].at = to
  BY <1>2 DEF RowsInv, TypeInv, Requests
<1>4. PathsAreCreated' /\ RowsAreThere'
  BY <1>1 DEF PathsAreCreated, RowsAreThere
<1>5. LooksAreFresh'
  BY <1>1, <1>3 DEF LooksAreFresh, Exists
<1>6. CreatesAreAlone'
  <2>1. \A u \in Request : Rivals(u)' \subseteq Rivals(u)
    BY <1>1, <1>3 DEF Rivals, Pending
  <2>2. ASSUME NEW u \in Request \ excused,
               req'[u].at \in {"creating", "adding", "inspecting", "registering"}
        PROVE  /\ req[u].at \in {"creating", "adding", "inspecting", "registering"}
               /\ \A q \in Rivals(u) : q # r
    BY <1>1, <1>3, <2>2 DEF CreatesAreAlone, Rivals
  <2> QED BY <1>1, <1>2, <1>3, <2>1, <2>2 DEF CreatesAreAlone, Exists, Rivals
<1>7. FailuresAreBarred'
  <2> SUFFICES ASSUME NEW u \in Request \ excused, req'[u].at = "failed" PROVE Barred(u)'
    BY <1>1 DEF FailuresAreBarred
  <2>1. CASE u = r
    <3>1. ~Exists(req[r].name) /\ <<req[r].repo, req[r].name>> \in branches
      BY <1>1, <1>2, <1>3, <2>1 DEF CreatesAreAlone
    <3>2. ASSUME NEW q \in Request, req'[q].at = "adding" PROVE req[q].name # req[r].name
      BY <1>1, <1>3, <2>1, <3>2 DEF CreatesAreAlone, Rivals, Pending
    <3> QED BY <1>1, <1>2, <1>3, <2>1, <3>1, <3>2 DEF Barred, Exists
  <2>2. CASE u # r
    <3>1. Barred(u) /\ req'[u] = req[u]
      BY <1>3, <2>2 DEF FailuresAreBarred
    <3>2. <<req[u].repo, req[u].name>> \in branches /\ to = "adding" =>
             <<req[r].repo, req[r].name>> # <<req[u].repo, req[u].name>>
      BY <1>2
    <3> QED BY <1>1, <1>3, <3>1, <3>2 DEF Barred, Exists, Exactly
  <2> QED BY <2>1, <2>2
<1> QED BY <1>4, <1>5, <1>6, <1>7

LEMMA CalmAddWorktree ==
    ASSUME RowsInv, Calm, NEW r \in Request, AddWorktree(r)
    PROVE  Calm'
<1> USE DEF Calm
<1> DEFINE n == req[r].name
<1>1. UNCHANGED <<branches, rows, excused>> /\ req[r].at = "adding"
      /\ n \in Name /\ req[r].repo \in Repo
  BY DEF AddWorktree, tables, RowsInv, TypeInv
<1>2. PICK to \in {"failed", "inspecting"} :
          /\ req' = [req EXCEPT ![r].at = to]
          /\ to = "failed" => Exists(n) /\ UNCHANGED disk
          /\ to = "inspecting" => ~Exists(n) /\ disk' = [disk EXCEPT ![n] = Linked(req[r].repo, n)]
  BY DEF AddWorktree, Fail, Goes, Holds
<1>3. /\ \A q \in Request : req'[q].name = req[q].name /\ req'[q].repo = req[q].repo
                            /\ req'[q].saw = req[q].saw
      /\ \A q \in Request \ {r} : req'[q] = req[q]
      /\ req'[r].at = to
  BY <1>2 DEF RowsInv, TypeInv, Requests
<1>4. \A m \in Name : disk'[m] = IF m = n /\ to = "inspecting" THEN Linked(req[r].repo, n) ELSE disk[m]
  BY <1>1, <1>2 DEF RowsInv, TypeInv
<1>5. \A m \in Name : Exists(m) => disk'[m] = disk[m] /\ Exists(m)'
  BY <1>1, <1>2, <1>4 DEF Exists
<1>6. /\ \A q \in Request : req[q].at # "idle" => req[q].name \in Name /\ req[q].repo \in Repo
      /\ \A m \in Name : rows[m] # None => Exists(m)
  BY LinkedExists DEF RowsInv, TypeInv, RowsAreThere, Exists
<1>7. PathsAreCreated' /\ RowsAreThere'
  BY <1>1, <1>4, <1>5, <1>6 DEF PathsAreCreated, RowsAreThere
<1>8. LooksAreFresh'
  <2>1. CASE to = "failed"
    BY <1>1, <1>2, <1>3, <2>1 DEF LooksAreFresh, Exists
  <2>2. CASE to = "inspecting"
    <3>1. disk'[n].holds # "nothing"
      BY <1>1, <1>4, <2>2, LinkedExists DEF Exists
    <3>2. ASSUME NEW u \in Request \ {r}, req[u].at \in {"inspecting", "registering", "selecting", "choosing"}
          PROVE  Exists(req[u].name) /\ req[u].name \in Name
      BY <1>6, <3>2, NoneIsNothing DEF LooksAreFresh
    <3>3. ASSUME NEW u \in Request \ {r} 
          PROVE  /\ req[u].at \in {"inspecting", "registering"} => disk'[req[u].name].holds # "nothing"
                 /\ req[u].at \in {"registering", "choosing"} => req[u].saw = disk'[req[u].name]
                 /\ req[u].at \in {"selecting", "choosing"} => rows'[req[u].name] = req[u].repo
      BY <1>1, <1>5, <3>2 DEF LooksAreFresh, Exists
    <3> QED BY <1>1, <1>3, <2>2, <3>1, <3>3 DEF LooksAreFresh, Exists
  <2> QED BY <2>1, <2>2
<1>9. CreatesAreAlone'
  <2>1. \A u \in Request : Rivals(u)' \subseteq Rivals(u)
    BY <1>1, <1>3 DEF Rivals, Pending
  <2>2. ASSUME NEW u \in Request \ excused,
               req'[u].at \in {"creating", "adding", "inspecting", "registering"}
        PROVE  /\ req[u].at \in {"creating", "adding", "inspecting", "registering"}
               /\ \A q \in Rivals(u) : q # r
    BY <1>1, <1>3, <2>2 DEF CreatesAreAlone, Rivals
  <2>3. ASSUME NEW u \in Request \ excused, req'[u].at \in {"creating", "adding"}
        PROVE  disk'[req[u].name].holds = "nothing"
    <3>1. u # r /\ req[u].at \in {"creating", "adding"} /\ req[u].name \in Name
      BY <1>3, <1>6, <2>3
    <3>2. req[u].name # n
      BY <1>1, <2>2, <2>3, <3>1 DEF Rivals, Pending
    <3> QED BY <1>4, <3>1, <3>2 DEF CreatesAreAlone, Exists
  <2> QED BY <1>1, <1>3, <2>1, <2>2, <2>3 DEF CreatesAreAlone, Exists, Rivals
<1>10. FailuresAreBarred'
  <2> SUFFICES ASSUME NEW u \in Request \ excused, req'[u].at = "failed" PROVE Barred(u)'
    BY <1>1 DEF FailuresAreBarred
  <2>1. u # r
    BY <1>1, <1>2, <1>3 DEF CreatesAreAlone
  <2>2. Barred(u) /\ req'[u] = req[u] /\ req[u].name \in Name
    BY <1>3, <1>6, <2>1 DEF FailuresAreBarred
  <2>3. \A q \in Request : req'[q].at = "adding" => req'[q] = req[q]
    BY <1>2, <1>3
  <2>4. CASE req[u].name # n \/ to = "failed" \/ Exists(n)
    <3>1. disk'[req[u].name] = disk[req[u].name]
      BY <1>2, <1>4, <2>2, <2>4
    <3> QED BY <1>1, <1>3, <2>2, <2>3, <3>1 DEF Barred, Exists, Exactly
  <2>5. CASE req[u].name = n /\ to = "inspecting" /\ ~Exists(n)
    <3>1. rows[n] \notin {None, req[u].repo} \/ req[u].repo # req[r].repo
      BY <1>1, <2>2, <2>5 DEF Barred
    <3>2. disk'[n] = Linked(req[r].repo, n)
      BY <1>1, <1>4, <2>5
    <3> QED BY <1>1, <2>2, <2>5, <3>1, <3>2, LinkedExists DEF Barred, Exists, Exactly
  <2> QED BY <2>4, <2>5, <1>2
<1> QED BY <1>7, <1>8, <1>9, <1>10

\* A step of one request that leaves the paths alone, and may register its own.
LEMMA CalmRequest ==
    ASSUME RowsInv, Calm, NEW r \in Request,
           UNCHANGED <<disk, branches>>, excused \subseteq excused',
           \A q \in Request \ {r} : req'[q] = req[q],
           \A n \in Name : rows'[n] = rows[n] \/ (rows[n] = None /\ disk[n] = Linked(rows'[n], n)),
           req'[r].at \in {"registering", "selecting", "choosing", "done", "failed"},
           req'[r].at = "registering" => req[r].at = "inspecting" /\ req'[r].name = req[r].name,
           req'[r].at \in {"registering", "choosing"} => req'[r].saw = disk[req'[r].name],
           req'[r].at \in {"selecting", "choosing"} => rows'[req'[r].name] = req'[r].repo,
           req'[r].at = "failed" /\ r \notin excused' => Barred(r)'
    PROVE  Calm'
<1> USE DEF Calm
<1>1. \A q \in Request : req[q].at # "idle" => req[q].name \in Name /\ req[q].repo \in Repo
  BY DEF RowsInv, TypeInv
<1>2. PathsAreCreated'
  BY DEF PathsAreCreated
<1>3. RowsAreThere'
  BY DEF RowsAreThere
<1>4. LooksAreFresh'
  <2>1. ASSUME NEW u \in Request \ {r}, req[u].at \in {"selecting", "choosing"}
        PROVE  rows'[req[u].name] = req[u].repo
    BY <1>1, <2>1, NoneIsNothing DEF LooksAreFresh
  <2>2. req'[r].at = "registering" => disk[req'[r].name].holds # "nothing"
    BY DEF LooksAreFresh, Exists
  <2> QED BY <2>1, <2>2 DEF LooksAreFresh, Exists
<1>5. CreatesAreAlone'
  <2> DEFINE Creating == {"creating", "adding", "inspecting", "registering"}
  <2>1. ASSUME NEW u \in Request \ excused', req'[u].at \in Creating,
               NEW q \in Request \ {u}, Pending(q)', req'[q].name = req'[u].name
        PROVE  req'[q].at \in {"selecting", "choosing"}
    <3>1. u \notin excused /\ req[u].at \in Creating /\ req'[u].name = req[u].name
      BY <2>1
    <3>2. CASE req'[q].at \in {"done", "failed"}
      BY <2>1, <3>2 DEF Pending
    <3>3. CASE q # r \/ req'[q].at = "registering"
      <4>1. q \in Rivals(u)
        BY <2>1, <3>1, <3>3 DEF Rivals, Pending
      <4>2. req[q].at \in {"selecting", "choosing"}
        BY <3>1, <4>1 DEF CreatesAreAlone
      <4> QED BY <3>3, <4>2, <2>1
    <3> QED BY <3>2, <3>3
  <2>2. ASSUME NEW u \in Request \ excused', req'[u].at \in {"creating", "adding"}
        PROVE  disk'[req'[u].name].holds = "nothing"
    BY <2>2 DEF CreatesAreAlone, Exists
  <2> QED BY <2>1, <2>2 DEF CreatesAreAlone, Rivals, Exists
<1>6. FailuresAreBarred'
  <2> SUFFICES ASSUME NEW u \in Request \ excused', req'[u].at = "failed" PROVE Barred(u)'
    BY DEF FailuresAreBarred
  <2>1. CASE u = r
    BY <2>1
  <2>2. CASE u # r
    <3>1. Barred(u) /\ req'[u] = req[u] /\ req[u].name \in Name
      BY <1>1, <2>2 DEF FailuresAreBarred
    <3>2. rows[req[u].name] \notin {None, req[u].repo} => rows'[req[u].name] = rows[req[u].name]
      BY <3>1
    <3>3. \A q \in Request : req'[q].at = "adding" => req'[q] = req[q]
      OBVIOUS
    <3> QED BY <3>1, <3>2, <3>3 DEF Barred, Exists, Exactly
  <2> QED BY <2>1, <2>2
<1> QED BY <1>2, <1>3, <1>4, <1>5, <1>6

LEMMA CalmInspect ==
    ASSUME RowsInv, Calm, NEW r \in Request, Inspect(r)
    PROVE  Calm'
<1>1. UNCHANGED <<disk, branches, rows, excused>> /\ req[r].at \in {"inspecting", "selecting"}
      /\ req' = [req EXCEPT ![r].at = IF @ = "inspecting" THEN "registering" ELSE "choosing",
                            ![r].saw = disk[req[r].name]]
  BY DEF Inspect, folder, tables
<1>2. PICK to \in {"registering", "choosing"} :
         /\ to = IF req[r].at = "inspecting" THEN "registering" ELSE "choosing"
         /\ req' = [req EXCEPT ![r].at = to, ![r].saw = disk[req[r].name]]
  BY <1>1
<1>3. /\ req'[r] = [at |-> to, thread |-> req[r].thread, repo |-> req[r].repo,
                    name |-> req[r].name, saw |-> disk[req[r].name]]
      /\ \A q \in Request \ {r} : req'[q] = req[q]
  BY <1>1, <1>2, Looks DEF Phases
<1>4. req[r].at = "selecting" => rows[req[r].name] = req[r].repo
  BY DEF Calm, LooksAreFresh
<1>5. /\ to = "registering" => req[r].at = "inspecting"
      /\ to = "choosing" => rows[req[r].name] = req[r].repo
  BY <1>1, <1>2, <1>4
<1>6. UNCHANGED <<disk, branches, rows, excused>>
  BY <1>1
<1> QED BY <1>3, <1>5, <1>6, CalmRequest

LEMMA CalmRegister ==
    ASSUME RowsInv, Calm, NEW r \in Request, Register(r)
    PROVE  Calm'
<1> DEFINE n == req[r].name
<1>1. UNCHANGED <<disk, branches>> /\ req[r].at = "registering" /\ excused \subseteq excused'
      /\ n \in Name /\ req[r].repo \in Repo
  BY DEF Register, folder, RowsInv, TypeInv
<1>2. PICK repo \in Repo : disk[n] = Linked(repo, n) /\ req[r].saw = disk[n]
  BY <1>1, LinkedExists DEF Calm, PathsAreCreated, LooksAreFresh, Exists
<1>3. ExactlyCreated(r) <=> repo = req[r].repo
  BY <1>2, LinkedExists DEF ExactlyCreated, Exactly
<1>4. PICK to \in {"done", "failed"} :
         /\ Goes(r, to)
         /\ to = "done" => /\ ExactlyCreated(r) /\ rows[n] \in {None, req[r].repo}
                           /\ rows' = [rows EXCEPT ![n] = req[r].repo]
         /\ to = "failed" => UNCHANGED rows
         /\ to = "failed" /\ r \notin excused' =>
               ~ExactlyCreated(r) \/ rows[n] \notin {None, req[r].repo}
  <2>1. CASE ExactlyCreated(r) /\ rows[n] \in {None, req[r].repo} /\ Goes(r, "done")
             /\ rows' = [rows EXCEPT ![n] = req[r].repo]
    BY <2>1
  <2>2. CASE Fail(r) /\ UNCHANGED tables
             /\ (~ExactlyCreated(r) \/ rows[n] \notin {None, req[r].repo} \/ r \in excused')
    BY <2>2 DEF Fail, Goes, tables
  <2> QED BY <2>1, <2>2 DEF Register
<1>5. /\ req'[r] = [at |-> to, thread |-> req[r].thread, repo |-> req[r].repo,
                    name |-> req[r].name, saw |-> req[r].saw]
      /\ \A q \in Request \ {r} : req'[q] = req[q]
  BY <1>1, <1>4, Moves DEF Phases, Goes
<1>6. \A m \in Name : rows'[m] = rows[m] \/ (rows[m] = None /\ disk[m] = Linked(rows'[m], m))
  BY <1>1, <1>2, <1>3, <1>4 DEF RowsInv, TypeInv
<1>7. req'[r].at = "failed" /\ r \notin excused' => Barred(r)'
  BY <1>1, <1>2, <1>3, <1>4, <1>5, LinkedExists DEF Barred, Exists, Exactly
<1> HIDE DEF n
<1> QED BY <1>1, <1>4, <1>5, <1>6, <1>7, CalmRequest

LEMMA CalmSelect ==
    ASSUME RowsInv, Calm, NEW r \in Request, Select(r)
    PROVE  Calm'
<1>1. UNCHANGED <<disk, branches, rows, excused>>
  BY DEF Select, folder, tables
<1>2. PICK t \in Thread, n \in Name :
         /\ rows[n] # None
         /\ req' = [req EXCEPT ![r] = [at |-> "selecting", thread |-> t, repo |-> rows[n],
                                       name |-> n, saw |-> Nothing]]
  BY DEF Select
<1>3. rows[n] \in Repo
  BY <1>2 DEF RowsInv, TypeInv
<1>4. /\ req'[r] = [at |-> "selecting", thread |-> t, repo |-> rows[n], name |-> n, saw |-> Nothing]
      /\ \A q \in Request \ {r} : req'[q] = req[q]
  BY <1>2, <1>3, Opens DEF Phases
<1> QED BY <1>1, <1>2, <1>4, CalmRequest

LEMMA CalmChoose ==
    ASSUME RowsInv, Calm, NEW r \in Request, Choose(r)
    PROVE  Calm'
<1> DEFINE n == req[r].name
<1>1. UNCHANGED <<disk, branches, rows>> /\ req[r].at = "choosing" /\ excused \subseteq excused'
      /\ n \in Name /\ req[r].repo \in Repo
  BY DEF Choose, folder, RowsInv, TypeInv
<1>2. Exactly(req[r].saw, req[r].repo)
  BY <1>1, LinkedExists, NoneIsNothing DEF Calm, LooksAreFresh, RowsAreThere, Exactly
<1>3. PICK to \in {"done", "failed"} :
         req' = [req EXCEPT ![r].at = to] /\ (to = "failed" => r \in excused')
  BY <1>2 DEF Choose, Goes, Fail
<1>4. /\ req'[r] = [at |-> to, thread |-> req[r].thread, repo |-> req[r].repo,
                    name |-> req[r].name, saw |-> req[r].saw]
      /\ \A q \in Request \ {r} : req'[q] = req[q]
  BY <1>1, <1>3, Moves DEF Phases
<1> QED BY <1>1, <1>3, <1>4, CalmRequest

\* Git goes on without the daemon: a branch that was being added gets its worktree.
LEMMA CalmRestart ==
    ASSUME RowsInv, Calm, Restart
    PROVE  Calm'
<1> USE DEF Calm
<1> DEFINE adding == {r \in Request : req[r].at = "adding" /\ ~Exists(req[r].name)}
           added  == {n \in Name : \E r \in adding : req[r].name = n}
           by     == [n \in added |-> CHOOSE r \in adding : req[r].name = n]
<1>1. \A n \in added : /\ n \in Name /\ by[n] \in Request /\ req[by[n]].at = "adding"
                       /\ req[by[n]].name = n /\ req[by[n]].repo \in Repo
                       /\ disk[n].holds = "nothing"
  BY DEF RowsInv, TypeInv, Exists
<1>2. /\ disk' = [n \in Name |-> IF n \in added THEN Linked(req[by[n]].repo, n) ELSE disk[n]]
      /\ UNCHANGED <<branches, rows>>
      /\ req' = [r \in Request |-> IF Pending(r) THEN [req[r] EXCEPT !.at = "failed"] ELSE req[r]]
      /\ excused' = excused \cup {r \in Request : Pending(r)}
  BY DEF Restart, tables
<1> HIDE DEF by, added, adding
<1>3. \A r \in Request : /\ req'[r].at \in {"idle", "done", "failed"}
                         /\ ~Pending(r) => req'[r] = req[r]
  BY <1>2 DEF RowsInv, TypeInv, Requests, Pending
<1>4. \A n \in Name : disk[n].holds # "nothing" => disk'[n] = disk[n]
  BY <1>1, <1>2
<1>5. PathsAreCreated'
  BY <1>1, <1>2 DEF PathsAreCreated
<1>6. RowsAreThere'
  BY <1>2, <1>4, LinkedExists DEF RowsAreThere
<1>7. LooksAreFresh' /\ CreatesAreAlone'
  BY <1>3 DEF LooksAreFresh, CreatesAreAlone
<1>8. FailuresAreBarred'
  <2> SUFFICES ASSUME NEW u \in Request \ excused', req'[u].at = "failed" PROVE Barred(u)'
    BY DEF FailuresAreBarred
  <2>1. Barred(u) /\ req'[u] = req[u] /\ req[u].name \in Name
    BY <1>2, <1>3 DEF FailuresAreBarred, RowsInv, TypeInv
  <2>2. CASE disk'[req[u].name] = disk[req[u].name]
    BY <1>2, <1>3, <2>1, <2>2 DEF Barred, Exists, Exactly
  <2>3. CASE disk'[req[u].name] # disk[req[u].name]
    <3>1. req[u].name \in added /\ disk'[req[u].name] = Linked(req[by[req[u].name]].repo, req[u].name)
      BY <1>2, <2>1, <2>3
    <3>2. \/ rows[req[u].name] \notin {None, req[u].repo}
          \/ <<req[by[req[u].name]].repo, req[by[req[u].name]].name>> # <<req[u].repo, req[u].name>>
      BY <1>1, <2>1, <3>1 DEF Barred, Exists
    <3>3. req[by[req[u].name]].repo # req[u].repo \/ rows[req[u].name] \notin {None, req[u].repo}
      BY <1>1, <3>1, <3>2
    <3>4. /\ disk'[req[u].name].holds = "worktree"
          /\ disk'[req[u].name].repo = req[by[req[u].name]].repo
      BY <3>1, LinkedExists
    <3> QED BY <1>2, <2>1, <3>3, <3>4 DEF Barred, Exists, Exactly
  <2> QED BY <2>2, <2>3
<1> QED BY <1>5, <1>6, <1>7, <1>8

LEMMA CreatesInvNext == RowsInv /\ CreatesInv /\ [Next]_vars => CreatesInv'
<1> SUFFICES ASSUME RowsInv, CreatesInv, [Next]_vars, Undisturbed' PROVE Calm'
  BY DEF CreatesInv
<1>1. Calm /\ ~\E n \in Name : Edit(n)
  BY ExcusedGrows DEF CreatesInv
<1>2. CASE \E r \in Request : Serves(r)
  BY <1>1, <1>2, CalmCreate, CalmAddBranch, CalmAddWorktree, CalmInspect, CalmRegister,
     CalmSelect, CalmChoose DEF Serves
<1>3. CASE Restart
  BY <1>1, <1>3, CalmRestart
<1>4. CASE TerminalStep \/ UNCHANGED vars
  <2>1. UNCHANGED <<disk, branches, rows, req, excused>>
    BY <1>4, TerminalKeeps DEF vars
  <2> QED BY <1>1, <2>1 DEF Calm, PathsAreCreated, RowsAreThere, LooksAreFresh, CreatesAreAlone,
                            FailuresAreBarred, Barred, Rivals, Pending, Exists, Exactly
<1> QED BY <1>1, <1>2, <1>3, <1>4 DEF Next, TerminalStep

\* Whatever the interleaving of requests, failing writes and restarts of the daemon, a
\* create that nothing disturbed fails only on another repository's worktree or on a
\* branch without one: what an earlier attempt left half done is adopted, never in
\* the way (WorktreeService.create, registerAndSelectWorktree).
THEOREM RetriedCreatesStaySucceeding == Spec => []RetriedCreatesSucceed
<1>1. RowsInv /\ CreatesInv => RetriedCreatesSucceed
  <2> SUFFICES ASSUME RowsInv, CreatesInv, NEW r \in Request, req[r].at = "failed", r \notin excused
               PROVE  Barred(r)
    BY DEF RetriedCreatesSucceed, Barred
  <2> QED BY DEF CreatesInv, Undisturbed, Calm, FailuresAreBarred
<1> QED BY <1>1, RowsInvInit, RowsInvNext, CreatesInvInit, CreatesInvNext, PTL DEF Spec
=============================================================================
