---------------------------- MODULE ProcessLeases ----------------------------
(***************************************************************************)
(* Who may end which process: the durable lease of a delegated turn or of  *)
(* a harness probe, the wrapper process that carries its id, the cleanup   *)
(* after the turn and the reaping at the next daemon's start               *)
(* (process-lease.ts, acp-process-wrapper.mjs, the launcher's and the      *)
(* observer's use of them).                                                *)
(*                                                                         *)
(* The operating system reuses a pid at any time, except while a cleanup   *)
(* is between its listing and its last signal. A process told to end may   *)
(* do so or not, as it may at any other time: SIGTERM is no step of its    *)
(* own. A killed process may survive for a while (bound MaxFaults).        *)
(***************************************************************************)
EXTENDS Naturals, FiniteSets

CONSTANTS
    Pid,        \* bound: the process ids in use at a time
    Lease,      \* one for each turn or probe launched
    Daemon,     \* bound: the daemon processes there are in turn
    MaxFaults   \* bound: failed listings, closes and kills, killed wrappers, reused pids

Launchd == "launchd"
Absent  == "absent"
Unset   == "unset"
Nobody  == "nobody"
Elsewhere == "elsewhere"    \* the lease of another home, or none

ASSUME LeasesAssumption ==
    /\ MaxFaults \in Nat
    /\ Pid \cap Daemon = {} /\ {Launchd, Absent, Unset} \cap (Pid \cup Daemon) = {}
    /\ Nobody \notin Daemon /\ Elsewhere \notin Lease

VARIABLES
    os,         \* the process of each pid
    file,       \* each lease on disk: absent, without a root pid, or with one
    job,        \* each turn or probe, as its daemon sees it
    daemon,     \* each daemon process
    overlap,    \* (history) a daemon crashed while another was past its listing
    faults      \* what went wrong so far

vars == <<os, file, job, daemon, overlap, faults>>

\* What runs under a pid: only a wrapper's command line names its lease, before it
\* has started the agent and after.
Wrapper == {"wrapper", "parent"}
Idle == [runs |-> "nothing", lease |-> Elsewhere, parent |-> Launchd]
Live(p) == os[p].runs # "nothing"
Ours(p) == os[p].lease \in Lease

Unused == [at |-> "unused", by |-> Nobody, probe |-> FALSE, tracked |-> {}, aim |-> {}]
NoAim  == [l \in Lease |-> {}]

Init ==
    /\ os = [p \in Pid |-> Idle]
    /\ file = [l \in Lease |-> Absent]
    /\ job = [l \in Lease |-> Unused]
    /\ daemon = [d \in Daemon |-> [at |-> "none", aim |-> NoAim]]
    /\ overlap = FALSE /\ faults = 0

Fault == faults < MaxFaults /\ faults' = faults + 1

\* processesForLease, and collectProcessTree: the wrapper of a lease and all below it.
Wrappers(l) == {p \in Pid : os[p].runs \in Wrapper /\ os[p].lease = l}
Closed(S)   == \A p \in Pid : os[p].parent \in S /\ Live(p) => p \in S
Tree(root)  == {p \in Pid : \A S \in SUBSET Pid : root \in S /\ Closed(S) => p \in S}
TreeOf(l)   == UNION {Tree(p) : p \in Wrappers(l)}

\* The dead's children go to launchd.
Dying(dead) ==
    [p \in Pid |-> IF p \in dead THEN Idle
                   ELSE IF os[p].parent \in dead THEN [os[p] EXCEPT !.parent = Launchd]
                   ELSE os[p]]

\* The pids a cleanup is about to signal.
Aimed ==
    (UNION {job[l].aim : l \in Lease}) \cup
    (UNION {daemon[d].aim[l] : d \in {e \in Daemon : daemon[e].at = "killing"}, l \in Lease})
Free == {p \in Pid : ~Live(p)} \ Aimed

\* SIGKILL to what is left of them; one may outlive it.
Kill(pids) ==
    \/ os' = Dying(pids) /\ UNCHANGED faults
    \/ \E survivor \in {p \in pids : Live(p)} : os' = Dying(pids \ {survivor}) /\ Fault

-----------------------------------------------------------------------------
(* Processes.                                                              *)

\* The wrapper starts the agent, the agent what it needs.
Fork(p) ==
    /\ Ours(p) /\ Live(p)
    /\ os[p].runs # "parent"
    /\ \E q \in Free :
          os' = [os EXCEPT ![q] = [runs |-> "agent", lease |-> os[p].lease, parent |-> p],
                           ![p].runs = IF @ = "wrapper" THEN "parent" ELSE @]
    /\ UNCHANGED <<file, job, daemon, overlap, faults>>

\* A wrapper ends after the agent it started, unless it is killed.
Exit(p) ==
    /\ Live(p)
    /\ IF os[p].runs \in Wrapper /\ \E q \in Pid : os[q].parent = p
       THEN Fault ELSE UNCHANGED faults
    /\ os' = Dying({p})
    /\ UNCHANGED <<file, job, daemon, overlap>>

\* The pid goes to a process of no concern, or to an orphaned wrapper of another home.
Reuse(p) ==
    /\ p \in Free
    /\ \E runs \in {"other", "wrapper"} :
          os' = [os EXCEPT ![p] = [Idle EXCEPT !.runs = runs]]
    /\ Fault
    /\ UNCHANGED <<file, job, daemon, overlap>>

-----------------------------------------------------------------------------
(* A daemon's start.                                                       *)

Running(d) == daemon[d].at = "running"

\* (mutant) the wrappers of a live daemon are taken for orphans
AllWrappers(l) == {p \in Wrappers(l) : file[l] \in {Unset, p}}

\* (mutant) a lease without a root pid proves nothing
OrphansWithARoot(l) == {p \in Wrappers(l) : os[p].parent = Launchd /\ file[l] = p}

\* listLeases: a file that cannot be read is no lease, but each is replaced whole.
OnDisk == {l \in Lease : file[l] # Absent}

\* The roots a reaping claims: orphaned, under a lease of this home that knows no
\* other root.
Orphans(l) ==
    {p \in Wrappers(l) : os[p].parent = Launchd /\ l \in OnDisk /\ file[l] \in {Unset, p}}

ReapList(d) ==
    /\ daemon[d].at = "none"
    /\ \/ /\ daemon' = [daemon EXCEPT ![d] =
                [at |-> "killing", aim |-> [l \in Lease |-> UNION {Tree(p) : p \in Orphans(l)}]]]
          /\ UNCHANGED faults
       \/ Fault /\ daemon' = [daemon EXCEPT ![d].at = "listening"]
    /\ UNCHANGED <<os, file, job, overlap>>

ReapKill(d) ==
    /\ daemon[d].at = "killing"
    /\ Kill(UNION {daemon[d].aim[l] : l \in Lease})
    /\ daemon' = [daemon EXCEPT ![d].at = "confirming"]
    /\ UNCHANGED <<file, job, overlap>>

\* Gone when neither the wrapper nor a pid of its tree is listed any more.
ReapConfirm(d) ==
    /\ daemon[d].at = "confirming"
    /\ \/ /\ file' = [l \in Lease |->
                 IF /\ daemon[d].aim[l] # {}
                    /\ Wrappers(l) = {}
                    /\ \A p \in daemon[d].aim[l] : ~Live(p)
                 THEN Absent ELSE file[l]]
          /\ UNCHANGED faults
       \/ Fault /\ UNCHANGED file
    /\ daemon' = [daemon EXCEPT ![d] = [at |-> "listening", aim |-> NoAim]]
    /\ UNCHANGED <<os, job, overlap>>

\* Only then is the port asked for, and the loser ends.
Listen(d) ==
    /\ daemon[d].at = "listening"
    /\ daemon' = [daemon EXCEPT ![d].at =
                    IF \E e \in Daemon : Running(e) THEN "dead" ELSE "running"]
    /\ UNCHANGED <<os, file, job, overlap, faults>>

\* Its processes are orphaned, what it knew of them is lost.
CrashDaemon(d) ==
    /\ Running(d)
    /\ daemon' = [daemon EXCEPT ![d].at = "dead"]
    /\ os' = Dying({d})
    /\ job' = [l \in Lease |-> IF job[l].by = d /\ job[l].at # "done"
                               THEN [Unused EXCEPT !.at = "lost", !.by = d] ELSE job[l]]
    /\ overlap' = (overlap \/ \E e \in Daemon : daemon[e].at \in {"killing", "confirming", "listening"})
    /\ UNCHANGED <<file, faults>>

-----------------------------------------------------------------------------
(* A turn or a probe.                                                      *)

Moves(l, to) == job' = [job EXCEPT ![l].at = to]
Drops(l) == file' = [file EXCEPT ![l] = Absent]

\* createLeasedAcpRuntime: the lease is on disk before anything can be spawned.
CreateLease(l) ==
    /\ job[l].at = "unused"
    /\ \E d \in Daemon, probe \in BOOLEAN :
          /\ Running(d)
          /\ job' = [job EXCEPT ![l].at = "leased", ![l].by = d, ![l].probe = probe]
    /\ file' = [file EXCEPT ![l] = Unset]
    /\ UNCHANGED <<os, daemon, overlap, faults>>

\* and rolled back when the runtime cannot be built.
SetupFails(l) ==
    /\ job[l].at = "leased"
    /\ Drops(l) /\ Moves(l, "done")
    /\ UNCHANGED <<os, daemon, overlap, faults>>

\* ensureSession
Spawn(l) ==
    /\ job[l].at = "leased"
    /\ \E p \in Free :
          os' = [os EXCEPT ![p] = [runs |-> "wrapper", lease |-> l, parent |-> job[l].by]]
    /\ Moves(l, "opening")
    /\ UNCHANGED <<file, daemon, overlap, faults>>

\* updateAgentRunProcessLease: a lease that is gone stays gone.
WithRoot(l, p) == [file EXCEPT ![l] = IF l \in OnDisk THEN p ELSE @]

\* A turn records the root's pid.
Opened(l) ==
    /\ job[l].at = "opening" /\ Wrappers(l) # {}
    /\ file' = IF job[l].probe THEN file ELSE WithRoot(l, CHOOSE p \in Wrappers(l) : TRUE)
    /\ Moves(l, "open")
    /\ UNCHANGED <<os, daemon, overlap, faults>>

\* (mutant) a session that could not be had leaves nothing to end
OpenFailsQuietly(l) ==
    /\ job[l].at = "opening"
    /\ Drops(l) /\ Moves(l, "done")
    /\ UNCHANGED <<os, daemon, overlap, faults>>

\* No session in time, or none at all: there is no handle to close.
OpenFails(l) ==
    /\ job[l].at = "opening"
    /\ Moves(l, "ending")
    /\ UNCHANGED <<os, file, daemon, overlap, faults>>

\* The turn is over: the tree is captured before the close can take it apart. Without
\* a listing a turn closes its session and leaves the lease, a probe goes on.
Capture(l) ==
    /\ job[l].at = "open"
    /\ \/ /\ job' = [job EXCEPT ![l].at = "closing", ![l].tracked = TreeOf(l)]
          /\ UNCHANGED faults
       \/ Fault /\ Moves(l, IF job[l].probe THEN "closing" ELSE "done")
    /\ UNCHANGED <<os, file, daemon, overlap>>

\* runtime.close: it ends what it ends. One that fails ends the cleanup of a turn.
Close(l) ==
    /\ job[l].at = "closing"
    /\ \/ Moves(l, "ending") /\ UNCHANGED faults
       \/ Fault /\ Moves(l, IF job[l].probe THEN "ending" ELSE "done")
    /\ UNCHANGED <<os, file, daemon, overlap>>

\* terminateAgentRunProcessLease: only what is under the wrapper now is signalled;
Terminate(l) ==
    /\ job[l].at = "ending"
    /\ \/ /\ job' = [job EXCEPT ![l].at = "killing", ![l].aim = TreeOf(l)]
          /\ UNCHANGED faults
       \/ Fault /\ Moves(l, "done")
    /\ UNCHANGED <<os, file, daemon, overlap>>

TerminateKill(l) ==
    /\ job[l].at = "killing"
    /\ Kill(job[l].aim)
    /\ job' = [job EXCEPT ![l].at = "verifying", ![l].aim = {},
                          ![l].tracked = @ \cup job[l].aim]
    /\ UNCHANGED <<file, daemon, overlap>>

\* (mutant) only the wrapper is looked for
WrapperGone(l) == Wrappers(l) = {}

\* everything captured must be gone, whatever runs under its pid.
Gone(l) == Wrappers(l) = {} /\ \A p \in job[l].tracked : ~Live(p)

\* waitForProcessTermination sees it in one of its listings, or gives up.
Verify(l) ==
    /\ job[l].at = "verifying"
    /\ IF Gone(l) THEN Drops(l) ELSE UNCHANGED file
    /\ Moves(l, "done")
    /\ UNCHANGED <<os, daemon, overlap, faults>>

-----------------------------------------------------------------------------

Starts(d) == ReapList(d) \/ ReapKill(d) \/ ReapConfirm(d) \/ Listen(d)
Works(l) ==
    \/ CreateLease(l) \/ SetupFails(l) \/ Spawn(l) \/ Opened(l) \/ OpenFails(l)
    \/ Capture(l) \/ Close(l) \/ Terminate(l) \/ TerminateKill(l) \/ Verify(l)

Next ==
    \/ \E p \in Pid : Fork(p) \/ Exit(p) \/ Reuse(p)
    \/ \E d \in Daemon : Starts(d) \/ CrashDaemon(d)
    \/ \E l \in Lease : Works(l)

\* A daemon that starts goes on, one is started when none is there, and a turn that
\* is over is cleaned up.
Fairness ==
    /\ \A d \in Daemon : WF_vars(Starts(d) /\ ((\A e \in Daemon : ~Running(e)) \/ daemon[d].at # "none"))
    /\ \A l \in Lease : WF_vars(Works(l))

Spec == Init /\ [][Next]_vars /\ Fairness

-----------------------------------------------------------------------------
(* Properties.                                                             *)

\* A cleanup signals what it may: the one of a turn the processes of that turn, the
\* one of a starting daemon the processes of daemons that are no more, never those
\* of a daemon still at work, of another home or of a reused pid
\* (terminateAgentRunProcessLease, reapStaleAgentRunProcesses).
OnlyItsOwnAreKilled ==
    /\ \A l \in Lease : \A p \in job[l].aim : Live(p) => os[p].lease = l
    /\ \A d \in Daemon : daemon[d].at = "killing" =>
          \A l \in Lease : \A p \in daemon[d].aim[l] :
             Live(p) => /\ os[p].lease = l
                        /\ job[l].by \in Daemon /\ daemon[job[l].by].at = "dead"

\* A wrapper runs only under a lease on disk, so that a crash at any moment leaves
\* it to be found by the next daemon (createLeasedAcpRuntime).
WrappersAreLeased == \A l \in Lease : Wrappers(l) # {} => file[l] # Absent

\* A lease is given up only when nothing of the tree that was captured runs
\* (waitForProcessTermination, reapStaleAgentRunProcesses).
ReleasedWhenGone ==
    [][\A l \in Lease :
          /\ file[l] # Absent /\ file'[l] = Absent
          => \A p \in (IF job[l].at = "verifying" THEN job[l].tracked
                       ELSE UNION {daemon[d].aim[l] : d \in {e \in Daemon :
                                  daemon[e].at = "confirming" /\ daemon'[e].at # "confirming"}}) :
                os[p].lease # l]_vars

\* What is ended, found and given up is what its lease says, at every moment.
LeasesAreSound == [](OnlyItsOwnAreKilled /\ WrappersAreLeased) /\ ReleasedWhenGone

\* The wrapper a crashed daemon left behind is ended by a later one, unless something
\* failed, no daemon is left to start, or the one that took over had
\* listed the processes before the crash.
OrphansAreReaped ==
    \A l \in Lease :
       (job[l].at = "lost" /\ Wrappers(l) # {}) ~>
          (\/ Wrappers(l) = {} \/ overlap \/ faults > 0
           \/ \A d \in Daemon : daemon[d].at = "dead")
=============================================================================
