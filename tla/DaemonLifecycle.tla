--------------------------- MODULE DaemonLifecycle ---------------------------
(***************************************************************************)
(* One daemon for all the clients of a home: how a process comes to own    *)
(* the loopback port and the discovery file and how it gives them up, how  *)
(* clients that find none, a stale one or an unreachable one agree on the  *)
(* next, and how a request finds the daemon it is meant for                *)
(* (daemon/runtime.ts, daemon/ensure.ts, gateway/client.ts).               *)
(*                                                                         *)
(* No LaunchAgent is installed: clients start detached daemons. A client's *)
(* waits are taken to outlast a start or a shutdown that is under way, so  *)
(* one that gives up has nothing left to wait for.                         *)
(***************************************************************************)
EXTENDS Integers, FiniteSets

CONSTANTS
    Proc,           \* bound: the daemon processes there can be
    First,          \* the one that may be there from before
    Client,         \* terminal clients, one ensureDaemon and one write each
    Foreign         \* the clients of another checkout


VARIABLES
    phase,      \* where each process stands between its start and its end
    old,        \* the processes started from an older source
    stale,      \* the processes that noticed it
    executors,  \* the processes whose executor claims and runs
    port,       \* who holds the loopback port
    discovery,  \* the process daemon.json names
    pc,         \* what each client does
    seen,       \* what its probe told it: the process, and whether it was stale
    target,     \* the process its requests are addressed to
    execs       \* (history) how often its write was executed

daemons == <<phase, old, stale, executors>>
clients == <<pc, seen, target, execs>>
vars == <<phase, old, stale, executors, port, discovery, pc, seen, target, execs>>

Nobody == "nobody"

ASSUME LifecycleAssumption ==
    /\ First \in Proc /\ Foreign \subseteq Client
    /\ Proc \cap Client = {} /\ Nobody \notin Proc \cup Client

Unseen == [proc |-> Nobody, stale |-> FALSE]

\* Accepts connections and answers them.
Serving(p) == phase[p] \in {"serving", "ready", "stopping"}
Alive(p) == phase[p] \notin {"none", "dead"}
Unused == {p \in Proc : phase[p] = "none"}
InFlight(p) == {c \in Client : pc[c] \in {"sent", "executed"} /\ target[c] = p}

Current(p) == p \notin old

\* The authenticated answer of whoever holds the port.
Answers(p) == p \in Proc /\ port = p /\ Serving(p)
ReadyDaemon(p) == Answers(p) /\ phase[p] = "ready" /\ p \notin stale

\* No daemon; the record of one that crashed; a running one, of this source or not.
Init ==
    /\ \E before \in {"none", "dead", "ready"} :
          /\ phase = [p \in Proc |-> IF p = First THEN before ELSE "none"]
          /\ port = IF before = "ready" THEN First ELSE Nobody
          /\ discovery = IF before = "none" THEN Nobody ELSE First
          /\ executors = IF before = "ready" THEN {First} ELSE {}
          /\ old \in IF before = "ready" THEN {{}, {First}} ELSE {{}}
    /\ stale = {}
    /\ pc = [c \in Client |-> "idle"]
    /\ seen = [c \in Client |-> Unseen]
    /\ target = [c \in Client |-> Nobody]
    /\ execs = [c \in Client |-> 0]

-----------------------------------------------------------------------------
(* A daemon's life: startDaemon, its timers, and close.                    *)

\* The loser of the port exits before anything of its runs was touched.
Listen(p) ==
    /\ phase[p] = "opening"
    /\ IF port = Nobody
       THEN port' = p /\ phase' = [phase EXCEPT ![p] = "serving"]
       ELSE phase' = [phase EXCEPT ![p] = "dead"] /\ UNCHANGED port
    /\ UNCHANGED <<old, stale, executors, discovery, clients>>

\* The record is written, then the scheduler and the executor start.
Publish(p) ==
    /\ phase[p] = "serving"
    /\ phase' = [phase EXCEPT ![p] = "ready"]
    /\ discovery' = p
    /\ executors' = executors \cup {p}
    /\ UNCHANGED <<old, stale, port, clients>>

\* SIGTERM: the handler is installed once, and only when the daemon is ready; any
\* other time the signal ends the process there and then.
Signalled(p) ==
    IF phase[p] = "ready"
    THEN /\ phase' = [phase EXCEPT ![p] = "stopping"]
         /\ UNCHANGED <<port, executors>>
    ELSE /\ phase' = IF Alive(p) THEN [phase EXCEPT ![p] = "dead"] ELSE phase
         /\ port' = IF port = p THEN Nobody ELSE port
         /\ executors' = executors \ {p}

\* The fingerprint timer: the sources changed, the daemon signals itself.
NoticeStale(p) ==
    /\ phase[p] = "ready" /\ ~Current(p) /\ p \notin stale
    /\ stale' = stale \cup {p}
    /\ Signalled(p)
    /\ UNCHANGED <<old, discovery, clients>>

\* close: the executor stops first,
StopExecutor(p) ==
    /\ phase[p] = "stopping" /\ p \in executors
    /\ executors' = executors \ {p}
    /\ UNCHANGED <<phase, old, stale, port, discovery, clients>>

\* (mutant) the gateway is closed before the executor has stopped
ReleaseEarly(p) ==
    /\ phase[p] = "stopping"
    /\ phase' = [phase EXCEPT ![p] = "draining"]
    /\ port' = Nobody
    /\ UNCHANGED <<old, stale, executors, discovery, clients>>

\* then the gateway stops listening, and answers what it has accepted;
ReleasePort(p) ==
    /\ phase[p] = "stopping" /\ p \notin executors
    /\ phase' = [phase EXCEPT ![p] = "draining"]
    /\ port' = Nobody
    /\ UNCHANGED <<old, stale, executors, discovery, clients>>

\* at last the record is read, and removed if it was this daemon's.
ReadRecord(p) ==
    /\ phase[p] = "draining" /\ InFlight(p) = {}
    /\ phase' = [phase EXCEPT ![p] = IF discovery = p THEN "removing" ELSE "dead"]
    /\ UNCHANGED <<old, stale, executors, port, discovery, clients>>

RemoveRecord(p) ==
    /\ phase[p] = "removing"
    /\ phase' = [phase EXCEPT ![p] = "dead"]
    /\ discovery' = Nobody
    /\ UNCHANGED <<old, stale, executors, port, clients>>

-----------------------------------------------------------------------------
(* ensureDaemon.                                                           *)

Becomes(c, where) == pc' = [pc EXCEPT ![c] = where]

\* probeGateway's first request; no record is no daemon.
ProbeHealth(c) ==
    /\ pc[c] = "idle"
    /\ target' = [target EXCEPT ![c] = discovery]
    /\ seen' = [seen EXCEPT ![c] = [proc |-> discovery, stale |-> discovery \in stale]]
    /\ Becomes(c, IF discovery = Nobody THEN "starting"
                  ELSE IF Answers(discovery) THEN "probing"
                  ELSE IF port = Nobody THEN "refused" ELSE "unreachable")
    /\ UNCHANGED <<daemons, port, discovery, execs>>

\* Its second: a daemon that went away meanwhile is looked up again, and one that
\* is not the one of the first answer is an identity failure.
ProbeReady(c) ==
    /\ pc[c] = "probing"
    /\ LET p == target[c] IN
       IF Answers(p)
       THEN /\ Becomes(c, IF /\ ReadyDaemon(p) /\ ~seen[c].stale
                             /\ c \in Foreign \/ Current(p)
                          THEN "connected" ELSE "replacing")
            /\ UNCHANGED target
       ELSE /\ target' = [target EXCEPT ![c] = IF discovery = Nobody THEN @ ELSE discovery]
            /\ Becomes(c, IF port = Nobody /\ discovery \in {Nobody, p} THEN "refused"
                          ELSE "unreachable")
    /\ UNCHANGED <<daemons, port, discovery, seen, execs>>

\* The connection was refused, or the process is gone: a daemon may be started.
\* Otherwise only a port that can be bound shows that nothing is there.
JudgeUnreachable(c) ==
    /\ pc[c] \in {"refused", "unreachable"}
    /\ IF pc[c] = "refused" \/ ~Alive(target[c])
       THEN Becomes(c, "starting") /\ UNCHANGED port
       ELSE IF port = Nobody
            THEN Becomes(c, "bound") /\ port' = c
            ELSE Becomes(c, "gaveUp") /\ UNCHANGED port
    /\ UNCHANGED <<daemons, discovery, seen, target, execs>>

\* loopbackPortIsFree holds the port until it has closed its listener.
Unbind(c) ==
    /\ pc[c] = "bound"
    /\ port' = Nobody /\ Becomes(c, "starting")
    /\ UNCHANGED <<daemons, discovery, seen, target, execs>>

\* The authenticated daemon is asked to end.
RequestStop(c) ==
    /\ pc[c] = "replacing"
    /\ Signalled(target[c])
    /\ Becomes(c, "waiting")
    /\ UNCHANGED <<old, stale, discovery, seen, target, execs>>

\* (mutant) only a free port ends the wait
WaitForThePort(c) ==
    /\ pc[c] = "waiting"
    /\ ~Answers(discovery) /\ port = Nobody
    /\ Becomes(c, "bound") /\ port' = c
    /\ UNCHANGED <<daemons, discovery, seen, target, execs>>

\* Another client's daemon of this client's own source will do; a port that is
\* free is bound to see it.
AwaitRelease(c) ==
    /\ pc[c] = "waiting"
    /\ \/ /\ ReadyDaemon(discovery) /\ discovery # seen[c].proc
          /\ c \notin Foreign /\ Current(discovery)
          /\ target' = [target EXCEPT ![c] = discovery]
          /\ Becomes(c, "connected") /\ UNCHANGED port
       \/ /\ ~Answers(discovery) /\ port = Nobody
          /\ Becomes(c, "bound") /\ port' = c
          /\ UNCHANGED target
    /\ UNCHANGED <<daemons, discovery, seen, execs>>

\* The port is not released: a daemon this client would not have started holds it.
AbandonRelease(c) ==
    /\ pc[c] = "waiting"
    /\ ReadyDaemon(port) /\ port # seen[c].proc /\ c \in Foreign
    /\ Becomes(c, "gaveUp")
    /\ UNCHANGED <<daemons, port, discovery, seen, target, execs>>

StartDaemonProcess(c) ==
    /\ pc[c] = "starting" /\ Unused # {}
    /\ LET p == CHOOSE q \in Unused : TRUE
       IN phase' = [phase EXCEPT ![p] = "opening"]
    /\ Becomes(c, "connecting")
    /\ UNCHANGED <<old, stale, executors, port, discovery, seen, target, execs>>

\* Whichever daemon is ready by then.
Connect(c) ==
    /\ pc[c] = "connecting" /\ ReadyDaemon(discovery)
    /\ target' = [target EXCEPT ![c] = discovery]
    /\ Becomes(c, "connected")
    /\ UNCHANGED <<daemons, port, discovery, seen, execs>>

-----------------------------------------------------------------------------
(* A write over the connection.                                            *)

\* (mutant) a write is replayed as a read is
ReplaysAll(method) == TRUE

MayReplayAfterTransportFailure(method) == method \in {"GET", "HEAD"}

\* A daemon that does not know the credential says so before it does anything:
\* the record is read again, and the request sent once more if it changed.
SendWrite(c) ==
    /\ pc[c] = "connected"
    /\ LET p    == target[c]
           next == discovery
           again == port \in Proc /\ ~Answers(p) /\ next # p /\ Answers(next)
       IN /\ target' = [target EXCEPT ![c] = IF again THEN next ELSE p]
          /\ Becomes(c, IF Answers(p) \/ again THEN "sent" ELSE "failed")
    /\ UNCHANGED <<daemons, port, discovery, seen, execs>>

ExecuteWrite(c) ==
    /\ pc[c] = "sent" /\ Alive(target[c])
    /\ execs' = [execs EXCEPT ![c] = @ + 1]
    /\ Becomes(c, "executed")
    /\ UNCHANGED <<daemons, port, discovery, seen, target>>

Answer(c) ==
    /\ pc[c] = "executed" /\ Alive(target[c])
    /\ Becomes(c, "answered")
    /\ UNCHANGED <<daemons, port, discovery, seen, target, execs>>

\* The daemon died with the request: what it did of it is not known.
LoseWrite(c) ==
    /\ pc[c] \in {"sent", "executed"} /\ ~Alive(target[c])
    /\ IF MayReplayAfterTransportFailure("POST") /\ discovery # target[c] /\ Answers(discovery)
       THEN Becomes(c, "sent") /\ target' = [target EXCEPT ![c] = discovery]
       ELSE Becomes(c, "failed") /\ UNCHANGED target
    /\ UNCHANGED <<daemons, port, discovery, seen, execs>>

-----------------------------------------------------------------------------

Starts(p) == Listen(p) \/ Publish(p)
Ends(p) ==
    NoticeStale(p) \/ StopExecutor(p) \/ ReleasePort(p) \/ ReadRecord(p) \/ RemoveRecord(p)
Ensures(c) ==
    \/ ProbeHealth(c) \/ ProbeReady(c) \/ JudgeUnreachable(c) \/ Unbind(c)
    \/ RequestStop(c) \/ AwaitRelease(c) \/ AbandonRelease(c)
    \/ StartDaemonProcess(c) \/ Connect(c)
Writes(c) == SendWrite(c) \/ ExecuteWrite(c) \/ Answer(c) \/ LoseWrite(c)

Next ==
    \/ \E p \in Proc : Starts(p) \/ Ends(p)
    \/ \E c \in Client : Ensures(c) \/ Writes(c)

\* Processes and clients that can take a step do.
Fairness ==
    /\ \A p \in Proc : WF_vars(Starts(p)) /\ WF_vars(Ends(p))
    /\ \A c \in Client : WF_vars(Ensures(c)) /\ WF_vars(Writes(c))

Spec == Init /\ [][Next]_vars /\ Fairness

-----------------------------------------------------------------------------
(* Properties.                                                             *)

\* Processes, the port, the record and the clients keep their types.
TypeOK ==
    /\ phase \in [Proc -> {"none", "opening", "serving", "ready", "stopping",
                           "draining", "removing", "dead"}]
    /\ {old, stale, executors} \subseteq SUBSET Proc
    /\ port \in Proc \cup Client \cup {Nobody}
    /\ discovery \in Proc \cup {Nobody}
    /\ pc \in [Client -> {"idle", "probing", "refused", "unreachable", "bound", "starting",
                         "connecting", "connected", "replacing", "waiting", "gaveUp",
                         "sent", "executed", "answered", "failed"}]
    /\ seen \in [Client -> [proc : Proc \cup {Nobody}, stale : BOOLEAN]]
    /\ target \in [Client -> Proc \cup {Nobody}]
    /\ execs \in [Client -> Nat]

\* However many daemons are started, replaced and killed, no two of them claim
\* and run delegated turns at the same time (startDaemon, close).
OneExecutor == TypeOK /\ \A p, q \in executors : p = q

\* A write reaches the domain once at most, whichever daemons answer it, refuse
\* it or die with it (gatewayJson).
WritesRunOnce == \A c \in Client : execs[c] <= 1

\* A daemon's record stays while it is ready: the shutdown of its predecessor
\* leaves it intact (close).
RecordIsTheDaemons == \A p \in Proc : phase[p] = "ready" => discovery = p

\* A client of the daemon's own checkout is connected in the end, whatever it
\* found and whoever else replaces the daemon, unless it told the daemons of its
\* two probes apart or the record of the ready one was removed (ensureDaemon).
ClientsConnect ==
    \A c \in Client \ Foreign :
       (pc[c] = "idle") ~>
          (pc[c] \in {"connected", "sent", "executed", "answered", "failed", "gaveUp"}
             \/ ~RecordIsTheDaemons)
=============================================================================
