------------------------------ MODULE MCDaemon ------------------------------
(***************************************************************************)
(* Three small instances about the daemon, checked in one run: the daemons *)
(* that follow one another and their clients, one snapshot of the          *)
(* harnesses that a daemon takes, or the connections of one client to the  *)
(* daemons that come and go.  The part is chosen initially, and the others *)
(* rest in an initial state.                                               *)
(***************************************************************************)
EXTENDS DaemonLifecycle, HarnessSnapshot, GatewayClient

CONSTANTS first, second, third, fourth, terminal, script, worktree, here, anew, read, write

VARIABLE part

-----------------------------------------------------------------------------
Limit(id, usable) == [id |-> id, usable |-> usable]
RateLimits == { [is |-> "nothing", byId |-> {}, single |-> {}],
                [is |-> "limits", byId |-> {}, single |-> {Limit("codex", {"primary"})}],
                [is |-> "limits", single |-> {},
                 byId |-> {Limit("weekly", {}), Limit("daily", {"primary", "secondary"})}] }
Sessions == {{"models"}, {"models", "current", "options"}}

Asking(harnesses, inspect, twice, candidates) ==
  [harnesses |-> harnesses, inspect |-> inspect, twice |-> twice, candidates |-> candidates]
Requests == { Asking({"cursor"}, {"claude"}, FALSE, TRUE), Asking({}, {"codex"}, FALSE, FALSE),
              Asking({"codex", "claude"}, {}, FALSE, TRUE), Asking({}, {"codex"}, TRUE, FALSE) }

\* Two of the sources at a time are under way: they have nothing in common.
TwoUnderWay ==
  2 >= Cardinality({h \in Harness : capability[h].at \in {"opening", "confirming", "discarding"}})
       + Cardinality({h \in Harness : account[h].at \in {"asking", "ending"}})

\* One request at a time waits for an answer, beside the stream.
OneAwaited == 1 >= Cardinality({r \in GatewayRequest : UnderWay(r)})

-----------------------------------------------------------------------------
DaemonInit ==
  /\ part \in {"lifecycle", "snapshot", "connections"}
  /\ Init /\ SnapshotInit /\ ConnInit
  /\ part # "lifecycle" => phase[First] = "none"

DaemonNext ==
  \/ part = "lifecycle" /\ Next /\ UNCHANGED <<part, snapshotVars, connVars>>
  \/ part = "snapshot" /\ SnapshotNext /\ TwoUnderWay' /\ UNCHANGED <<part, vars, connVars>>
  \/ part = "connections" /\ ConnNext /\ OneAwaited' /\ UNCHANGED <<part, vars, snapshotVars>>

\* The fairness of the three specifications, each in its part.
DaemonFairness ==
  /\ \A p \in Proc : WF_vars(part = "lifecycle" /\ Starts(p)) /\ WF_vars(part = "lifecycle" /\ Ends(p))
  /\ \A c \in Client : WF_vars(part = "lifecycle" /\ Ensures(c)) /\ WF_vars(part = "lifecycle" /\ Writes(c))
  /\ SnapshotFairness
  /\ \A s \in Subscription : WF_connVars(part = "connections" /\ Listens(s))

DaemonSpec ==
  DaemonInit /\ [][DaemonNext]_<<part, vars, snapshotVars, connVars>> /\ DaemonFairness

\* A client connects in the end, what it asks about the harnesses is answered, and
\* its subscriptions follow the daemons (ensureDaemon, readHarnessDetails, subscribe).
ClientsAreServed ==
  /\ part = "lifecycle" => ClientsConnect
  /\ SnapshotsReturn
  /\ part = "connections" => StreamsFollow
=============================================================================
