---------------------------- MODULE GatewayClient ----------------------------
(***************************************************************************)
(* The connections of one long-lived client process (gateway/client.ts):   *)
(* the memo that hands the same one to every caller, the daemon each of    *)
(* them is addressed to, and the requests and subscriptions that run over  *)
(* it at the same time while daemons replace one another.                  *)
(*                                                                         *)
(* Daemons are numbered as they come.  DaemonLifecycle has how one comes   *)
(* to be the next, and what a write does; here a request only ends.        *)
(***************************************************************************)
EXTENDS Integers, FiniteSets

CONSTANTS
    MaxDaemons,     \* bound: daemons that follow one another
    Connection,     \* bound: the connections the process opens
    GatewayRequest,        \* its requests, each sent again and again
    Post,           \* the requests that may not be replayed
    Subscription,   \* its event subscriptions
    NoConnection

ASSUME ConnectionsAssumption ==
    /\ MaxDaemons \in Nat
    /\ Post \subseteq GatewayRequest
    /\ NoConnection \notin Connection

VARIABLES
    newest,     \* the number of the newest daemon
    serving,    \* the daemon that serves, 0 when none does
    written,    \* the last daemon that wrote the discovery file
    recorded,   \* the daemon the file names, 0 when there is none
    conn,       \* each connection's stage
    targetInfo, \* the daemon it is addressed to
    memo,       \* the connection that callers share
    refused,    \* (history) connections that met a daemon they could not use
    call,       \* each request: its stage, its connection, the daemon asked
    feed        \* each subscription: likewise, with the target it began with

world == <<newest, serving, written, recorded>>
connVars == <<newest, serving, written, recorded, conn, targetInfo, memo, refused, call, feed>>

Quiet == [at |-> "idle", on |-> NoConnection, asked |-> 0]
Silent == [at |-> "none", on |-> NoConnection, before |-> 0, event |-> 0]

ConnInit ==
    /\ newest = 0 /\ serving = 0 /\ written = 0 /\ recorded = 0
    /\ conn = [c \in Connection |-> "new"]
    /\ targetInfo = [c \in Connection |-> 0]
    /\ memo = NoConnection /\ refused = {}
    /\ call = [r \in GatewayRequest |-> Quiet]
    /\ feed = [s \in Subscription |-> Silent]

-----------------------------------------------------------------------------
(* The daemons.                                                            *)

Begin ==
    /\ serving = 0 /\ newest < MaxDaemons
    /\ newest' = newest + 1 /\ serving' = newest + 1
    /\ UNCHANGED <<written, recorded, conn, targetInfo, memo, refused, call, feed>>

WriteRecord ==
    /\ serving # 0 /\ written # serving
    /\ written' = serving /\ recorded' = serving
    /\ UNCHANGED <<newest, serving, conn, targetInfo, memo, refused, call, feed>>

\* It is closed, or it crashes;
End ==
    /\ serving # 0
    /\ serving' = 0
    /\ UNCHANGED <<newest, written, recorded, conn, targetInfo, memo, refused, call, feed>>

\* one that is closed removes its record, or, late, the next one's.
EraseRecord ==
    /\ recorded # 0
    /\ recorded' = 0
    /\ UNCHANGED <<newest, serving, written, conn, targetInfo, memo, refused, call, feed>>

-----------------------------------------------------------------------------
(* Connections: resolveBackend, connectGateway.                            *)

\* readDaemonInfo, where only a daemon other than d is of use.
Discovers(d) == recorded \notin {0, d}

\* Callers that come while there is one get the one there is.  The record is read
\* at once; where there is none, the connection can only be rejected.
Resolve(c) ==
    /\ memo = NoConnection /\ conn[c] = "new"
    /\ memo' = c
    /\ conn' = [conn EXCEPT ![c] = "connecting"]
    /\ targetInfo' = [targetInfo EXCEPT ![c] = recorded]
    /\ UNCHANGED <<world, refused, call, feed>>

\* (mutant) the failure of one connection takes another from the callers
ForgetAny(c) == memo' = NoConnection

\* What fails is not handed out again; what replaced it meanwhile is.
Forget(c) == memo' = IF memo = c THEN NoConnection ELSE memo

\* The request for its health is answered, or it is made again of another daemon
\* (gatewayJson, twice at most).
Probe(c) ==
    /\ conn[c] = "connecting" /\ targetInfo[c] # 0
    /\ \/ /\ serving = targetInfo[c]
          /\ conn' = [conn EXCEPT ![c] = "probed"]
          /\ UNCHANGED targetInfo
       \/ /\ Discovers(targetInfo[c])
          /\ targetInfo' = [targetInfo EXCEPT ![c] = recorded]
          /\ UNCHANGED conn
    /\ UNCHANGED <<world, memo, refused, call, feed>>

\* The same daemon says that it is ready.
Opens(c) ==
    /\ conn[c] = "probed" /\ serving = targetInfo[c]
    /\ conn' = [conn EXCEPT ![c] = "open"]
    /\ UNCHANGED <<world, targetInfo, memo, refused, call, feed>>

Rejects(c) ==
    /\ conn[c] \in {"connecting", "probed"}
    /\ conn' = [conn EXCEPT ![c] = "rejected"]
    /\ Forget(c)
    /\ UNCHANGED <<world, targetInfo, refused, call, feed>>

\* (mutant) whatever is found last is taken
AdoptAlways(c, requested, discovered) ==
    targetInfo' = [targetInfo EXCEPT ![c] = discovered]

\* A connection follows its request, unless it has moved on since that was sent.
adoptDiscoveredTarget(c, requested, discovered) ==
    targetInfo' = [targetInfo EXCEPT
        ![c] = IF @ \in {requested, discovered} THEN discovered ELSE @]

Unavailable(c) == refused' = refused \cup {c} /\ Forget(c)

-----------------------------------------------------------------------------
(* Requests: gatewayJson.                                                  *)

UnderWay(r) == call[r].at \in {"sent", "replayed", "last"}
Over(r) == call' = [call EXCEPT ![r] = Quiet]

AskGateway(r, c) ==
    /\ call[r].at = "idle" /\ conn[c] = "open"
    /\ call' = [call EXCEPT ![r] = [at |-> "sent", on |-> c, asked |-> targetInfo[c]]]
    /\ UNCHANGED <<world, conn, targetInfo, memo, refused, feed>>

CallAnswered(r) ==
    /\ UnderWay(r) /\ serving = call[r].asked
    /\ Over(r)
    /\ UNCHANGED <<world, conn, targetInfo, memo, refused, feed>>

\* The daemon of the record is asked instead.
AskNext(r, stage) ==
    /\ adoptDiscoveredTarget(call[r].on, call[r].asked, recorded)
    /\ call' = [call EXCEPT ![r] = [at |-> stage, on |-> @.on, asked |-> recorded]]

\* No answer, or none in time: only what may be replayed is sent again, once.
TransportFails(r) ==
    /\ UnderWay(r)
    /\ Unavailable(call[r].on)
    /\ IF call[r].at = "sent" /\ r \notin Post /\ Discovers(call[r].asked)
       THEN AskNext(r, "replayed")
       ELSE Over(r) /\ UNCHANGED targetInfo
    /\ UNCHANGED <<world, conn, feed>>

\* Another daemon answers, which does not know the credential and did nothing.
Unauthorized(r) ==
    /\ UnderWay(r) /\ serving \notin {0, call[r].asked}
    /\ Unavailable(call[r].on)
    /\ IF call[r].at # "last" /\ Discovers(call[r].asked)
       THEN AskNext(r, "last")
       ELSE Over(r) /\ UNCHANGED targetInfo
    /\ UNCHANGED <<world, conn, feed>>

-----------------------------------------------------------------------------
(* Subscriptions: subscribe, its loop, and close.                          *)

StreamMoves(s, stage) == feed' = [feed EXCEPT ![s].at = stage]

Subscribe(s, c) ==
    /\ feed[s].at = "none" /\ conn[c] = "open"
    /\ feed' = [feed EXCEPT ![s].at = "due", ![s].on = c]
    /\ UNCHANGED <<world, conn, targetInfo, memo, refused, call>>

\* (mutant) the stream is asked of the daemon the connection knows
LookNowhere(s) ==
    /\ feed[s].at = "due"
    /\ LET known == targetInfo[feed[s].on]
       IN feed' = [feed EXCEPT
             ![s] = [at |-> "fetching", on |-> @.on, before |-> known, event |-> known]]
    /\ UNCHANGED <<world, conn, targetInfo, memo, refused, call>>

\* The record is read each time, and the stream asked of the daemon it names.
Look(s) ==
    /\ feed[s].at = "due"
    /\ IF recorded = 0 THEN StreamMoves(s, "sleeping")
       ELSE feed' = [feed EXCEPT
               ![s] = [at |-> "fetching", on |-> @.on,
                       before |-> targetInfo[@.on], event |-> recorded]]
    /\ UNCHANGED <<world, conn, targetInfo, memo, refused, call>>

Accepted(s) ==
    /\ feed[s].at = "fetching" /\ serving = feed[s].event
    /\ StreamMoves(s, "accepted")
    /\ UNCHANGED <<world, conn, targetInfo, memo, refused, call>>

\* The client hears of it later, when that daemon may be gone.
Attach(s) ==
    /\ feed[s].at = "accepted"
    /\ StreamMoves(s, "attached")
    /\ adoptDiscoveredTarget(feed[s].on, feed[s].before, feed[s].event)
    /\ UNCHANGED <<world, conn, memo, refused, call>>

StreamRefused(s) ==
    /\ feed[s].at = "fetching" /\ serving # feed[s].event
    /\ StreamMoves(s, "sleeping")
    /\ \/ serving # 0 /\ Unavailable(feed[s].on)
       \/ UNCHANGED <<memo, refused>>
    /\ UNCHANGED <<world, conn, targetInfo, call>>

\* With the daemon that had accepted it.
StreamEnds(s) ==
    /\ feed[s].at \in {"accepted", "attached"} /\ serving # feed[s].event
    /\ StreamMoves(s, "sleeping")
    /\ UNCHANGED <<world, conn, targetInfo, memo, refused, call>>

Wake(s) ==
    /\ feed[s].at = "sleeping"
    /\ StreamMoves(s, "due")
    /\ UNCHANGED <<world, conn, targetInfo, memo, refused, call>>

Unsubscribe(s) ==
    /\ feed[s].at \notin {"none", "stopped"}
    /\ StreamMoves(s, "stopped")
    /\ UNCHANGED <<world, conn, targetInfo, memo, refused, call>>

\* Closing a connection stops its subscriptions; requests are sent as before.
CloseConnection(c) ==
    /\ conn[c] = "open"
    /\ feed' = [s \in Subscription |->
                  IF feed[s].on = c THEN [feed[s] EXCEPT !.at = "stopped"] ELSE feed[s]]
    /\ UNCHANGED <<world, conn, targetInfo, memo, refused, call>>

-----------------------------------------------------------------------------

Daemons == Begin \/ WriteRecord \/ End \/ EraseRecord
Connects(c) == Resolve(c) \/ Probe(c) \/ Opens(c) \/ Rejects(c)
Concludes(r) == CallAnswered(r) \/ TransportFails(r) \/ Unauthorized(r)
Listens(s) ==
    Look(s) \/ Accepted(s) \/ Attach(s) \/ StreamRefused(s) \/ StreamEnds(s) \/ Wake(s)

ConnNext ==
    \/ Daemons
    \/ \E c \in Connection : Connects(c) \/ CloseConnection(c)
    \/ \E r \in GatewayRequest : Concludes(r) \/ \E c \in Connection : AskGateway(r, c)
    \/ \E s \in Subscription :
          Listens(s) \/ Unsubscribe(s) \/ \E c \in Connection : Subscribe(s, c)

\* The loop of a subscription goes on until it is stopped.
ConnFairness == \A s \in Subscription : WF_connVars(Listens(s))

ConnSpec == ConnInit /\ [][ConnNext]_connVars /\ ConnFairness

-----------------------------------------------------------------------------
(* Properties.                                                             *)

\* Daemons, connections, requests and subscriptions keep their types.
ConnTypeOK ==
    /\ newest \in 0..MaxDaemons /\ serving \in {0, newest}
    /\ written \in 0..newest /\ recorded \in {0, written}
    /\ conn \in [Connection -> {"new", "connecting", "probed", "open", "rejected"}]
    /\ targetInfo \in [Connection -> 0..written]
    /\ memo \in Connection \cup {NoConnection} /\ refused \subseteq Connection
    /\ call \in [GatewayRequest -> [at : {"idle", "sent", "replayed", "last"},
                             on : Connection \cup {NoConnection}, asked : 0..written]]
    /\ feed \in [Subscription ->
                   [at : {"none", "due", "fetching", "accepted", "attached", "sleeping", "stopped"},
                    on : Connection \cup {NoConnection}, before : 0..written, event : 0..written]]

\* No caller is handed a connection that was rejected, or that met a daemon it
\* could not use: the next one is looked up anew (resolveBackend).
MemoIsFresh == memo # NoConnection => conn[memo] \in {"connecting", "probed", "open"} /\ memo \notin refused

\* The connection callers share is given up only for a failure of its own, however
\* late those of its predecessors come (resolveBackend).
GivenUpForItself ==
    [][memo # NoConnection /\ memo' # memo =>
          memo' = NoConnection /\ (memo \in refused' \/ conn'[memo] = "rejected")]_connVars

\* A connection never goes back to an earlier daemon, whatever was asked of which
\* before and is answered only now ("a late old SSE connection cannot regress the
\* adopted Gateway target", client-replacement.integration.test.ts:92).
TargetsMoveOn == [][\A c \in Connection : targetInfo[c] <= targetInfo'[c]]_connVars

\* Connections stay usable while daemons replace one another.
ConnectionsAreSound == [](ConnTypeOK /\ MemoIsFresh) /\ GivenUpForItself /\ TargetsMoveOn

\* When daemons stop being replaced, a subscription that was not stopped is attached
\* to the last one, and so is the connection it was made over (subscribe).
StreamsFollow ==
    \A s \in Subscription :
       <>[](serving # 0 /\ recorded = serving) =>
       <>[](/\ feed[s].at \in {"none", "attached", "stopped"}
            /\ feed[s].at = "attached" => /\ feed[s].event = serving
                                          /\ targetInfo[feed[s].on] = serving)
=============================================================================
