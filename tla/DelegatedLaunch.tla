--------------------------- MODULE DelegatedLaunch ---------------------------
(***************************************************************************)
(* What a delegated run of one harness really runs as: the model and the   *)
(* reasoning effort its caller pinned, the owner approved or the harness   *)
(* chose (launch-config.ts, delegated-baselines.ts), applied to and        *)
(* confirmed on a live ACP session (acp-session-selection.ts) that belongs *)
(* to the conversation asked for (acp-launcher.ts), and the disposable     *)
(* sessions that observe the same harness for the owner                    *)
(* (harness-details*.ts).                                                  *)
(*                                                                         *)
(* The harness is external. Its own configuration, and what a session      *)
(* uses, change at any time; a setting is applied, ignored or refused; a   *)
(* saved conversation is loaded, or a new one started in its stead; any    *)
(* request may fail or never be answered.                                  *)
(***************************************************************************)
EXTENDS Naturals, FiniteSets

CONSTANTS
    Model, Effort,
    Listing,        \* what a session may advertise
    Approval,       \* the identities the owner may approve
    Launch,         \* delegated runs
    Probe,          \* observations
    MaxTrouble      \* bound: changes of the harness, failures of it and of the disk

Null == "null"              \* no model asked for, no effort asked for
Omitted == "omitted"

\* configOptions: select options, none in the status, or something of another shape. An
\* option's current value need not be an effort of ours.
IsOption(o) == DOMAIN o = {"id", "category", "values", "current"}
Listed(listing) == listing.is = "listed"
Unlisted == [is |-> "unlisted", options |-> {}]
Garbled  == [is |-> "garbled", options |-> {}]

ASSUME LaunchAssumption ==
    /\ MaxTrouble \in Nat
    /\ Null \notin Model \cup Effort \cup Launch /\ Omitted \notin Model \cup Effort
    /\ Launch \cap Probe = {}
    /\ Approval \subseteq [model : Model, effort : Effort \cup {Null}]
    /\ \A listing \in Listing :
          /\ DOMAIN listing = {"is", "options"}
          /\ Listed(listing) =>
                IsFiniteSet(listing.options) /\ \A o \in listing.options : IsOption(o)

VARIABLES
    harness,    \* what a session gets that nobody configures
    baseline,   \* the harness's file under delegated-baselines/
    job,        \* the runs and the observations
    session,    \* what each one's ACP session uses and advertises
    saved,      \* acpx's session record of each conversation
    seen,       \* (history) the session as last reported, since a setting was asked for
    calm,       \* (history) the jobs since whose start nothing outside went wrong
    trouble     \* bounded

vars == <<harness, baseline, job, session, saved, seen, calm, trouble>>

Job == Launch \cup Probe
NoSession == [model |-> Null, listing |-> Unlisted]
Unseen == NoSession
Identity == [model : Model, effort : Effort \cup {Null}]
Nothing == [model |-> Null, effort |-> Null]

Waiting == [at |-> "idle", pins |-> [model |-> Omitted, effort |-> Omitted], asked |-> Nothing,
            resumes |-> Null, record |-> FALSE, talks |-> Null, model |-> Null,
            selector |-> Null, found |-> NoSession, candidate |-> Nothing,
            observed |-> Nothing, applied |-> FALSE]

Init ==
    /\ harness \in [model : Model, listing : Listing]
    /\ baseline = Nothing
    /\ job = [j \in Job |-> Waiting]
    /\ session = [j \in Job |-> NoSession]
    /\ saved = [l \in Launch |-> "none"]
    /\ seen = [j \in Job |-> Unseen]
    /\ calm = {}
    /\ trouble = 0

At(j, phases) == job[j].at \in phases
Live == {"initial", "choosing", "reading", "setting", "confirming", "turn"}
Goes(j, to) == job' = [job EXCEPT ![j].at = to]

\* A run's row is failed; an observation has its session cleaned up, and says why.
Fails(j) == Goes(j, IF j \in Probe THEN "discarding" ELSE "failed")

\* Something outside has gone wrong: what was observed so far promises nothing.
Trouble == trouble < MaxTrouble /\ trouble' = trouble + 1 /\ calm' = {}
Smooth  == UNCHANGED <<trouble, calm>>

-----------------------------------------------------------------------------
(* The baseline the owner approved.                                        *)

\* approveDelegatedBaseline: a rename of a file of its own, which takes place or not.
Approve ==
    /\ \E identity \in Approval : baseline' = identity
    /\ UNCHANGED <<harness, job, session, saved, seen>> /\ Smooth

-----------------------------------------------------------------------------
(* AgentRunExecutor.launch, retry and resume.                              *)

\* resolveAgentRunLaunch: a pin wins, an omission takes what was approved.
Asks(pins) ==
    LET model == IF pins.model = Omitted THEN baseline.model ELSE pins.model
    IN  [model  |-> model,
         effort |-> IF pins.effort # Omitted THEN pins.effort
                    ELSE IF model = Null THEN Null ELSE baseline.effort]

\* A launch. Without a model it is refused, or left to the harness when its caller says so.
Resolve(l) ==
    /\ At(l, {"idle"})
    /\ \E pins \in [model : Model \cup {Omitted}, effort : Effort \cup {Null, Omitted}],
          unpinned \in {"ask", "harness choice"} :
          /\ Asks(pins).model # Null \/ unpinned = "harness choice"
          /\ job' = [job EXCEPT ![l].at = "queued", ![l].pins = pins, ![l].asked = Asks(pins)]
    /\ calm' = calm \cup {l}
    /\ UNCHANGED <<harness, baseline, session, saved, seen, trouble>>

\* (mutant) a continuation is resolved like a launch
AskedAgain(prior) == Asks(job[prior].pins)

\* What the row of a continuation asks for: the model and the effort of the row before it.
Carried(prior) == job[prior].asked

\* retry, resume: another turn of the conversation an earlier run had, or a new one when
\* it never had any. A retry may know the conversation without a record of it.
Continue(l, prior) ==
    /\ At(l, {"idle"}) /\ At(prior, {"turn", "failed"})
    /\ \E record \in BOOLEAN :
          job' = [job EXCEPT ![l].at = "queued", ![l].pins = job[prior].pins,
                             ![l].asked = Carried(prior), ![l].talks = job[prior].talks,
                             ![l].resumes = job[prior].talks, ![l].record = record]
    /\ UNCHANGED <<harness, baseline, session, saved, seen>> /\ Smooth

\* acpx (external): a session starts from the harness's own configuration, and with the
\* model asked for when there is one and the harness has it; a conversation that is loaded
\* without one brings a model along.
Opened(j, model) ==
    \E brought \in IF job[j].resumes = Null THEN {harness.model} ELSE Model :
       session' = [session EXCEPT ![j] =
           [harness EXCEPT !.model = IF model = Null THEN brought ELSE model]]

\* (mutant) the model is left to the confirmation to ask for
UnpinnedSession(l) == Null

\* The model a run's session is opened with (ensureAcpSession).
SessionModel(l) == job[l].asked.model

\* (mutant) what comes back is taken for what was asked
AnyHandle(l, talks) == TRUE

\* validateLoadedHandle: the session is the one of the record, or of the child.
LoadedHandle(l, talks) == job[l].resumes \in {Null, talks}

\* validateTurnRecord: the record that a retry or a resume names is there, whole, the
\* session's and not marked to start anew. Without a record there is nothing to compare.
ValidTurnRecord(l) ==
    LET goal == job[l].resumes IN goal # Null /\ job[l].record => saved[goal] = "whole"

\* The leased runtime's ensureSession, and what surrounds it.
Ensure(l) ==
    /\ At(l, {"queued"})
    /\ LET goal == job[l].resumes IN
       IF ~ValidTurnRecord(l)
       THEN Fails(l) /\ UNCHANGED <<session, saved>> /\ Smooth
       ELSE \E talks \in {l, goal} \ {Null} :
              /\ IF talks = goal \/ goal = Null THEN Smooth ELSE Trouble
              /\ Opened(l, SessionModel(l))
              /\ saved' = [saved EXCEPT ![talks] = "whole"]
              /\ job' = [job EXCEPT
                    ![l].at = IF ~LoadedHandle(l, talks) THEN "failed"
                              ELSE IF job[l].asked.model = Null THEN "choosing" ELSE "initial",
                    ![l].talks = IF LoadedHandle(l, talks) THEN talks ELSE @,
                    ![l].model = job[l].asked.model]
    /\ seen' = [seen EXCEPT ![l] = Unseen]
    /\ UNCHANGED <<harness, baseline>>

-----------------------------------------------------------------------------
(* The selection, on the session of a run or of an observation.            *)

\* resolveThoughtLevelSelector: by category, else by one of two ids; none or several
\* at the first that matches decide nothing.
Selectors(options) ==
    LET levels == << {o \in options : o.category = "thought_level"},
                     {o \in options : o.id = "thought_level"},
                     {o \in options : o.id = "reasoning_effort"} >>
        used   == {i \in 1..3 : levels[i] # {}}
    IN  IF used = {} THEN {} ELSE levels[CHOOSE i \in used : \A k \in used : i <= k]

\* harnessSelectedEffort, and the effort of a baseline candidate: that of one selector
CurrentEfforts(options) ==
    IF Cardinality(Selectors(options)) = 1 THEN {o.current : o \in Selectors(options)} \cap Effort
    ELSE {}

\* requireExactModel, requireConfigOptions
Reports(j, model) == session[j].model = model /\ Listed(session[j].listing)

\* requireThoughtLevelSelector, and that it offers the effort asked for
Offering(j) ==
    {o \in Selectors(session[j].listing.options) :
        Cardinality(Selectors(session[j].listing.options)) = 1 /\ job[j].asked.effort \in o.values}

Reads(j) == seen' = [seen EXCEPT ![j] = session[j]]

\* A turn without a model is confirmed on the one the session reports now, which its row
\* does not keep: a continuation of it chooses again (harnessSelectedModel).
Choose(l) ==
    /\ At(l, {"choosing"})
    /\ job' = [job EXCEPT ![l].at = "initial", ![l].model = session[l].model]
    /\ Reads(l) /\ Smooth
    /\ UNCHANGED <<harness, baseline, session, saved>>

\* What is recorded of a run whose session was confirmed, and its prompt; or the
\* confirmation of an observation. Of a row without a model the effort observed is recorded.
Confirms(j) ==
    LET chosen  == IF j \in Launch /\ job[j].asked.model = Null THEN
                       CurrentEfforts(session[j].listing.options) ELSE {}
        applied == job[j].asked.effort # Null
    IN  job' = [job EXCEPT
            ![j].at = IF j \in Probe THEN "discarding" ELSE "turn",
            ![j].observed = [model |-> job[j].model,
                             effort |-> IF applied THEN job[j].asked.effort
                                        ELSE CHOOSE e \in chosen \cup {Null} :
                                                 e = Null => chosen = {}],
            ![j].applied = applied]

\* The first status: the model is the one asked for, and a selector offers the effort.
Initial(j) ==
    /\ At(j, {"initial"})
    /\ IF ~Reports(j, job[j].model) THEN Fails(j)
       ELSE IF job[j].asked.effort = Null THEN Confirms(j)
       ELSE IF Offering(j) = {} THEN Fails(j)
       ELSE \E o \in Offering(j) :
              job' = [job EXCEPT ![j].at = "setting", ![j].selector = o.id]
    /\ Reads(j) /\ Smooth
    /\ UNCHANGED <<harness, baseline, session, saved>>

\* setConfigOption: the acknowledgement says nothing of what the session did.
Set(j) ==
    /\ At(j, {"setting"})
    /\ \/ /\ session' = [session EXCEPT ![j].listing.options =
                 {IF o.id = job[j].selector THEN [o EXCEPT !.current = job[j].asked.effort]
                  ELSE o : o \in @}]
          /\ Smooth
       \/ UNCHANGED session /\ Trouble
    /\ Goes(j, "confirming")
    /\ seen' = [seen EXCEPT ![j] = Unseen]
    /\ UNCHANGED <<harness, baseline, saved>>

\* (mutant) the acknowledgement is believed
Believes(j) ==
    /\ At(j, {"confirming"})
    /\ Confirms(j) /\ Smooth
    /\ UNCHANGED <<harness, baseline, session, saved, seen>>

\* One more status decides: the same model, the same selector, now at the effort.
Confirm(j) ==
    /\ At(j, {"confirming"})
    /\ IF /\ Reports(j, job[j].model)
          /\ \E o \in Offering(j) : o.id = job[j].selector /\ o.current = job[j].asked.effort
       THEN Confirms(j) ELSE Fails(j)
    /\ Reads(j) /\ Smooth
    /\ UNCHANGED <<harness, baseline, session, saved>>

\* A request to the session fails.
Refused(j) ==
    /\ At(j, Live \ {"turn"})
    /\ Fails(j) /\ Trouble
    /\ UNCHANGED <<harness, baseline, session, saved, seen>>

-----------------------------------------------------------------------------
(* Observations: observeAcpHarness, one for each harness or candidate.     *)

\* Opened for a candidate's model, or for none (candidates are projected from those).
Observe(p) ==
    /\ At(p, {"idle"})
    /\ \E identity \in Identity \cup {Nothing} :
          /\ job' = [job EXCEPT ![p].at = "reading", ![p].asked = identity,
                                ![p].model = identity.model]
          /\ Opened(p, identity.model)
    /\ calm' = calm \cup {p} /\ UNCHANGED trouble
    /\ UNCHANGED <<harness, baseline, saved, seen>>

\* The session as the snapshot reports it; a candidate is confirmed next.
ReadStatus(p) ==
    /\ At(p, {"reading"})
    /\ IF session[p].listing = Garbled THEN Fails(p)
       ELSE job' = [job EXCEPT ![p].found = session[p],
                               ![p].at = IF job[p].asked = Nothing THEN "discarding" ELSE "initial"]
    /\ Reads(p) /\ Smooth
    /\ UNCHANGED <<harness, baseline, session, saved>>

\* withDeadline, for each of the opening, the status and the confirmation
Deadline(p) ==
    /\ At(p, Live) /\ Fails(p)
    /\ Smooth /\ UNCHANGED <<harness, baseline, session, saved, seen>>

\* baselineCandidateFromObservation: no candidate without a usable model and effort.
Candidate(found) ==
    LET options == found.listing.options IN
    IF Selectors(options) = {} THEN [model |-> found.model, effort |-> Null]
    ELSE IF CurrentEfforts(options) = {} THEN Nothing
    ELSE [model |-> found.model, effort |-> CHOOSE e \in CurrentEfforts(options) : TRUE]

Projected(p) ==
    IF job[p].asked = Nothing /\ job[p].found # NoSession THEN Candidate(job[p].found) ELSE Nothing

\* (mutant) a cleanup that fails is not told
DiscardQuietly(p) ==
    /\ At(p, {"discarding"})
    /\ \/ session' = [session EXCEPT ![p] = NoSession] /\ Smooth
       \/ UNCHANGED session /\ Trouble
    /\ job' = [job EXCEPT ![p].at = "observed", ![p].candidate = Projected(p)]
    /\ UNCHANGED <<harness, baseline, saved, seen>>

\* discardObservation: what cannot be cleaned up confirms nothing.
Discard(p) ==
    /\ At(p, {"discarding"})
    /\ \/ /\ job' = [job EXCEPT ![p].at = "observed", ![p].candidate = Projected(p)]
          /\ session' = [session EXCEPT ![p] = NoSession]
          /\ Smooth
       \/ /\ job' = [job EXCEPT ![p].at = "observed", ![p].observed = Nothing, ![p].applied = FALSE]
          /\ UNCHANGED session /\ Trouble
    /\ UNCHANGED <<harness, baseline, saved, seen>>

-----------------------------------------------------------------------------
(* The harness (external).                                                 *)

\* Its configuration changes, or a session's does under it.
Reconfigure ==
    /\ Trouble
    /\ \E as \in [model : Model, listing : Listing] :
          \/ harness' = as /\ UNCHANGED session
          \/ \E j \in Job : /\ At(j, Live \ {"turn"})
                            /\ session' = [session EXCEPT ![j] = as] /\ UNCHANGED harness
    /\ UNCHANGED <<baseline, job, saved, seen>>

\* A record is removed, or marked to start a new session.
LoseRecord(l) ==
    /\ saved[l] = "whole" /\ Trouble
    /\ \E now \in {"none", "reset"} : saved' = [saved EXCEPT ![l] = now]
    /\ UNCHANGED <<harness, baseline, job, session, seen>>

-----------------------------------------------------------------------------

Next ==
    \/ Approve \/ Reconfigure
    \/ \E l \in Launch : \/ Resolve(l) \/ Ensure(l) \/ Choose(l) \/ LoseRecord(l)
                         \/ \E prior \in Launch : Continue(l, prior)
    \/ \E j \in Job : Initial(j) \/ Set(j) \/ Confirm(j) \/ Refused(j)
    \/ \E p \in Probe : Observe(p) \/ ReadStatus(p) \/ Deadline(p) \/ Discard(p)

Spec == Init /\ [][Next]_vars

-----------------------------------------------------------------------------
(* Properties.                                                             *)

\* A turn starts on what was asked for, as the session itself reported after the last
\* setting: the pins, the approval for what they omit, and the row says so. An effort is
\* called applied only when it was, and one the row names was the session's
\* (applyAndConfirmAcpSelection, runAcpTurn).
TurnsRunAsAsked ==
    \A l \in Launch : At(l, {"turn"}) =>
        LET row == job[l].observed IN
        /\ seen[l] # Unseen /\ seen[l].model = row.model
        /\ job[l].asked.model \in {Null, row.model}
        /\ job[l].pins.model \in {Omitted, row.model}
        /\ job[l].pins.effort \in Effort => job[l].applied /\ row.effort = job[l].pins.effort
        /\ job[l].asked.effort # Null => job[l].applied /\ row.effort = job[l].asked.effort
        /\ row.effort # Null =>
              \E o \in Selectors(seen[l].listing.options) : o.current = row.effort
        /\ job[l].pins.effort = Null => ~job[l].applied

\* A retried or resumed turn starts in the conversation it continues, never in a new
\* one in its stead (validateTurnRecord, validateLoadedHandle).
TurnsStayInTheirConversation ==
    \A l \in Launch : At(l, {"turn"}) =>
        job[l].talks \in (IF job[l].resumes = Null THEN {l} ELSE {job[l].resumes})

\* What an observation confirmed and cleaned up after, a run of the same identity
\* launches with, as long as the harness behaves the same (observeAcpHarness: "through
\* the exact disposable ACP launch seam used by delegated sessions").
ConfirmedCandidatesLaunch ==
    \A p \in Probe, l \in Launch :
        /\ {p, l} \subseteq calm /\ At(p, {"observed"}) /\ job[p].observed # Nothing
        /\ At(l, {"failed"})
        /\ [model |-> job[l].model, effort |-> job[l].asked.effort] = job[p].asked
        => FALSE

\* A confirmation says that the session is gone and used what was asked for.
ConfirmationsAreClean ==
    \A p \in Probe : At(p, {"observed"}) /\ job[p].observed # Nothing =>
        session[p] = NoSession /\ job[p].observed = job[p].asked

\* What an observation confirms can be relied on, and left nothing behind.
ConfirmationsHold == ConfirmedCandidatesLaunch /\ ConfirmationsAreClean

\* A turn is the one that was asked for: its configuration and its conversation.
TurnsAreTheOnesAsked == TurnsRunAsAsked /\ TurnsStayInTheirConversation

\* The turns of one conversation run on one model at one effort, whatever the owner
\* approves and the harness is set to between them: a row keeps what was resolved when
\* the conversation was launched. Only what was left to the harness may move (retry,
\* resume, resolveAgentRunLaunch).
ConversationsKeepIdentity ==
    \A l, m \in Launch :
        At(l, {"turn"}) /\ At(m, {"turn"}) /\ job[l].talks = job[m].talks =>
           /\ job[l].applied = job[m].applied
           /\ job[l].applied => job[l].observed.effort = job[m].observed.effort
           /\ job[l].asked.model # Null => job[l].observed.model = job[m].observed.model
=============================================================================
