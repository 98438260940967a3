---------------------------- MODULE LaunchProofs ----------------------------
(***************************************************************************)
(* Proofs about what a delegated run runs as, for any models, efforts and  *)
(* options of the harness, any runs and observations, and any number of    *)
(* things that go wrong outside: a turn is the one that was asked for, and *)
(* what an observation confirmed can be relied on.                         *)
(***************************************************************************)
EXTENDS DelegatedLaunch, FiniteSetTheorems, TLAPS

-----------------------------------------------------------------------------
(* The options of a session.                                               *)

\* A setting, as Set applies it.
After(o, id, effort) == IF o.id = id THEN [o EXCEPT !.current = effort] ELSE o
AllAfter(options, id, effort) == {After(o, id, effort) : o \in options}

\* A setting changes what an option is at, and nothing that tells it from others.
LEMMA SettingKeepsOption ==
    ASSUME NEW o, IsOption(o), NEW id, NEW effort
    PROVE  LET p == After(o, id, effort)
           IN /\ p.id = o.id /\ p.category = o.category /\ p.values = o.values
              /\ o.id = id => p.current = effort
  BY DEF IsOption, After

\* There is a first level among those used.
LEMMA LeastOfThree ==
    ASSUME NEW S, S \subseteq 1..3, S # {}
    PROVE  (CHOOSE i \in S : \A k \in S : i <= k) \in S
<1>1. 1 \in S \/ 2 \in S \/ 3 \in S
  <2>1. \A i \in S : i = 1 \/ i = 2 \/ i = 3
    <3>1. \A i \in 1..3 : i = 1 \/ i = 2 \/ i = 3
      OBVIOUS
    <3> QED BY <3>1
  <2> QED BY <2>1
<1>2. \E i \in S : \A k \in S : i <= k
  <2>1. CASE 1 \in S
    BY <2>1
  <2>2. CASE 1 \notin S /\ 2 \in S
    <3>1. \A k \in S : 2 <= k
      BY <2>2
    <3> QED BY <2>2, <3>1
  <2>3. CASE 1 \notin S /\ 2 \notin S /\ 3 \in S
    <3>1. \A k \in S : 3 <= k
      BY <2>3
    <3> QED BY <2>3, <3>1
  <2> QED BY <1>1, <2>1, <2>2, <2>3
<1> QED BY <1>2

\* Selectors are options.
LEMMA SelectorsAreOptions ==
    ASSUME NEW options
    PROVE  Selectors(options) \subseteq options
<1> DEFINE levels == << {o \in options : o.category = "thought_level"},
                        {o \in options : o.id = "thought_level"},
                        {o \in options : o.id = "reasoning_effort"} >>
           used == {i \in 1..3 : levels[i] # {}}
           first == CHOOSE i \in used : \A k \in used : i <= k
<1>1. \A i \in 1..3 : levels[i] \subseteq options
  <2>1. \A i \in 1..3 : i = 1 \/ i = 2 \/ i = 3
    OBVIOUS
  <2> QED BY <2>1
<1>2. Selectors(options) = IF used = {} THEN {} ELSE levels[first]
  BY DEF Selectors
<1>3. used # {} => first \in 1..3
  <2>1. used \subseteq 1..3
    OBVIOUS
  <2> HIDE DEF used
  <2> QED BY <2>1, LeastOfThree
<1> HIDE DEF levels, used, first
<1> QED BY <1>1, <1>2, <1>3

\* A setting makes no more of a listing.
LEMMA SettingKeepsFinite ==
    ASSUME NEW options, IsFiniteSet(options), NEW id, NEW effort
    PROVE  IsFiniteSet(AllAfter(options, id, effort))
<1> DEFINE f == [o \in options |-> After(o, id, effort)]
<1>1. f \in Surjection(options, AllAfter(options, id, effort))
  BY DEF Surjection, AllAfter
<1> QED BY <1>1, FS_Surjection

\* A setting leaves the selectors the same options.
LEMMA SettingKeepsSelectors ==
    ASSUME NEW options, \A o \in options : IsOption(o), NEW id, NEW effort
    PROVE  Selectors(AllAfter(options, id, effort)) = AllAfter(Selectors(options), id, effort)
<1> DEFINE a(os) == {o \in os : o.category = "thought_level"}
           b(os) == {o \in os : o.id = "thought_level"}
           c(os) == {o \in os : o.id = "reasoning_effort"}
           new == AllAfter(options, id, effort)
<1>1. \A o \in options : LET p == After(o, id, effort)
                         IN p.id = o.id /\ p.category = o.category
  BY SettingKeepsOption
<1>2. a(new) = AllAfter(a(options), id, effort)
  BY <1>1 DEF AllAfter
<1>3. b(new) = AllAfter(b(options), id, effort)
  BY <1>1 DEF AllAfter
<1>4. c(new) = AllAfter(c(options), id, effort)
  BY <1>1 DEF AllAfter
<1> DEFINE levels(os) == << a(os), b(os), c(os) >>
           used(os) == {i \in 1..3 : levels(os)[i] # {}}
<1>5. \A i \in 1..3 : levels(new)[i] = AllAfter(levels(options)[i], id, effort)
  <2>1. \A i \in 1..3 : i = 1 \/ i = 2 \/ i = 3
    OBVIOUS
  <2>2. /\ levels(new)[1] = a(new) /\ levels(new)[2] = b(new) /\ levels(new)[3] = c(new)
        /\ levels(options)[1] = a(options) /\ levels(options)[2] = b(options) /\ levels(options)[3] = c(options)
    OBVIOUS
  <2> HIDE DEF a, b, c, levels, new
  <2> QED BY <1>2, <1>3, <1>4, <2>1, <2>2
<1>6. \A os : /\ used(os) = {} => Selectors(os) = {}
              /\ used(os) # {} => Selectors(os) = levels(os)[CHOOSE i \in used(os) : \A k \in used(os) : i <= k]
  BY DEF Selectors
<1> HIDE DEF levels, a, b, c
<1>7. used(new) = used(options)
  <2>1. \A S : AllAfter(S, id, effort) = {} <=> S = {}
    BY DEF AllAfter
  <2> QED BY <1>5, <2>1
<1> DEFINE first == CHOOSE i \in used(options) : \A k \in used(options) : i <= k
<1>8. CASE used(options) = {}
  <2>1. Selectors(new) = {} /\ Selectors(options) = {}
    BY <1>6, <1>7, <1>8
  <2>2. AllAfter({}, id, effort) = {}
    BY DEF AllAfter
  <2> QED BY <2>1, <2>2
<1>9. CASE used(options) # {}
  <2>1. first \in used(options)
    <3>1. used(options) \subseteq 1..3
      OBVIOUS
    <3> HIDE DEF used
    <3> QED BY <1>9, <3>1, LeastOfThree
  <2>2. first \in 1..3
    BY <2>1
  <2> HIDE DEF used
  <2>3. Selectors(new) = levels(new)[first] /\ Selectors(options) = levels(options)[first]
    BY <1>6, <1>7, <1>9
  <2> HIDE DEF first, new
  <2> QED BY <1>5, <2>2, <2>3 DEF new
<1> QED BY <1>8, <1>9
-----------------------------------------------------------------------------
(* The inductive invariant.                                                *)

Fields == {"at", "pins", "asked", "resumes", "record", "talks", "selector", "found",
           "candidate", "observed", "applied", "model"}
Pinned == [model : Model \cup {Omitted}, effort : Effort \cup {Null, Omitted}]
Asked  == [model : Model \cup {Null}, effort : Effort \cup {Null}]

Advertised(listing) ==
    Listed(listing) => IsFiniteSet(listing.options) /\ \A o \in listing.options : IsOption(o)

\* What a session can be like: its listing has the shape a harness sends.
SessionOk(s) ==
    /\ DOMAIN s = {"model", "listing"} /\ s.model \in Model \cup {Null}
    /\ DOMAIN s.listing = {"is", "options"}
    /\ Advertised(s.listing)

JobOk(j) ==
    /\ DOMAIN job[j] = Fields
    /\ job[j].pins \in Pinned /\ job[j].asked \in Asked /\ job[j].model \in Model \cup {Null}
    /\ SessionOk(session[j])

Shapes ==
    /\ DOMAIN job = Job /\ DOMAIN session = Job /\ DOMAIN seen = Job
    /\ DOMAIN harness = {"model", "listing"} /\ harness.model \in Model /\ harness.listing \in Listing
    /\ SessionOk(harness)
    /\ baseline \in Identity \cup {Nothing}
    /\ calm \subseteq Job
    /\ \A j \in Job : JobOk(j)

\* The conversation of a run: its own, or the one it continues.
Conversation(l) == IF job[l].resumes = Null THEN l ELSE job[l].resumes

\* A run asks for what its caller pinned, in the conversation it belongs to.
AsksForPins(l) ==
    /\ At(l, {"idle"}) => job[l].resumes = Null /\ job[l].talks = Null
    /\ At(l, {"choosing"}) => job[l].asked.model = Null
    /\ ~At(l, {"idle"}) =>
          /\ job[l].pins.model \in {Omitted, job[l].asked.model}
          /\ job[l].pins.effort \in {Omitted, job[l].asked.effort}
    /\ ~At(l, {"idle"}) => job[l].talks \in {Null, Conversation(l)}
    /\ At(l, Live) => job[l].talks = Conversation(l)
    /\ At(l, Live \ {"choosing"}) => job[l].asked.model \in {Null, job[l].model}

\* What was confirmed is what was asked for.
TurnConfirmed(l) ==
    At(l, {"turn"}) =>
        /\ seen[l] # Unseen /\ seen[l].model = job[l].model
        /\ job[l].observed.model = job[l].model
        /\ job[l].applied = (job[l].asked.effort # Null)
        /\ job[l].applied => job[l].observed.effort = job[l].asked.effort
        /\ job[l].observed.effort # Null =>
              \E o \in Selectors(seen[l].listing.options) : o.current = job[l].observed.effort

\* An observation confirms at its end, what it was asked.
ProbeConfirmed(p) ==
    /\ At(p, {"idle", "reading", "initial", "setting", "confirming", "discarding", "observed"})
    /\ At(p, {"idle", "reading", "initial", "setting", "confirming"}) => job[p].observed = Nothing
    /\ job[p].model = job[p].asked.model /\ job[p].observed \in {Nothing, job[p].asked}
    /\ At(p, {"observed"}) /\ job[p].observed # Nothing => session[p] = NoSession

\* The options of a listing that a setting of the effort goes to.
Offers(listing, effort) ==
    {o \in Selectors(listing.options) :
        Cardinality(Selectors(listing.options)) = 1 /\ effort \in o.values}

\* A session of the harness can be confirmed.
Confirmable(listing, effort) ==
    Listed(listing) /\ (effort = Null \/ Offers(listing, effort) # {})

\* While nothing outside goes wrong a session is what the harness gave it, up to the
\* one setting, and whether it is confirmed depends on nothing else.
CalmSession(j) ==
    /\ ~At(j, {"idle"})
    /\ At(j, {"choosing", "reading", "initial", "setting"}) => session[j].listing = harness.listing
    /\ At(j, {"setting"}) =>
          /\ session[j].model = job[j].model
          /\ Listed(harness.listing)
          /\ \E o \in Offers(harness.listing, job[j].asked.effort) : o.id = job[j].selector
    /\ At(j, {"confirming"}) =>
          /\ Reports(j, job[j].model)
          /\ \E o \in Offering(j) : o.id = job[j].selector /\ o.current = job[j].asked.effort
          /\ Confirmable(harness.listing, job[j].asked.effort)

CalmLaunch(l) ==
    /\ job[l].resumes = Null
    /\ At(l, {"initial"}) => session[l].model = job[l].model
    /\ At(l, {"failed"}) => ~Confirmable(harness.listing, job[l].asked.effort)

CalmProbe(p) ==
    job[p].observed # Nothing => Confirmable(harness.listing, job[p].asked.effort)

LaunchInv ==
    /\ Shapes
    /\ \A l \in Launch : AsksForPins(l) /\ TurnConfirmed(l)
    /\ \A p \in Probe : ProbeConfirmed(p)
    /\ \A j \in calm : CalmSession(j)
    /\ \A l \in calm \cap Launch : CalmLaunch(l)
    /\ \A p \in calm \cap Probe : CalmProbe(p)
-----------------------------------------------------------------------------
(* What the actions leave alone.                                           *)

Same(j) == job'[j] = job[j] /\ session'[j] = session[j] /\ seen'[j] = seen[j]

\* A job that an action leaves alone keeps its part of the invariant.
LEMMA OthersKeep ==
    ASSUME NEW j \in Job, Same(j)
    PROVE  /\ JobOk(j) => JobOk(j)'
           /\ AsksForPins(j) => AsksForPins(j)'
           /\ TurnConfirmed(j) => TurnConfirmed(j)'
           /\ ProbeConfirmed(j) => ProbeConfirmed(j)'
<1>1. JobOk(j) => JobOk(j)'
  BY DEF Same, JobOk
<1>2. AsksForPins(j) => AsksForPins(j)'
  BY DEF Same, AsksForPins, Conversation, At
<1>3. TurnConfirmed(j) => TurnConfirmed(j)'
  BY DEF Same, TurnConfirmed, At
<1>4. ProbeConfirmed(j) => ProbeConfirmed(j)'
  BY DEF Same, ProbeConfirmed, At
<1> QED BY <1>1, <1>2, <1>3, <1>4

LEMMA OthersStayCalm ==
    ASSUME NEW j \in Job, Same(j), harness' = harness
    PROVE  /\ CalmSession(j) => CalmSession(j)'
           /\ CalmLaunch(j) => CalmLaunch(j)'
           /\ CalmProbe(j) => CalmProbe(j)'
<1>1. CalmSession(j) => CalmSession(j)'
  BY DEF Same, CalmSession, At, Reports, Offering
<1>2. CalmLaunch(j) => CalmLaunch(j)'
  BY DEF Same, CalmLaunch, At
<1>3. CalmProbe(j) => CalmProbe(j)'
  BY DEF Same, CalmProbe
<1> QED BY <1>1, <1>2, <1>3

\* An action of one job keeps the invariant if it keeps the shapes and the parts
\* that are about this job.
LEMMA StepOfOne ==
    ASSUME LaunchInv, NEW j \in Job, \A k \in Job \ {j} : Same(k),
           harness' = harness, baseline' \in Identity \cup {Nothing},
           calm' \subseteq calm \cup {j},
           DOMAIN job' = Job, DOMAIN session' = Job, DOMAIN seen' = Job,
           JobOk(j)',
           j \in Launch => AsksForPins(j)' /\ TurnConfirmed(j)',
           j \in Probe => ProbeConfirmed(j)',
           j \in calm' => CalmSession(j)',
           j \in calm' /\ j \in Launch => CalmLaunch(j)',
           j \in calm' /\ j \in Probe => CalmProbe(j)'
    PROVE  LaunchInv'
<1>1. \A k \in Job : k = j \/ Same(k)
  OBVIOUS
<1>2. Launch \subseteq Job /\ Probe \subseteq Job
  BY DEF Job
<1>3. Shapes'
  <2>1. \A k \in Job : JobOk(k)'
    <3> SUFFICES ASSUME NEW k \in Job PROVE JobOk(k)'
      OBVIOUS
    <3>1. CASE k = j
      BY <3>1
    <3>2. CASE k # j
      BY <3>2, OthersKeep DEF LaunchInv, Shapes
    <3> QED BY <3>1, <3>2
  <2>2. SessionOk(harness)'
    BY DEF LaunchInv, Shapes
  <2> QED BY <2>1, <2>2 DEF LaunchInv, Shapes
<1>4. ASSUME NEW l \in Launch PROVE AsksForPins(l)' /\ TurnConfirmed(l)'
  <2>1. CASE l = j
    BY <2>1
  <2>2. CASE l # j
    BY <1>2, <2>2, OthersKeep DEF LaunchInv
  <2> QED BY <2>1, <2>2
<1>5. ASSUME NEW p \in Probe PROVE ProbeConfirmed(p)'
  <2>1. CASE p = j
    BY <2>1
  <2>2. CASE p # j
    BY <1>2, <2>2, OthersKeep DEF LaunchInv
  <2> QED BY <2>1, <2>2
<1>6. ASSUME NEW k \in calm' PROVE CalmSession(k)'
  <2>1. CASE k = j
    BY <1>6, <2>1
  <2>2. CASE k # j
    <3>1. k \in calm /\ k \in Job
      BY <2>2 DEF LaunchInv, Shapes
    <3> QED BY <2>2, <3>1, OthersStayCalm DEF LaunchInv
  <2> QED BY <2>1, <2>2
<1>7. ASSUME NEW l \in calm' \cap Launch PROVE CalmLaunch(l)'
  <2>1. CASE l = j
    BY <2>1
  <2>2. CASE l # j
    <3>1. l \in calm \cap Launch /\ l \in Job
      BY <1>2, <2>2
    <3> QED BY <2>2, <3>1, OthersStayCalm DEF LaunchInv
  <2> QED BY <2>1, <2>2
<1>8. ASSUME NEW p \in calm' \cap Probe PROVE CalmProbe(p)'
  <2>1. CASE p = j
    BY <2>1
  <2>2. CASE p # j
    <3>1. p \in calm \cap Probe /\ p \in Job
      BY <1>2, <2>2
    <3> QED BY <2>2, <3>1, OthersStayCalm DEF LaunchInv
  <2> QED BY <2>1, <2>2
<1> QED BY <1>3, <1>4, <1>5, <1>6, <1>7, <1>8 DEF LaunchInv

\* An action of no job.
LEMMA StepOfNone ==
    ASSUME LaunchInv, UNCHANGED <<job, session, seen>>,
           harness' = harness \/ (calm' = {} /\ harness' \in [model : Model, listing : Listing]),
           baseline' \in Identity \cup {Nothing}, calm' \subseteq calm
    PROVE  LaunchInv'
<1>1. /\ \A k \in Job : Same(k)
      /\ Launch \subseteq Job /\ Probe \subseteq Job /\ calm \subseteq Job
  BY DEF Same, Job, LaunchInv, Shapes
<1>2. Shapes'
  <2>1. \A k \in Job : JobOk(k)'
    BY <1>1, OthersKeep DEF LaunchInv, Shapes
  <2>2. SessionOk(harness)' /\ DOMAIN harness' = {"model", "listing"}
        /\ harness'.model \in Model /\ harness'.listing \in Listing
    <3>1. CASE harness' = harness
      BY <3>1 DEF LaunchInv, Shapes
    <3>2. CASE harness' \in [model : Model, listing : Listing]
      BY <3>2, LaunchAssumption DEF SessionOk, Advertised
    <3> QED BY <3>1, <3>2
  <2> QED BY <2>1, <2>2 DEF LaunchInv, Shapes
<1>3. /\ \A l \in Launch : AsksForPins(l)' /\ TurnConfirmed(l)'
      /\ \A p \in Probe : ProbeConfirmed(p)'
  BY <1>1, OthersKeep DEF LaunchInv
<1>4. /\ \A j \in calm' : CalmSession(j)'
      /\ \A l \in calm' \cap Launch : CalmLaunch(l)'
      /\ \A p \in calm' \cap Probe : CalmProbe(p)'
  <2>1. CASE harness' = harness
    BY <1>1, <2>1, OthersStayCalm DEF LaunchInv
  <2>2. CASE calm' = {}
    BY <2>2
  <2> QED BY <2>1, <2>2
<1> QED BY <1>2, <1>3, <1>4 DEF LaunchInv

LEMMA ResolveStep ==
    ASSUME LaunchInv, NEW l \in Launch, Resolve(l)
    PROVE  LaunchInv'
<1>1. l \in Job /\ l \notin Probe
  BY LaunchAssumption DEF Job
<1>2. /\ DOMAIN job = Job /\ JobOk(l)
      /\ baseline \in Identity \cup {Nothing}
  BY <1>1 DEF LaunchInv, Shapes
<1>3. PICK pins \in [model : Model \cup {Omitted}, effort : Effort \cup {Null, Omitted}] :
         job' = [job EXCEPT ![l].at = "queued", ![l].pins = pins, ![l].asked = Asks(pins)]
  BY DEF Resolve
<1>4. PICK asked : asked = Asks(pins)
  OBVIOUS
<1>5. /\ pins \in Pinned /\ asked \in Asked
      /\ pins.model \in {Omitted, asked.model} /\ pins.effort \in {Omitted, asked.effort}
  <2>1. asked = [model |-> asked.model, effort |-> asked.effort]
        /\ asked.model = (IF pins.model = Omitted THEN baseline.model ELSE pins.model)
        /\ asked.effort = (IF pins.effort # Omitted THEN pins.effort
                           ELSE IF asked.model = Null THEN Null ELSE baseline.effort)
    BY <1>4 DEF Asks
  <2>2. /\ asked.model \in Model \cup {Null} /\ asked.effort \in Effort \cup {Null}
        /\ pins.model \in {Omitted, asked.model} /\ pins.effort \in {Omitted, asked.effort}
    BY <1>2, <2>1 DEF Identity, Nothing
  <2> QED BY <2>1, <2>2 DEF Pinned, Asked
<1>6. job' = [job EXCEPT ![l].at = "queued", ![l].pins = pins, ![l].asked = asked]
  BY <1>3, <1>4
<1>7. /\ DOMAIN job' = Job /\ DOMAIN job'[l] = Fields
      /\ \A k \in Job \ {l} : job'[k] = job[k]
      /\ job'[l].at = "queued" /\ job'[l].pins = pins /\ job'[l].asked = asked
      /\ job'[l].resumes = job[l].resumes /\ job'[l].talks = job[l].talks
      /\ job'[l].model = job[l].model
  BY <1>1, <1>2, <1>6 DEF JobOk, Fields
<1>8. /\ \A k \in Job \ {l} : Same(k)
      /\ UNCHANGED <<harness, baseline, session, seen>> /\ calm' = calm \cup {l}
      /\ job[l].resumes = Null /\ job[l].talks = Null
  <2>1. UNCHANGED <<harness, baseline, session, seen>> /\ calm' = calm \cup {l} /\ At(l, {"idle"})
    BY DEF Resolve
  <2> QED BY <1>7, <2>1 DEF Same, LaunchInv, AsksForPins
<1>9. JobOk(l)'
  BY <1>2, <1>5, <1>7, <1>8 DEF JobOk
<1>10. AsksForPins(l)' /\ TurnConfirmed(l)'
  BY <1>5, <1>7, <1>8 DEF AsksForPins, TurnConfirmed, Conversation, At, Live
<1>11. CalmSession(l)' /\ CalmLaunch(l)'
  BY <1>7, <1>8 DEF CalmSession, CalmLaunch, At
<1>12. DOMAIN session' = Job /\ DOMAIN seen' = Job
  BY <1>8 DEF LaunchInv, Shapes
<1> QED BY <1>1, <1>2, <1>7, <1>8, <1>9, <1>10, <1>11, <1>12, StepOfOne
LEMMA ContinueStep ==
    ASSUME LaunchInv, NEW l \in Launch, NEW prior \in Launch, Continue(l, prior)
    PROVE  LaunchInv'
<1>1. l \in Job /\ l \notin Probe /\ prior \in Job
  BY LaunchAssumption DEF Job
<1>2. /\ At(l, {"idle"}) /\ At(prior, {"turn", "failed"})
      /\ UNCHANGED <<harness, baseline, session, seen>> /\ calm' = calm
  BY DEF Continue, Smooth
<1>3. DOMAIN job = Job /\ JobOk(l) /\ JobOk(prior) /\ AsksForPins(prior)
  BY <1>1 DEF LaunchInv, Shapes
<1>4. PICK record \in BOOLEAN :
         job' = [job EXCEPT ![l].at = "queued", ![l].pins = job[prior].pins,
                            ![l].asked = job[prior].asked, ![l].talks = job[prior].talks,
                            ![l].resumes = job[prior].talks, ![l].record = record]
  BY DEF Continue, Carried
<1>5. /\ DOMAIN job' = Job /\ DOMAIN job'[l] = Fields
      /\ \A k \in Job \ {l} : job'[k] = job[k]
      /\ job'[l].at = "queued" /\ job'[l].pins = job[prior].pins /\ job'[l].asked = job[prior].asked
      /\ job'[l].talks = job[prior].talks /\ job'[l].resumes = job[prior].talks
      /\ job'[l].model = job[l].model
  BY <1>1, <1>3, <1>4 DEF JobOk, Fields
<1>6. \A k \in Job \ {l} : Same(k)
  BY <1>2, <1>5 DEF Same
<1>7. JobOk(l)'
  BY <1>2, <1>3, <1>5 DEF JobOk
<1>8. AsksForPins(l)' /\ TurnConfirmed(l)'
  BY <1>2, <1>3, <1>5 DEF AsksForPins, TurnConfirmed, Conversation, At, Live
<1>9. l \notin calm'
  BY <1>2 DEF LaunchInv, CalmSession
<1>10. /\ DOMAIN session' = Job /\ DOMAIN seen' = Job /\ baseline' \in Identity \cup {Nothing}
       /\ calm' \subseteq calm \cup {l} /\ harness' = harness
  BY <1>2 DEF LaunchInv, Shapes
<1> QED BY <1>1, <1>5, <1>6, <1>7, <1>8, <1>9, <1>10, StepOfOne

\* A session as it is opened.
LEMMA OpenedSession ==
    ASSUME LaunchInv, NEW j \in Job, NEW model \in Model \cup {Null}, Opened(j, model)
    PROVE  /\ DOMAIN session' = Job
           /\ \A k \in Job \ {j} : session'[k] = session[k]
           /\ SessionOk(session'[j]) /\ session'[j].listing = harness.listing
           /\ model # Null => session'[j].model = model
           /\ session'[j].model \in Model
<1>1. /\ DOMAIN session = Job /\ DOMAIN harness = {"model", "listing"} /\ harness.model \in Model
      /\ SessionOk(harness)
  BY DEF LaunchInv, Shapes
<1>2. PICK brought \in Model :
         session' = [session EXCEPT ![j] =
             [harness EXCEPT !.model = IF model = Null THEN brought ELSE model]]
  BY <1>1 DEF Opened
<1> DEFINE s == [harness EXCEPT !.model = IF model = Null THEN brought ELSE model]
<1>3. /\ DOMAIN s = {"model", "listing"} /\ s.listing = harness.listing
      /\ s.model = IF model = Null THEN brought ELSE model
      /\ session' = [session EXCEPT ![j] = s]
  BY <1>1, <1>2
<1> HIDE DEF s
<1>4. /\ DOMAIN session' = Job /\ session'[j] = s
      /\ \A k \in Job \ {j} : session'[k] = session[k]
  BY <1>1, <1>3
<1>5. SessionOk(s)
  BY <1>1, <1>3 DEF SessionOk
<1> QED BY <1>1, <1>3, <1>4, <1>5

LEMMA EnsureStep ==
    ASSUME LaunchInv, NEW l \in Launch, Ensure(l)
    PROVE  LaunchInv'
<1>1. l \in Job /\ l \notin Probe /\ l # Null
  BY LaunchAssumption DEF Job
<1>2. /\ At(l, {"queued"}) /\ UNCHANGED <<harness, baseline>>
      /\ seen' = [seen EXCEPT ![l] = Unseen]
  BY DEF Ensure
<1>3. /\ DOMAIN job = Job /\ JobOk(l) /\ AsksForPins(l) /\ DOMAIN seen = Job /\ DOMAIN session = Job
      /\ baseline' \in Identity \cup {Nothing}
      /\ l \in calm => CalmLaunch(l)
  BY <1>1, <1>2 DEF LaunchInv, Shapes
<1>4. DOMAIN seen' = Job /\ \A k \in Job \ {l} : seen'[k] = seen[k]
  BY <1>2, <1>3
<1> DEFINE goal == job[l].resumes
<1>5. CASE goal # Null /\ job[l].record /\ saved[goal] # "whole"
  <2>1. job' = [job EXCEPT ![l].at = "failed"] /\ session' = session /\ calm' = calm
    BY <1>1, <1>5 DEF Ensure, ValidTurnRecord, Fails, Goes, Smooth
  <2>2. /\ DOMAIN job' = Job /\ DOMAIN job'[l] = Fields
        /\ \A k \in Job \ {l} : job'[k] = job[k]
        /\ job'[l].at = "failed" /\ job'[l].pins = job[l].pins /\ job'[l].asked = job[l].asked
        /\ job'[l].model = job[l].model
        /\ job'[l].resumes = job[l].resumes /\ job'[l].talks = job[l].talks
    BY <1>1, <1>3, <2>1 DEF JobOk, Fields
  <2>3. \A k \in Job \ {l} : Same(k)
    BY <1>4, <2>1, <2>2 DEF Same
  <2>4. JobOk(l)'
    BY <1>3, <2>1, <2>2 DEF JobOk
  <2>5. AsksForPins(l)' /\ TurnConfirmed(l)'
    BY <1>2, <1>3, <2>2 DEF AsksForPins, TurnConfirmed, Conversation, At, Live
  <2>6. l \notin calm'
    BY <1>3, <1>5, <2>1 DEF CalmLaunch
  <2>7. calm' \subseteq calm \cup {l} /\ DOMAIN session' = Job /\ harness' = harness
    BY <1>2, <1>3, <2>1
  <2> QED BY <1>1, <1>3, <1>4, <2>2, <2>3, <2>4, <2>5, <2>6, <2>7, StepOfOne
<1>6. CASE ~(goal # Null /\ job[l].record /\ saved[goal] # "whole")
  <2>1. PICK talks \in {l, goal} \ {Null} :
           /\ IF talks = goal \/ goal = Null THEN Smooth ELSE Trouble
           /\ Opened(l, SessionModel(l))
           /\ job' = [job EXCEPT
                 ![l].at = IF ~LoadedHandle(l, talks) THEN "failed"
                           ELSE IF job[l].asked.model = Null THEN "choosing" ELSE "initial",
                 ![l].talks = IF LoadedHandle(l, talks) THEN talks ELSE @,
                 ![l].model = job[l].asked.model]
    BY <1>6 DEF Ensure, ValidTurnRecord
  <2> DEFINE to == IF ~LoadedHandle(l, talks) THEN "failed"
                   ELSE IF job[l].asked.model = Null THEN "choosing" ELSE "initial"
             said == IF LoadedHandle(l, talks) THEN talks ELSE job[l].talks
  <2>2. job' = [job EXCEPT ![l].at = to, ![l].talks = said, ![l].model = job[l].asked.model]
    BY <2>1
  <2>3. /\ to = "failed" => ~LoadedHandle(l, talks)
        /\ to \in {"failed", "choosing", "initial"}
        /\ to = "choosing" => job[l].asked.model = Null
        /\ to = "initial" => job[l].asked.model # Null
        /\ to # "failed" => said = talks /\ goal \in {Null, talks}
    BY DEF LoadedHandle
  <2>14. said = job[l].talks \/ (said = talks /\ goal \in {Null, talks})
    <3>1. CASE LoadedHandle(l, talks)
      BY <3>1 DEF LoadedHandle
    <3>2. CASE ~LoadedHandle(l, talks)
      BY <3>2
    <3> QED BY <3>1, <3>2
  <2>4. goal = Null => talks = l
    BY <1>1
  <2>5. calm' = {} \/ calm' = calm
    BY <2>1 DEF Smooth, Trouble
  <2>6. job[l].asked.model \in Model \cup {Null}
    BY <1>3 DEF JobOk, Asked
  <2>7. /\ DOMAIN session' = Job
        /\ \A k \in Job \ {l} : session'[k] = session[k]
        /\ SessionOk(session'[l]) /\ session'[l].listing = harness.listing
        /\ job[l].asked.model # Null => session'[l].model = job[l].asked.model
    BY <1>1, <2>1, <2>6, OpenedSession DEF SessionModel
  <2> HIDE DEF to, said
  <2>8. /\ DOMAIN job' = Job /\ DOMAIN job'[l] = Fields
        /\ \A k \in Job \ {l} : job'[k] = job[k]
        /\ job'[l].at = to /\ job'[l].pins = job[l].pins /\ job'[l].asked = job[l].asked
        /\ job'[l].model = job[l].asked.model
        /\ job'[l].resumes = goal /\ job'[l].talks = said
    BY <1>1, <1>3, <2>2 DEF JobOk, Fields
  <2>9. \A k \in Job \ {l} : Same(k)
    BY <1>4, <2>7, <2>8 DEF Same
  <2>10. JobOk(l)'
    BY <1>3, <2>6, <2>7, <2>8 DEF JobOk
  <2>11. AsksForPins(l)' /\ TurnConfirmed(l)'
    <3>1. TurnConfirmed(l)'
      BY <2>3, <2>8 DEF TurnConfirmed, At
    <3>2. Conversation(l)' = Conversation(l) /\ job[l].talks \in {Null, Conversation(l)}
      BY <1>2, <1>3, <2>8 DEF Conversation, AsksForPins, At
    <3>3. /\ said \in {Null, Conversation(l)} /\ (to # "failed" => said = Conversation(l))
      BY <2>3, <2>4, <2>14, <3>2 DEF Conversation
    <3>4. job'[l].asked.model = job'[l].model
      BY <2>8
    <3>5. AsksForPins(l)'
      BY <1>2, <1>3, <2>3, <2>8, <3>2, <3>3, <3>4 DEF AsksForPins, At, Live
    <3> QED BY <3>1, <3>5
  <2>12. l \in calm' => CalmSession(l)' /\ CalmLaunch(l)'
    <3>1. SUFFICES ASSUME l \in calm' PROVE CalmSession(l)' /\ CalmLaunch(l)'
      OBVIOUS
    <3>2. goal = Null /\ talks = l
      BY <1>3, <2>4, <2>5, <3>1 DEF CalmLaunch
    <3>3. LoadedHandle(l, talks)
      BY <3>2 DEF LoadedHandle
    <3>4. to # "failed"
      BY <2>3, <3>3
    <3> QED BY <1>2, <2>3, <2>7, <2>8, <3>2, <3>4 DEF CalmSession, CalmLaunch, At
  <2>13. calm' \subseteq calm \cup {l} /\ harness' = harness
    BY <1>2, <2>5
  <2> QED BY <1>1, <1>3, <1>4, <2>7, <2>8, <2>9, <2>10, <2>11, <2>12, <2>13, StepOfOne
<1> QED BY <1>5, <1>6

LEMMA ChooseStep ==
    ASSUME LaunchInv, NEW l \in Launch, Choose(l)
    PROVE  LaunchInv'
<1>1. l \in Job /\ l \notin Probe
  BY LaunchAssumption DEF Job
<1>2. /\ At(l, {"choosing"}) /\ UNCHANGED <<harness, baseline, session>> /\ calm' = calm
      /\ job' = [job EXCEPT ![l].at = "initial", ![l].model = session[l].model]
      /\ seen' = [seen EXCEPT ![l] = session[l]]
  BY DEF Choose, Reads, Smooth
<1>3. /\ DOMAIN job = Job /\ JobOk(l) /\ AsksForPins(l) /\ DOMAIN seen = Job
      /\ l \in calm => CalmSession(l) /\ CalmLaunch(l)
  BY <1>1 DEF LaunchInv, Shapes
<1>7. /\ DOMAIN job' = Job /\ DOMAIN job'[l] = Fields
      /\ \A k \in Job \ {l} : job'[k] = job[k]
      /\ job'[l].at = "initial" /\ job'[l].pins = job[l].pins /\ job'[l].asked = job[l].asked
      /\ job'[l].resumes = job[l].resumes /\ job'[l].talks = job[l].talks
      /\ job'[l].model = session[l].model
  BY <1>1, <1>2, <1>3 DEF JobOk, Fields
<1>8. \A k \in Job \ {l} : Same(k)
  BY <1>2, <1>3, <1>7 DEF Same
<1>9. JobOk(l)'
  BY <1>2, <1>3, <1>7 DEF JobOk, SessionOk
<1>10. AsksForPins(l)' /\ TurnConfirmed(l)'
  BY <1>2, <1>3, <1>7 DEF AsksForPins, TurnConfirmed, Conversation, At, Live
<1>11. l \in calm' => CalmSession(l)' /\ CalmLaunch(l)'
  BY <1>2, <1>3, <1>7 DEF CalmSession, CalmLaunch, At
<1>12. /\ DOMAIN session' = Job /\ DOMAIN seen' = Job /\ baseline' \in Identity \cup {Nothing}
       /\ calm' \subseteq calm \cup {l} /\ harness' = harness
  BY <1>2, <1>3 DEF LaunchInv, Shapes
<1> QED BY <1>1, <1>7, <1>8, <1>9, <1>10, <1>11, <1>12, StepOfOne
-----------------------------------------------------------------------------
(* The selection.                                                          *)

\* A job that fails: a run of the same identity would too, while nothing went wrong.
LEMMA FailsKeeps ==
    ASSUME LaunchInv, NEW j \in Job, Fails(j), At(j, Live \ {"turn"}),
           UNCHANGED <<harness, baseline, session>>, calm' \subseteq calm,
           DOMAIN seen' = Job, \A k \in Job \ {j} : seen'[k] = seen[k],
           j \in calm' /\ j \in Launch => ~Confirmable(harness.listing, job[j].asked.effort)
    PROVE  LaunchInv'
<1>1. PICK to : to = IF j \in Probe THEN "discarding" ELSE "failed"
  OBVIOUS
<1>2. Goes(j, to)
  BY <1>1 DEF Fails
<1>3. /\ DOMAIN job = Job /\ JobOk(j) /\ DOMAIN session = Job
      /\ j \in calm => CalmSession(j)
      /\ j \in calm /\ j \in Launch => CalmLaunch(j)
      /\ j \in calm /\ j \in Probe => CalmProbe(j)
      /\ j \in Launch => AsksForPins(j) /\ j \notin Probe
      /\ j \in Probe => ProbeConfirmed(j)
  BY LaunchAssumption DEF LaunchInv, Shapes
<1>4. /\ DOMAIN job' = Job /\ DOMAIN job'[j] = Fields
      /\ \A k \in Job \ {j} : job'[k] = job[k]
      /\ job'[j].at = to /\ job'[j].pins = job[j].pins /\ job'[j].asked = job[j].asked
      /\ job'[j].model = job[j].model
      /\ job'[j].resumes = job[j].resumes /\ job'[j].talks = job[j].talks
      /\ job'[j].observed = job[j].observed
  BY <1>2, <1>3 DEF Goes, JobOk, Fields
<1>5. /\ \A k \in Job \ {j} : Same(k)
      /\ harness' = harness /\ session'[j] = session[j] /\ DOMAIN session' = Job
      /\ baseline' \in Identity \cup {Nothing} /\ calm' \subseteq calm \cup {j}
  BY <1>3, <1>4 DEF Same, LaunchInv, Shapes
<1>6. JobOk(j)'
  BY <1>3, <1>4, <1>5 DEF JobOk
<1>7. j \in Launch => AsksForPins(j)' /\ TurnConfirmed(j)'
  BY <1>1, <1>3, <1>4 DEF AsksForPins, TurnConfirmed, Conversation, At, Live
<1>8. j \in Probe => ProbeConfirmed(j)'
  BY <1>1, <1>3, <1>4 DEF ProbeConfirmed, At
<1>9. j \in calm' => CalmSession(j)'
  BY <1>1, <1>4 DEF CalmSession, At
<1>10. j \in calm' /\ j \in Launch => CalmLaunch(j)'
  BY <1>1, <1>3, <1>4, <1>5 DEF CalmLaunch, At
<1>11. j \in calm' /\ j \in Probe => CalmProbe(j)'
  BY <1>3, <1>4, <1>5 DEF CalmProbe
<1> QED BY <1>4, <1>5, <1>6, <1>7, <1>8, <1>9, <1>10, <1>11, StepOfOne

\* A job that is confirmed, by the status just read.
LEMMA ConfirmsKeeps ==
    ASSUME LaunchInv, NEW j \in Job, Confirms(j), At(j, {"initial", "confirming"}), Reads(j),
           UNCHANGED <<harness, baseline, session, calm>>,
           Reports(j, job[j].model),
           job[j].asked.effort # Null =>
              \E o \in Selectors(session[j].listing.options) : o.current = job[j].asked.effort,
           j \in calm => Confirmable(harness.listing, job[j].asked.effort)
    PROVE  LaunchInv'
<1>1. PICK to : to = IF j \in Probe THEN "discarding" ELSE "turn"
  OBVIOUS
<1> DEFINE chosen == IF j \in Launch /\ job[j].asked.model = Null
                     THEN CurrentEfforts(session[j].listing.options) ELSE {}
           was == job[j].asked.effort # Null
           effort == IF was THEN job[j].asked.effort
                     ELSE CHOOSE e \in chosen \cup {Null} : e = Null => chosen = {}
           observed == [model |-> job[j].model, effort |-> effort]
<1>2. job' = [job EXCEPT ![j].at = to, ![j].observed = observed, ![j].applied = was]
  BY <1>1 DEF Confirms
<1>3. /\ DOMAIN job = Job /\ JobOk(j) /\ DOMAIN session = Job /\ DOMAIN seen = Job
      /\ j \in calm => CalmSession(j)
      /\ j \in calm /\ j \in Launch => CalmLaunch(j)
      /\ j \in calm /\ j \in Probe => CalmProbe(j)
      /\ j \in Launch => AsksForPins(j) /\ j \notin Probe
      /\ j \in Probe => ProbeConfirmed(j) /\ j \notin Launch
  BY LaunchAssumption DEF LaunchInv, Shapes
<1>4. /\ was => observed.effort = job[j].asked.effort
      /\ observed.model = job[j].model
      /\ was \in BOOLEAN /\ (was <=> job[j].asked.effort # Null)
  OBVIOUS
<1>5. j \in Probe => observed = job[j].asked
  <2>1. j \in Probe /\ ~was => effort = Null
    BY <1>3
  <2>2. job[j].asked = [model |-> job[j].asked.model, effort |-> job[j].asked.effort]
    BY <1>3 DEF JobOk, Asked
  <2>3. j \in Probe => job[j].model = job[j].asked.model
    BY <1>3 DEF ProbeConfirmed
  <2> QED BY <2>1, <2>2, <2>3
<1>16. observed.effort # Null =>
          \E o \in Selectors(session[j].listing.options) : o.current = observed.effort
  <2>1. was => \E o \in Selectors(session[j].listing.options) : o.current = observed.effort
    BY <1>4
  <2>2. CASE ~was /\ chosen = {}
    BY <2>2
  <2>3. CASE ~was /\ chosen # {}
    <3>1. Null \notin chosen
      BY LaunchAssumption DEF CurrentEfforts
    <3>2. observed.effort \in chosen
      <4>1. \E e \in chosen \cup {Null} : (e = Null => chosen = {})
        BY <2>3, <3>1
      <4>2. effort \in chosen \cup {Null} /\ (effort = Null => chosen = {})
        BY <2>3, <4>1
      <4> QED BY <2>3, <4>2
    <3> QED BY <3>2 DEF CurrentEfforts
  <2> QED BY <2>1, <2>2, <2>3
<1> HIDE DEF was, observed
<1>6. /\ DOMAIN job' = Job /\ DOMAIN job'[j] = Fields
      /\ \A k \in Job \ {j} : job'[k] = job[k]
      /\ job'[j].at = to /\ job'[j].pins = job[j].pins /\ job'[j].asked = job[j].asked
      /\ job'[j].model = job[j].model
      /\ job'[j].resumes = job[j].resumes /\ job'[j].talks = job[j].talks
      /\ job'[j].observed = observed /\ job'[j].applied = was
  BY <1>2, <1>3 DEF JobOk, Fields
<1>7. /\ DOMAIN seen' = Job /\ \A k \in Job \ {j} : seen'[k] = seen[k]
      /\ seen'[j] = session[j]
  BY <1>3 DEF Reads
<1>8. /\ \A k \in Job \ {j} : Same(k)
      /\ harness' = harness /\ session'[j] = session[j] /\ DOMAIN session' = Job
      /\ baseline' \in Identity \cup {Nothing} /\ calm' \subseteq calm \cup {j}
  BY <1>3, <1>6, <1>7 DEF Same, LaunchInv, Shapes
<1>9. JobOk(j)'
  BY <1>3, <1>6, <1>8 DEF JobOk
<1>10. j \in Launch => TurnConfirmed(j)'
  <2>1. seen'[j] # Unseen /\ seen'[j].model = job[j].model
    BY <1>7 DEF Reports, Unseen, NoSession, Listed, Unlisted
  <2> QED BY <1>4, <1>6, <1>7, <1>16, <2>1 DEF TurnConfirmed
<1>11. j \in Launch => AsksForPins(j)'
  <2>1. SUFFICES ASSUME j \in Launch PROVE AsksForPins(j)'
    OBVIOUS
  <2>2. /\ job[j].at \in {"initial", "confirming"} /\ AsksForPins(j) /\ to = "turn"
        /\ Conversation(j)' = Conversation(j)
    BY <1>1, <1>3, <1>6, <2>1 DEF At, Conversation
  <2>3. /\ job[j].talks = Conversation(j) /\ job[j].asked.model \in {Null, job[j].model}
        /\ job[j].pins.model \in {Omitted, job[j].asked.model}
        /\ job[j].pins.effort \in {Omitted, job[j].asked.effort}
    BY <2>2 DEF AsksForPins, At, Live
  <2> QED BY <1>6, <2>2, <2>3 DEF AsksForPins, At
<1>12. j \in Probe => ProbeConfirmed(j)'
  BY <1>1, <1>3, <1>5, <1>6 DEF ProbeConfirmed, At
<1>13. j \in calm' => CalmSession(j)'
  BY <1>1, <1>6 DEF CalmSession, At
<1>14. j \in calm' /\ j \in Launch => CalmLaunch(j)'
  BY <1>1, <1>3, <1>6, <1>8 DEF CalmLaunch, At
<1>15. j \in calm' /\ j \in Probe => CalmProbe(j)'
  BY <1>6, <1>8 DEF CalmProbe
<1> QED BY <1>6, <1>7, <1>8, <1>9, <1>10, <1>11, <1>12, <1>13, <1>14, <1>15, StepOfOne

LEMMA InitialStep ==
    ASSUME LaunchInv, NEW j \in Job, Initial(j)
    PROVE  LaunchInv'
<1>1. /\ At(j, {"initial"}) /\ UNCHANGED <<harness, baseline, session, calm>>
      /\ Reads(j)
  BY DEF Initial, Smooth
<1>2. /\ DOMAIN job = Job /\ JobOk(j) /\ DOMAIN session = Job /\ DOMAIN seen = Job
      /\ j \in calm => CalmSession(j) /\ session[j].listing = harness.listing
      /\ j \in calm /\ j \in Launch => CalmLaunch(j) /\ session[j].model = job[j].model
      /\ j \in calm /\ j \in Probe => CalmProbe(j)
      /\ j \in Launch => AsksForPins(j) /\ j \notin Probe
      /\ j \in Probe => ProbeConfirmed(j) /\ job[j].observed = Nothing
  BY <1>1, LaunchAssumption DEF LaunchInv, Shapes, CalmSession, CalmLaunch, ProbeConfirmed, At
<1>3. DOMAIN seen' = Job /\ \A k \in Job \ {j} : seen'[k] = seen[k]
  BY <1>1, <1>2 DEF Reads
<1>4. At(j, Live \ {"turn"}) /\ At(j, {"initial", "confirming"})
  BY <1>1 DEF At, Live
<1>5. Offering(j) = Offers(session[j].listing, job[j].asked.effort)
  BY DEF Offering, Offers
<1>6. CASE ~Reports(j, job[j].model)
  <2>1. Fails(j)
    BY <1>6 DEF Initial
  <2>2. j \in calm /\ j \in Launch => ~Confirmable(harness.listing, job[j].asked.effort)
    BY <1>2, <1>6 DEF Reports, Confirmable
  <2> QED BY <1>1, <1>3, <1>4, <2>1, <2>2, FailsKeeps
<1>7. CASE Reports(j, job[j].model) /\ job[j].asked.effort = Null
  <2>1. Confirms(j)
    BY <1>7 DEF Initial
  <2>2. j \in calm => Confirmable(harness.listing, job[j].asked.effort)
    BY <1>2, <1>7 DEF Reports, Confirmable
  <2> QED BY <1>1, <1>4, <1>7, <2>1, <2>2, ConfirmsKeeps
<1>8. CASE Reports(j, job[j].model) /\ job[j].asked.effort # Null /\ Offering(j) = {}
  <2>1. Fails(j)
    BY <1>8 DEF Initial
  <2>2. j \in calm /\ j \in Launch => ~Confirmable(harness.listing, job[j].asked.effort)
    BY <1>2, <1>5, <1>8 DEF Confirmable
  <2> QED BY <1>1, <1>3, <1>4, <2>1, <2>2, FailsKeeps
<1>9. CASE Reports(j, job[j].model) /\ job[j].asked.effort # Null /\ Offering(j) # {}
  <2>1. PICK o \in Offering(j) : job' = [job EXCEPT ![j].at = "setting", ![j].selector = o.id]
    BY <1>9 DEF Initial
  <2>2. /\ DOMAIN job' = Job /\ DOMAIN job'[j] = Fields
        /\ \A k \in Job \ {j} : job'[k] = job[k]
        /\ job'[j].at = "setting" /\ job'[j].pins = job[j].pins /\ job'[j].asked = job[j].asked
        /\ job'[j].model = job[j].model
        /\ job'[j].resumes = job[j].resumes /\ job'[j].talks = job[j].talks
        /\ job'[j].observed = job[j].observed /\ job'[j].selector = o.id
    BY <1>2, <2>1 DEF JobOk, Fields
  <2>3. /\ \A k \in Job \ {j} : Same(k)
        /\ harness' = harness /\ session'[j] = session[j] /\ DOMAIN session' = Job
        /\ baseline' \in Identity \cup {Nothing} /\ calm' \subseteq calm \cup {j}
    BY <1>1, <1>2, <1>3, <2>2 DEF Same, LaunchInv, Shapes
  <2>4. JobOk(j)'
    BY <1>2, <2>2, <2>3 DEF JobOk
  <2>5. j \in Launch => AsksForPins(j)' /\ TurnConfirmed(j)'
    BY <1>1, <1>2, <2>2 DEF AsksForPins, TurnConfirmed, Conversation, At, Live
  <2>6. j \in Probe => ProbeConfirmed(j)'
    BY <1>2, <2>2 DEF ProbeConfirmed, At
  <2>7. j \in calm' => CalmSession(j)'
    <3>1. SUFFICES ASSUME j \in calm' PROVE CalmSession(j)'
      OBVIOUS
    <3>2. /\ session[j].listing = harness.listing /\ session[j].model = job[j].model
          /\ Listed(harness.listing) /\ o \in Offers(harness.listing, job[j].asked.effort)
      BY <1>1, <1>2, <1>5, <1>9, <3>1 DEF Reports
    <3> QED BY <2>2, <2>3, <3>2 DEF CalmSession, At
  <2>8. j \in calm' /\ j \in Launch => CalmLaunch(j)'
    BY <1>1, <1>2, <2>2, <2>3 DEF CalmLaunch, At
  <2>9. j \in calm' /\ j \in Probe => CalmProbe(j)'
    BY <1>1, <1>2, <2>2, <2>3 DEF CalmProbe
  <2> QED BY <1>3, <2>2, <2>3, <2>4, <2>5, <2>6, <2>7, <2>8, <2>9, StepOfOne
<1> QED BY <1>6, <1>7, <1>8, <1>9

\* A setting leaves a list of options a list of options.
LEMMA SettingKeepsOptions ==
    ASSUME NEW options, IsFiniteSet(options), \A o \in options : IsOption(o),
           NEW id, NEW effort
    PROVE  /\ IsFiniteSet(AllAfter(options, id, effort))
           /\ \A p \in AllAfter(options, id, effort) : IsOption(p)
<1>1. IsFiniteSet(AllAfter(options, id, effort))
  BY SettingKeepsFinite
<1>2. \A o \in options : IsOption(After(o, id, effort))
  BY DEF IsOption, After
<1> QED BY <1>1, <1>2 DEF AllAfter

\* A setting that was applied is what a confirmation asks for.
LEMMA SetIsConfirmed ==
    ASSUME NEW listing, Listed(listing), Advertised(listing), NEW id, NEW effort,
           NEW o \in Offers(listing, effort), o.id = id,
           NEW after, after.options = AllAfter(listing.options, id, effort)
    PROVE  \E p \in Offers(after, effort) : p.id = id /\ p.current = effort
<1>1. /\ IsFiniteSet(listing.options) /\ \A x \in listing.options : IsOption(x)
  BY DEF Advertised
<1>2. /\ o \in Selectors(listing.options) /\ Cardinality(Selectors(listing.options)) = 1
      /\ effort \in o.values
  BY DEF Offers
<1>3. Selectors(listing.options) \subseteq listing.options
  BY SelectorsAreOptions
<1>4. Selectors(listing.options) = {o}
  <2>1. IsFiniteSet(Selectors(listing.options))
    BY <1>1, <1>3, FS_Subset
  <2>2. \E x : Selectors(listing.options) = {x}
    BY <1>2, <2>1, FS_Singleton
  <2> QED BY <1>2, <2>2
<1> DEFINE p == After(o, id, effort)
<1>5. Selectors(after.options) = {p}
  <2>1. Selectors(after.options) = AllAfter(Selectors(listing.options), id, effort)
    BY <1>1, SettingKeepsSelectors
  <2>2. AllAfter({o}, id, effort) = {p}
    BY DEF AllAfter
  <2> QED BY <1>4, <2>1, <2>2
<1>6. p.id = o.id /\ p.values = o.values /\ p.current = effort
  BY <1>1, <1>2, <1>3, SettingKeepsOption
<1>7. Cardinality({p}) = 1
  BY FS_Singleton
<1> HIDE DEF p
<1> QED BY <1>2, <1>5, <1>6, <1>7 DEF Offers

LEMMA SetStep ==
    ASSUME LaunchInv, NEW j \in Job, Set(j)
    PROVE  LaunchInv'
<1>1. /\ At(j, {"setting"}) /\ UNCHANGED <<harness, baseline>>
      /\ Goes(j, "confirming")
      /\ seen' = [seen EXCEPT ![j] = Unseen]
      /\ \/ /\ session' = [session EXCEPT ![j].listing.options =
                  {IF o.id = job[j].selector THEN [o EXCEPT !.current = job[j].asked.effort]
                   ELSE o : o \in @}]
            /\ calm' = calm
         \/ session' = session /\ calm' = {}
  BY DEF Set, Smooth, Trouble
<1>2. /\ DOMAIN job = Job /\ JobOk(j) /\ DOMAIN session = Job /\ DOMAIN seen = Job
      /\ SessionOk(session[j])
      /\ j \in calm => CalmSession(j)
      /\ j \in calm /\ j \in Launch => CalmLaunch(j)
      /\ j \in calm /\ j \in Probe => CalmProbe(j)
      /\ j \in Launch => AsksForPins(j) /\ j \notin Probe
      /\ j \in Probe => ProbeConfirmed(j)
  BY <1>1, LaunchAssumption DEF LaunchInv, Shapes, JobOk
<1>3. DOMAIN seen' = Job /\ \A k \in Job \ {j} : seen'[k] = seen[k]
  BY <1>1, <1>2
<1>4. /\ DOMAIN job' = Job /\ DOMAIN job'[j] = Fields
      /\ \A k \in Job \ {j} : job'[k] = job[k]
      /\ job'[j].at = "confirming" /\ job'[j].pins = job[j].pins /\ job'[j].asked = job[j].asked
      /\ job'[j].model = job[j].model
      /\ job'[j].resumes = job[j].resumes /\ job'[j].talks = job[j].talks
      /\ job'[j].observed = job[j].observed /\ job'[j].selector = job[j].selector
  BY <1>1, <1>2 DEF Goes, JobOk, Fields
<1>5. /\ DOMAIN session' = Job /\ \A k \in Job \ {j} : session'[k] = session[k]
      /\ SessionOk(session'[j])
      /\ \/ calm' = {}
         \/ /\ session'[j].model = session[j].model
            /\ session'[j].listing.is = session[j].listing.is
            /\ session'[j].listing.options =
                  AllAfter(session[j].listing.options, job[j].selector, job[j].asked.effort)
  <2>1. CASE session' = session /\ calm' = {}
    BY <1>2, <2>1
  <2>2. CASE session' = [session EXCEPT ![j].listing.options =
                {IF o.id = job[j].selector THEN [o EXCEPT !.current = job[j].asked.effort]
                 ELSE o : o \in @}]
    <3> DEFINE AfterSetting == AllAfter(session[j].listing.options, job[j].selector, job[j].asked.effort)
    <3>1. PICK options : options = AfterSetting
      OBVIOUS
    <3>2. session' = [session EXCEPT ![j].listing.options = options]
      BY <2>2, <3>1 DEF AllAfter, After
    <3>3. Listed(session[j].listing) => IsFiniteSet(options) /\ \A p \in options : IsOption(p)
      <4>1. SUFFICES ASSUME Listed(session[j].listing)
                     PROVE  IsFiniteSet(options) /\ \A p \in options : IsOption(p)
        OBVIOUS
      <4>2. PICK offered : offered = session[j].listing.options
        OBVIOUS
      <4>3. IsFiniteSet(offered) /\ \A o \in offered : IsOption(o)
        BY <1>2, <4>1, <4>2 DEF SessionOk, Advertised
      <4>4. PICK id, effort : id = job[j].selector /\ effort = job[j].asked.effort
        OBVIOUS
      <4>5. options = AllAfter(offered, id, effort)
        BY <3>1, <4>2, <4>4
      <4> QED BY <4>3, <4>5, SettingKeepsOptions
    <3> HIDE DEF AfterSetting
    <3>4. /\ DOMAIN session' = Job /\ \A k \in Job \ {j} : session'[k] = session[k]
          /\ DOMAIN session'[j] = {"model", "listing"} /\ session'[j].model = session[j].model
          /\ DOMAIN session'[j].listing = {"is", "options"}
          /\ session'[j].listing.is = session[j].listing.is
          /\ session'[j].listing.options = options
      BY <1>2, <3>2 DEF SessionOk
    <3>5. SessionOk(session'[j])
      BY <1>2, <3>3, <3>4 DEF SessionOk, Advertised, Listed
    <3> QED BY <3>1, <3>4, <3>5 DEF AfterSetting
  <2> QED BY <1>1, <2>1, <2>2
<1>6. /\ \A k \in Job \ {j} : Same(k)
      /\ harness' = harness
      /\ baseline' \in Identity \cup {Nothing} /\ calm' \subseteq calm \cup {j}
  BY <1>1, <1>3, <1>4, <1>5 DEF Same, LaunchInv, Shapes
<1>7. JobOk(j)'
  BY <1>2, <1>4, <1>5 DEF JobOk
<1>8. j \in Launch => AsksForPins(j)' /\ TurnConfirmed(j)'
  BY <1>1, <1>2, <1>4 DEF AsksForPins, TurnConfirmed, Conversation, At, Live
<1>9. j \in Probe => ProbeConfirmed(j)'
  BY <1>1, <1>2, <1>4 DEF ProbeConfirmed, At
<1>10. j \in calm' => CalmSession(j)'
  <2>1. SUFFICES ASSUME j \in calm' PROVE CalmSession(j)'
    OBVIOUS
  <2>2. j \in calm /\ calm' = calm
    BY <1>1, <2>1
  <2> DEFINE effort == job[j].asked.effort
  <2>3. /\ session[j].listing = harness.listing /\ session[j].model = job[j].model
        /\ Listed(harness.listing)
        /\ \E o \in Offers(harness.listing, effort) : o.id = job[j].selector
    BY <1>1, <1>2, <2>2 DEF CalmSession, At
  <2>4. PICK o \in Offers(harness.listing, effort) : o.id = job[j].selector
    BY <2>3
  <2>5. /\ session'[j].model = session[j].model
        /\ session'[j].listing.is = harness.listing.is
        /\ session'[j].listing.options = AllAfter(harness.listing.options, job[j].selector, effort)
    BY <1>5, <2>1, <2>2, <2>3
  <2>6. Advertised(harness.listing)
    BY <1>2, <2>3 DEF SessionOk
  <2>7. \E p \in Offers(session'[j].listing, effort) : p.id = job[j].selector /\ p.current = effort
    BY <2>3, <2>4, <2>5, <2>6, SetIsConfirmed
  <2>8. Offering(j)' = Offers(session'[j].listing, effort)
    BY <1>4 DEF Offering, Offers
  <2>9. Reports(j, job[j].model)'
    BY <1>4, <2>3, <2>5 DEF Reports, Listed
  <2>10. Confirmable(harness.listing, effort)
    BY <2>3 DEF Confirmable
  <2> QED BY <1>4, <1>6, <2>7, <2>8, <2>9, <2>10 DEF CalmSession, At
<1>11. j \in calm' /\ j \in Launch => CalmLaunch(j)'
  BY <1>1, <1>2, <1>4 DEF CalmLaunch, At
<1>12. j \in calm' /\ j \in Probe => CalmProbe(j)'
  BY <1>1, <1>2, <1>4, <1>6 DEF CalmProbe
<1> QED BY <1>3, <1>4, <1>5, <1>6, <1>7, <1>8, <1>9, <1>10, <1>11, <1>12, StepOfOne

LEMMA ConfirmStep ==
    ASSUME LaunchInv, NEW j \in Job, Confirm(j)
    PROVE  LaunchInv'
<1>1. /\ At(j, {"confirming"}) /\ UNCHANGED <<harness, baseline, session, calm>>
      /\ Reads(j)
  BY DEF Confirm, Smooth
<1>2. DOMAIN seen = Job /\ (j \in calm => CalmSession(j))
  BY DEF LaunchInv, Shapes
<1>3. DOMAIN seen' = Job /\ \A k \in Job \ {j} : seen'[k] = seen[k]
  BY <1>1, <1>2 DEF Reads
<1>4. At(j, Live \ {"turn"}) /\ At(j, {"initial", "confirming"})
  BY <1>1 DEF At, Live
<1> DEFINE Met == /\ Reports(j, job[j].model)
                  /\ \E o \in Offering(j) : o.id = job[j].selector /\ o.current = job[j].asked.effort
<1>5. j \in calm => Met /\ Confirmable(harness.listing, job[j].asked.effort)
  BY <1>1, <1>2 DEF CalmSession, At
<1>6. CASE Met
  <2>1. Confirms(j)
    BY <1>6 DEF Confirm
  <2>2. \E o \in Selectors(session[j].listing.options) : o.current = job[j].asked.effort
    BY <1>6 DEF Offering
  <2> QED BY <1>1, <1>4, <1>5, <1>6, <2>1, <2>2, ConfirmsKeeps
<1>7. CASE ~Met
  <2>1. Fails(j)
    BY <1>7 DEF Confirm
  <2>2. j \notin calm'
    BY <1>1, <1>5, <1>7
  <2> HIDE DEF Met
  <2> QED BY <1>1, <1>3, <1>4, <2>1, <2>2, FailsKeeps
<1> QED BY <1>6, <1>7

LEMMA RefusedStep ==
    ASSUME LaunchInv, NEW j \in Job, Refused(j)
    PROVE  LaunchInv'
<1>1. /\ At(j, Live \ {"turn"}) /\ Fails(j)
      /\ UNCHANGED <<harness, baseline, session, seen>> /\ calm' = {}
  BY DEF Refused, Trouble
<1>2. DOMAIN seen' = Job
  BY <1>1 DEF LaunchInv, Shapes
<1> QED BY <1>1, <1>2, FailsKeeps

LEMMA DeadlineStep ==
    ASSUME LaunchInv, NEW p \in Probe, Deadline(p)
    PROVE  LaunchInv'
<1>1. /\ At(p, Live) /\ Fails(p)
      /\ UNCHANGED <<harness, baseline, session, seen, calm>>
  BY DEF Deadline, Smooth
<1>2. p \in Job /\ p \notin Launch /\ ProbeConfirmed(p) /\ DOMAIN seen' = Job
  BY <1>1, LaunchAssumption DEF LaunchInv, Shapes, Job
<1>3. At(p, Live \ {"turn"})
  BY <1>1, <1>2 DEF ProbeConfirmed, At, Live
<1> QED BY <1>1, <1>2, <1>3, FailsKeeps
-----------------------------------------------------------------------------
(* Observations.                                                           *)

LEMMA ObserveStep ==
    ASSUME LaunchInv, NEW p \in Probe, Observe(p)
    PROVE  LaunchInv'
<1>1. p \in Job /\ p \notin Launch
  BY LaunchAssumption DEF Job
<1>2. PICK identity \in Identity \cup {Nothing} :
         /\ job' = [job EXCEPT ![p].at = "reading", ![p].asked = identity,
                               ![p].model = identity.model]
         /\ Opened(p, identity.model)
  BY DEF Observe
<1>3. At(p, {"idle"}) /\ UNCHANGED <<harness, baseline, seen>> /\ calm' = calm \cup {p}
  BY DEF Observe
<1>4. /\ DOMAIN job = Job /\ JobOk(p) /\ DOMAIN seen = Job /\ ProbeConfirmed(p)
      /\ baseline' \in Identity \cup {Nothing}
  BY <1>1, <1>3 DEF LaunchInv, Shapes
<1>5. identity \in Asked /\ identity.model \in Model \cup {Null}
  BY DEF Identity, Nothing, Asked
<1>6. /\ DOMAIN session' = Job /\ \A k \in Job \ {p} : session'[k] = session[k]
      /\ SessionOk(session'[p]) /\ session'[p].listing = harness.listing
  BY <1>1, <1>2, <1>5, OpenedSession
<1>7. /\ DOMAIN job' = Job /\ DOMAIN job'[p] = Fields
      /\ \A k \in Job \ {p} : job'[k] = job[k]
      /\ job'[p].at = "reading" /\ job'[p].pins = job[p].pins /\ job'[p].asked = identity
      /\ job'[p].model = identity.model /\ job'[p].observed = job[p].observed
  BY <1>1, <1>2, <1>4 DEF JobOk, Fields
<1>8. \A k \in Job \ {p} : Same(k)
  BY <1>3, <1>6, <1>7 DEF Same
<1>9. JobOk(p)'
  BY <1>4, <1>5, <1>6, <1>7 DEF JobOk
<1>10. job'[p].observed = Nothing
  BY <1>3, <1>4, <1>7 DEF ProbeConfirmed, At
<1>11. ProbeConfirmed(p)'
  BY <1>7, <1>10 DEF ProbeConfirmed, At
<1>12. CalmSession(p)' /\ CalmProbe(p)'
  BY <1>3, <1>6, <1>7, <1>10 DEF CalmSession, CalmProbe, At
<1>13. DOMAIN seen' = Job /\ harness' = harness
  BY <1>3, <1>4
<1> QED BY <1>1, <1>3, <1>4, <1>6, <1>7, <1>8, <1>9, <1>11, <1>12, <1>13, StepOfOne

LEMMA ReadStatusStep ==
    ASSUME LaunchInv, NEW p \in Probe, ReadStatus(p)
    PROVE  LaunchInv'
<1>1. p \in Job /\ p \notin Launch
  BY LaunchAssumption DEF Job
<1>2. /\ At(p, {"reading"}) /\ UNCHANGED <<harness, baseline, session, calm>>
      /\ Reads(p)
  BY DEF ReadStatus, Smooth
<1>3. /\ DOMAIN job = Job /\ JobOk(p) /\ DOMAIN seen = Job /\ DOMAIN session = Job
      /\ ProbeConfirmed(p) /\ baseline' \in Identity \cup {Nothing}
      /\ p \in calm => CalmSession(p) /\ CalmProbe(p)
  BY <1>1, <1>2 DEF LaunchInv, Shapes
<1>4. DOMAIN seen' = Job /\ \A k \in Job \ {p} : seen'[k] = seen[k]
  BY <1>2, <1>3 DEF Reads
<1>5. CASE session[p].listing = Garbled
  <2>1. Fails(p) /\ At(p, Live \ {"turn"})
    BY <1>2, <1>5 DEF ReadStatus, At, Live
  <2> QED BY <1>1, <1>2, <1>4, <2>1, FailsKeeps
<1>6. CASE session[p].listing # Garbled
  <2>1. PICK to \in {"discarding", "initial"} :
           job' = [job EXCEPT ![p].found = session[p], ![p].at = to]
    BY <1>6 DEF ReadStatus
  <2>2. /\ DOMAIN job' = Job /\ DOMAIN job'[p] = Fields
        /\ \A k \in Job \ {p} : job'[k] = job[k]
        /\ job'[p].at = to /\ job'[p].pins = job[p].pins /\ job'[p].asked = job[p].asked
        /\ job'[p].model = job[p].model
        /\ job'[p].observed = job[p].observed
    BY <1>1, <1>3, <2>1 DEF JobOk, Fields
  <2>3. /\ \A k \in Job \ {p} : Same(k)
        /\ harness' = harness /\ session'[p] = session[p] /\ DOMAIN session' = Job
        /\ calm' \subseteq calm \cup {p}
    BY <1>2, <1>3, <1>4, <2>2 DEF Same
  <2>4. JobOk(p)'
    BY <1>3, <2>2, <2>3 DEF JobOk
  <2>5. ProbeConfirmed(p)'
    BY <1>2, <1>3, <2>2 DEF ProbeConfirmed, At
  <2>6. p \in calm' => CalmSession(p)' /\ CalmProbe(p)'
    BY <1>2, <1>3, <2>2, <2>3 DEF CalmSession, CalmProbe, At
  <2> QED BY <1>1, <1>3, <1>4, <2>2, <2>3, <2>4, <2>5, <2>6, StepOfOne
<1> QED BY <1>5, <1>6

LEMMA DiscardStep ==
    ASSUME LaunchInv, NEW p \in Probe, Discard(p)
    PROVE  LaunchInv'
<1>1. p \in Job /\ p \notin Launch
  BY LaunchAssumption DEF Job
<1>2. /\ At(p, {"discarding"}) /\ UNCHANGED <<harness, baseline, seen>>
      /\ \/ /\ job' = [job EXCEPT ![p].at = "observed", ![p].candidate = Projected(p)]
            /\ session' = [session EXCEPT ![p] = NoSession]
            /\ calm' = calm
         \/ /\ job' = [job EXCEPT ![p].at = "observed", ![p].observed = Nothing, ![p].applied = FALSE]
            /\ session' = session /\ calm' = {}
  BY DEF Discard, Smooth, Trouble
<1>3. /\ DOMAIN job = Job /\ JobOk(p) /\ DOMAIN seen = Job /\ DOMAIN session = Job
      /\ ProbeConfirmed(p) /\ baseline' \in Identity \cup {Nothing}
      /\ p \in calm => CalmSession(p) /\ CalmProbe(p)
      /\ DOMAIN seen' = Job /\ harness' = harness
  BY <1>1, <1>2 DEF LaunchInv, Shapes
<1>4. /\ DOMAIN job' = Job /\ DOMAIN job'[p] = Fields
      /\ \A k \in Job \ {p} : job'[k] = job[k]
      /\ job'[p].at = "observed" /\ job'[p].pins = job[p].pins /\ job'[p].asked = job[p].asked
      /\ job'[p].model = job[p].model
      /\ job'[p].observed \in {Nothing, job[p].observed}
      /\ calm' = {} => job'[p].observed \in {Nothing, job[p].observed}
  <2>1. CASE job' = [job EXCEPT ![p].at = "observed", ![p].candidate = Projected(p)]
    <3>1. PICK candidate : job' = [job EXCEPT ![p].at = "observed", ![p].candidate = candidate]
      BY <2>1
    <3> QED BY <1>1, <1>3, <3>1 DEF JobOk, Fields
  <2>2. CASE job' = [job EXCEPT ![p].at = "observed", ![p].observed = Nothing, ![p].applied = FALSE]
    BY <1>1, <1>3, <2>2 DEF JobOk, Fields
  <2> QED BY <1>2, <2>1, <2>2
<1>5. /\ DOMAIN session' = Job /\ \A k \in Job \ {p} : session'[k] = session[k]
      /\ session'[p] \in {NoSession, session[p]}
  <2>1. CASE session' = [session EXCEPT ![p] = NoSession]
    BY <1>1, <1>3, <2>1
  <2>2. CASE session' = session
    BY <1>1, <1>3, <2>2
  <2> QED BY <1>2, <2>1, <2>2
<1>6. \A k \in Job \ {p} : Same(k)
  BY <1>2, <1>4, <1>5 DEF Same
<1>7. JobOk(p)'
  <2>1. SessionOk(NoSession)
    BY DEF SessionOk, NoSession, Unlisted, Advertised, Listed
  <2> QED BY <1>3, <1>4, <1>5, <2>1 DEF JobOk
<1>8. job'[p].observed # Nothing => session'[p] = NoSession
  <2>1. CASE session' = [session EXCEPT ![p] = NoSession]
    BY <1>1, <1>3, <2>1
  <2>2. CASE job' = [job EXCEPT ![p].at = "observed", ![p].observed = Nothing, ![p].applied = FALSE]
    BY <1>1, <1>3, <2>2 DEF JobOk, Fields
  <2> QED BY <1>2, <2>1, <2>2
<1>9. ProbeConfirmed(p)'
  BY <1>3, <1>4, <1>8 DEF ProbeConfirmed, At
<1>10. p \in calm' => CalmSession(p)' /\ CalmProbe(p)'
  <2>1. p \in calm' => p \in calm
    BY <1>2
  <2> QED BY <1>3, <1>4, <2>1 DEF CalmSession, CalmProbe, At
<1>11. calm' \subseteq calm \cup {p}
  BY <1>2
<1> QED BY <1>1, <1>3, <1>4, <1>5, <1>6, <1>7, <1>9, <1>10, <1>11, StepOfOne

-----------------------------------------------------------------------------
(* The owner's approval, and what happens outside.                         *)

LEMMA ApproveStep ==
    ASSUME LaunchInv, Approve
    PROVE  LaunchInv'
<1>1. /\ UNCHANGED <<harness, job, session, seen>> /\ calm' = calm
      /\ baseline' \in Identity \cup {Nothing}
  BY LaunchAssumption DEF Approve, Smooth, Identity
<1> QED BY <1>1, StepOfNone

LEMMA ReconfigureStep ==
    ASSUME LaunchInv, Reconfigure
    PROVE  LaunchInv'
<1>1. /\ calm' = {} /\ UNCHANGED <<baseline, job, seen>>
      /\ baseline \in Identity \cup {Nothing}
  BY DEF Reconfigure, Trouble, LaunchInv, Shapes
<1>2. PICK as \in [model : Model, listing : Listing] :
         \/ harness' = as /\ UNCHANGED session
         \/ \E j \in Job : /\ At(j, Live \ {"turn"})
                           /\ session' = [session EXCEPT ![j] = as] /\ UNCHANGED harness
  BY DEF Reconfigure
<1>3. CASE harness' = as /\ UNCHANGED session
  BY <1>1, <1>2, <1>3, StepOfNone
<1>4. ASSUME NEW j \in Job, At(j, Live \ {"turn"}),
             session' = [session EXCEPT ![j] = as], UNCHANGED harness
      PROVE  LaunchInv'
  <2>1. /\ DOMAIN session = Job /\ DOMAIN job' = Job /\ DOMAIN seen' = Job /\ JobOk(j)
        /\ j \in Launch => AsksForPins(j) /\ TurnConfirmed(j)
        /\ j \in Probe => ProbeConfirmed(j)
    BY <1>1 DEF LaunchInv, Shapes
  <2>2. /\ DOMAIN session' = Job /\ session'[j] = as
        /\ \A k \in Job \ {j} : session'[k] = session[k]
    BY <1>4, <2>1
  <2>3. \A k \in Job \ {j} : Same(k)
    BY <1>1, <2>2 DEF Same
  <2>4. SessionOk(as)
    BY LaunchAssumption DEF SessionOk, Advertised
  <2>5. JobOk(j)'
    BY <1>1, <2>1, <2>2, <2>4 DEF JobOk
  <2>6. j \in Launch => AsksForPins(j)' /\ TurnConfirmed(j)'
    BY <1>1, <2>1 DEF AsksForPins, TurnConfirmed, Conversation, At
  <2>7. j \in Probe => ProbeConfirmed(j)'
    BY <1>1, <1>4, <2>1 DEF ProbeConfirmed, At, Live
  <2> QED BY <1>1, <1>4, <2>1, <2>2, <2>3, <2>5, <2>6, <2>7, StepOfOne
<1> QED BY <1>2, <1>3, <1>4

LEMMA LoseRecordStep ==
    ASSUME LaunchInv, NEW l \in Launch, LoseRecord(l)
    PROVE  LaunchInv'
<1>1. UNCHANGED <<harness, baseline, job, session, seen>> /\ calm' = {}
      /\ baseline \in Identity \cup {Nothing}
  BY DEF LoseRecord, Trouble, LaunchInv, Shapes
<1> QED BY <1>1, StepOfNone

LEMMA LaunchInvInductive == LaunchInv /\ [Next]_vars => LaunchInv'
<1> SUFFICES ASSUME LaunchInv, [Next]_vars PROVE LaunchInv'
  OBVIOUS
<1>1. CASE Approve \/ Reconfigure
  BY <1>1, ApproveStep, ReconfigureStep
<1>2. ASSUME NEW l \in Launch, Resolve(l) \/ Ensure(l) \/ Choose(l) \/ LoseRecord(l)
      PROVE  LaunchInv'
  BY <1>2, ResolveStep, EnsureStep, ChooseStep, LoseRecordStep
<1>3. ASSUME NEW l \in Launch, NEW prior \in Launch, Continue(l, prior) PROVE LaunchInv'
  BY <1>3, ContinueStep
<1>4. ASSUME NEW j \in Job, Initial(j) \/ Set(j) \/ Confirm(j) \/ Refused(j) PROVE LaunchInv'
  BY <1>4, InitialStep, SetStep, ConfirmStep, RefusedStep
<1>5. ASSUME NEW p \in Probe, Observe(p) \/ ReadStatus(p) \/ Deadline(p) \/ Discard(p)
      PROVE  LaunchInv'
  BY <1>5, ObserveStep, ReadStatusStep, DeadlineStep, DiscardStep
<1>6. CASE UNCHANGED vars
  <2>1. /\ UNCHANGED <<harness, baseline, job, session, seen>> /\ calm' = calm
        /\ baseline \in Identity \cup {Nothing}
    BY <1>6 DEF vars, LaunchInv, Shapes
  <2> QED BY <2>1, StepOfNone
<1> QED BY <1>1, <1>2, <1>3, <1>4, <1>5, <1>6 DEF Next

LEMMA LaunchInvInit == Init => LaunchInv
<1> SUFFICES ASSUME Init PROVE LaunchInv
  OBVIOUS
<1>1. /\ harness \in [model : Model, listing : Listing] /\ baseline = Nothing
      /\ job = [j \in Job |-> Waiting] /\ session = [j \in Job |-> NoSession]
      /\ seen = [j \in Job |-> Unseen] /\ calm = {}
  BY DEF Init
<1>2. SessionOk(NoSession) /\ SessionOk(harness)
  BY <1>1, LaunchAssumption DEF SessionOk, NoSession, Unlisted, Advertised, Listed
<1>3. /\ DOMAIN Waiting = Fields /\ Waiting.at = "idle" /\ Waiting.resumes = Null
      /\ Waiting.pins = [model |-> Omitted, effort |-> Omitted] /\ Waiting.asked = Nothing
      /\ Waiting.observed = Nothing /\ Waiting.talks = Null /\ Waiting.model = Null
  BY DEF Waiting, Fields
<1>4. /\ Waiting.pins \in Pinned /\ Waiting.asked \in Asked
  BY <1>3 DEF Pinned, Asked, Nothing
<1>5. \A j \in Job : job[j] = Waiting /\ session[j] = NoSession
  BY <1>1
<1> HIDE DEF Waiting
<1>6. Shapes
  BY <1>1, <1>2, <1>3, <1>4, <1>5 DEF Shapes, JobOk
<1>7. \A j \in Job : AsksForPins(j) /\ TurnConfirmed(j) /\ ProbeConfirmed(j)
  BY <1>3, <1>5 DEF AsksForPins, TurnConfirmed, ProbeConfirmed, At, Live, Nothing
<1>8. Launch \subseteq Job /\ Probe \subseteq Job
  BY DEF Job
<1> QED BY <1>1, <1>6, <1>7, <1>8 DEF LaunchInv

-----------------------------------------------------------------------------

LEMMA LaunchInvShows == LaunchInv => TurnsAreTheOnesAsked /\ ConfirmationsHold
<1> SUFFICES ASSUME LaunchInv PROVE TurnsAreTheOnesAsked /\ ConfirmationsHold
  OBVIOUS
<1>1. Launch \subseteq Job /\ Probe \subseteq Job
  BY DEF Job
<1>2. ASSUME NEW l \in Launch, At(l, {"turn"})
      PROVE  /\ seen[l] # Unseen /\ seen[l].model = job[l].observed.model
             /\ job[l].asked.model \in {Null, job[l].observed.model}
             /\ job[l].pins.model \in {Omitted, job[l].observed.model}
             /\ job[l].pins.effort \in Effort =>
                   job[l].applied /\ job[l].observed.effort = job[l].pins.effort
             /\ job[l].asked.effort # Null =>
                   job[l].applied /\ job[l].observed.effort = job[l].asked.effort
             /\ job[l].observed.effort # Null =>
                   \E o \in Selectors(seen[l].listing.options) : o.current = job[l].observed.effort
             /\ job[l].pins.effort = Null => ~job[l].applied
             /\ job[l].talks \in (IF job[l].resumes = Null THEN {l} ELSE {job[l].resumes})
  <2>1. AsksForPins(l) /\ TurnConfirmed(l) /\ job[l].asked \in Asked /\ job[l].pins \in Pinned
    BY <1>1 DEF LaunchInv, Shapes, JobOk
  <2>2. /\ job[l].pins.model \in {Omitted, job[l].asked.model}
        /\ job[l].pins.effort \in {Omitted, job[l].asked.effort}
        /\ job[l].asked.model \in {Null, job[l].model}
        /\ job[l].talks = Conversation(l)
    BY <1>2, <2>1 DEF AsksForPins, At, Live
  <2>3. Null \notin Effort /\ Omitted \notin Effort /\ Omitted # Null /\ Null \notin Model
    BY LaunchAssumption DEF Omitted, Null
  <2>4. job[l].pins.model \in {Omitted, job[l].model}
    BY <2>1, <2>2, <2>3 DEF Pinned
  <2>5. /\ seen[l] # Unseen /\ seen[l].model = job[l].model
        /\ job[l].observed.model = job[l].model
        /\ job[l].applied = (job[l].asked.effort # Null)
        /\ job[l].applied => job[l].observed.effort = job[l].asked.effort
        /\ job[l].observed.effort # Null =>
              \E o \in Selectors(seen[l].listing.options) : o.current = job[l].observed.effort
    BY <1>2, <2>1 DEF TurnConfirmed
  <2>6. /\ job[l].pins.effort \in Effort =>
              job[l].applied /\ job[l].observed.effort = job[l].pins.effort
        /\ job[l].pins.effort = Null => ~job[l].applied
    BY <2>2, <2>3, <2>5
  <2>7. job[l].talks \in (IF job[l].resumes = Null THEN {l} ELSE {job[l].resumes})
    BY <2>2 DEF Conversation
  <2> QED BY <2>2, <2>4, <2>5, <2>6, <2>7
<1>3. TurnsRunAsAsked
  BY <1>2 DEF TurnsRunAsAsked
<1>4. TurnsStayInTheirConversation
  BY <1>2 DEF TurnsStayInTheirConversation
<1>5. ConfirmedCandidatesLaunch
  <2>1. SUFFICES ASSUME NEW p \in Probe, NEW l \in Launch,
                        {p, l} \subseteq calm, At(p, {"observed"}), job[p].observed # Nothing,
                        At(l, {"failed"}),
                        [model |-> job[l].model, effort |-> job[l].asked.effort] = job[p].asked
                 PROVE  FALSE
    BY DEF ConfirmedCandidatesLaunch
  <2>2. CalmProbe(p) /\ CalmLaunch(l)
    BY <2>1 DEF LaunchInv
  <2>3. job[l].asked.effort = job[p].asked.effort
    BY <2>1
  <2> QED BY <2>1, <2>2, <2>3 DEF CalmProbe, CalmLaunch
<1>6. ConfirmationsAreClean
  BY DEF ConfirmationsAreClean, LaunchInv, ProbeConfirmed
<1> QED BY <1>3, <1>4, <1>5, <1>6 DEF TurnsAreTheOnesAsked, ConfirmationsHold

-----------------------------------------------------------------------------
(* Conversations.                                                          *)

\* A conversation is that of a run, and the rows of its runs ask for the same.
RowsAgree ==
    /\ \A l \in Launch : job[l].resumes # Null =>
          job[l].resumes \in Launch /\ ~At(job[l].resumes, {"idle"})
    /\ \A l, m \in Launch :
          ~At(l, {"idle"}) /\ ~At(m, {"idle"}) /\ Conversation(l) = Conversation(m) =>
             job[l].asked = job[m].asked

\* What is written of a run once it is asked for.
KeepsRow(l) ==
    /\ job'[l].asked = job[l].asked /\ job'[l].resumes = job[l].resumes
    /\ At(l, {"idle"}) <=> At(l, {"idle"})'

\* The rows stay as they are while the harness is asked.
LEMMA RowsAreKept ==
    ASSUME LaunchInv, NEW l \in Launch,
           \/ \E j \in Job : Initial(j) \/ Set(j) \/ Confirm(j) \/ Refused(j)
           \/ \E k \in Launch : Ensure(k) \/ Choose(k) \/ LoseRecord(k)
           \/ \E p \in Probe : Observe(p) \/ ReadStatus(p) \/ Deadline(p) \/ Discard(p)
           \/ Approve \/ Reconfigure \/ UNCHANGED vars
    PROVE  KeepsRow(l)
<1>1. /\ DOMAIN job = Job /\ \A j \in Job : DOMAIN job[j] = Fields
      /\ l \in Job /\ l \notin Probe /\ Launch \subseteq Job /\ Probe \subseteq Job
  BY LaunchAssumption DEF LaunchInv, Shapes, JobOk, Job
<1>2. ASSUME NEW j \in Job, NEW to, to # "idle", ~At(j, {"idle"}) \/ j # l, Goes(j, to)
      PROVE  KeepsRow(l)
  BY <1>1, <1>2 DEF Goes, KeepsRow, At, Fields
<1>3. ASSUME NEW j \in Job, Fails(j), ~At(j, {"idle"}) PROVE KeepsRow(l)
  BY <1>2, <1>3 DEF Fails
<1>4. ASSUME NEW j \in Job, Confirms(j), ~At(j, {"idle"}) PROVE KeepsRow(l)
  <2>1. PICK to, seenAs, applied :
           /\ job' = [job EXCEPT ![j].at = to, ![j].observed = seenAs, ![j].applied = applied]
           /\ to \in {"discarding", "turn"}
    BY <1>4 DEF Confirms
  <2> QED BY <1>1, <1>4, <2>1 DEF KeepsRow, At, Fields
<1>5. ASSUME NEW j \in Job, Initial(j) PROVE KeepsRow(l)
  <2>1. At(j, {"initial"}) /\ ~At(j, {"idle"})
    BY <1>5 DEF Initial, At
  <2>2. \/ Fails(j) \/ Confirms(j)
        \/ \E o \in Offering(j) : job' = [job EXCEPT ![j].at = "setting", ![j].selector = o.id]
    BY <1>5 DEF Initial
  <2>3. ASSUME NEW id, job' = [job EXCEPT ![j].at = "setting", ![j].selector = id]
        PROVE  KeepsRow(l)
    BY <1>1, <2>1, <2>3 DEF KeepsRow, At, Fields
  <2> QED BY <1>3, <1>4, <2>1, <2>2, <2>3
<1>6. ASSUME NEW j \in Job, Set(j) \/ Confirm(j) \/ Refused(j) PROVE KeepsRow(l)
  <2>1. ~At(j, {"idle"})
    BY <1>6 DEF Set, Confirm, Refused, At, Live
  <2> QED BY <1>2, <1>3, <1>4, <1>6, <2>1 DEF Set, Confirm, Refused
<1>7. ASSUME NEW k \in Launch, Ensure(k) PROVE KeepsRow(l)
  <2>1. ~At(k, {"idle"}) /\ k \in Job
    BY <1>1, <1>7 DEF Ensure, At
  <2>2. \/ Fails(k)
        \/ \E talks : \E to \in {"failed", "choosing", "initial"} :
              job' = [job EXCEPT ![k].at = to, ![k].talks = talks, ![k].model = job[k].asked.model]
    BY <1>7 DEF Ensure
  <2>3. ASSUME NEW to \in {"failed", "choosing", "initial"}, NEW talks, NEW model,
               job' = [job EXCEPT ![k].at = to, ![k].talks = talks, ![k].model = model]
        PROVE  KeepsRow(l)
    BY <1>1, <2>1, <2>3 DEF KeepsRow, At, Fields
  <2> QED BY <1>3, <2>1, <2>2, <2>3
<1>8. ASSUME NEW k \in Launch, Choose(k) PROVE KeepsRow(l)
  BY <1>1, <1>8 DEF Choose, KeepsRow, At, Fields
<1>9. ASSUME NEW p \in Probe, Observe(p) \/ ReadStatus(p) \/ Deadline(p) \/ Discard(p)
      PROVE  KeepsRow(l)
  <2>1. job'[l] = job[l]
    BY <1>1, <1>9 DEF Observe, ReadStatus, Deadline, Discard, Fails, Goes
  <2> QED BY <2>1 DEF KeepsRow, At
<1>10. ASSUME UNCHANGED job PROVE KeepsRow(l)
  BY <1>10 DEF KeepsRow, At
<1> QED BY <1>5, <1>6, <1>7, <1>8, <1>9, <1>10 DEF LoseRecord, Approve, Reconfigure, vars

LEMMA RowsAgreeInductive == LaunchInv /\ RowsAgree /\ [Next]_vars => RowsAgree'
<1> SUFFICES ASSUME LaunchInv, RowsAgree, [Next]_vars PROVE RowsAgree'
  OBVIOUS
<1>1. /\ DOMAIN job = Job /\ Launch \subseteq Job /\ \A j \in Job : DOMAIN job[j] = Fields
      /\ \A l \in Launch : AsksForPins(l) /\ l # Null
  BY LaunchAssumption DEF LaunchInv, Shapes, JobOk, Job
<1>2. CASE \A l \in Launch : KeepsRow(l)
  <2>1. \A l \in Launch : Conversation(l)' = Conversation(l)
    BY <1>2 DEF Conversation, KeepsRow
  <2> QED BY <1>2, <2>1 DEF RowsAgree, KeepsRow
<1>3. ASSUME NEW l \in Launch, Resolve(l) PROVE RowsAgree'
  <2>1. PICK pins, asked : job' = [job EXCEPT ![l].at = "queued", ![l].pins = pins, ![l].asked = asked]
    BY <1>3 DEF Resolve
  <2>2. /\ At(l, {"idle"}) /\ job[l].resumes = Null
        /\ job'[l].at = "queued" /\ job'[l].resumes = Null
        /\ \A k \in Launch \ {l} : job'[k] = job[k]
    <3>1. At(l, {"idle"}) /\ AsksForPins(l)
      BY <1>1, <1>3 DEF Resolve
    <3>2. job[l].resumes = Null
      BY <3>1 DEF AsksForPins
    <3>3. l \in DOMAIN job /\ {"at", "pins", "asked", "resumes"} \subseteq DOMAIN job[l]
      BY <1>1 DEF Fields
    <3> QED BY <1>1, <2>1, <3>1, <3>2, <3>3
  <2>3. \A m \in Launch \ {l} : ~At(m, {"idle"}) => Conversation(m) # l
    BY <2>2 DEF RowsAgree, Conversation
  <2>4. /\ Conversation(l)' = l
        /\ \A m \in Launch \ {l} : /\ Conversation(m)' = Conversation(m)
                                   /\ At(m, {"idle"})' <=> At(m, {"idle"})
    BY <2>2 DEF Conversation, At
  <2>5. \A m \in Launch : ~At(m, {"idle"}) => ~At(m, {"idle"})'
    BY <2>2 DEF At
  <2> QED BY <2>2, <2>3, <2>4, <2>5 DEF RowsAgree
<1>4. ASSUME NEW l \in Launch, NEW prior \in Launch, Continue(l, prior) PROVE RowsAgree'
  <2>1. PICK record : job' = [job EXCEPT ![l].at = "queued", ![l].pins = job[prior].pins,
                             ![l].asked = job[prior].asked, ![l].talks = job[prior].talks,
                             ![l].resumes = job[prior].talks, ![l].record = record]
    BY <1>4 DEF Continue, Carried
  <2>2. /\ At(l, {"idle"}) /\ ~At(prior, {"idle"}) /\ l # prior
        /\ job'[l].at = "queued" /\ job'[l].resumes = job[prior].talks
        /\ job'[l].asked = job[prior].asked
        /\ \A k \in Launch \ {l} : job'[k] = job[k]
    BY <1>1, <1>4, <2>1 DEF Continue, At, Fields
  <2>3. \A m \in Launch \ {l} : ~At(m, {"idle"}) => Conversation(m) # l
    BY <2>2 DEF RowsAgree, Conversation
  <2>4. /\ \A m \in Launch \ {l} : /\ Conversation(m)' = Conversation(m)
                                   /\ At(m, {"idle"})' <=> At(m, {"idle"})
        /\ \A m \in Launch : ~At(m, {"idle"}) => ~At(m, {"idle"})'
    BY <2>2 DEF Conversation, At
  <2>5. CASE job[prior].talks = Null
    <3>1. Conversation(l)' = l
      BY <2>2, <2>5 DEF Conversation
    <3> QED BY <2>2, <2>3, <2>4, <2>5, <3>1 DEF RowsAgree
  <2>6. CASE job[prior].talks # Null
    <3>1. job[prior].talks = Conversation(prior)
      BY <1>1, <2>2, <2>6 DEF AsksForPins
    <3>2. Conversation(prior) \in Launch /\ ~At(Conversation(prior), {"idle"})
      BY <2>2 DEF Conversation, RowsAgree
    <3>3. Conversation(l)' = Conversation(prior)
      BY <2>2, <2>6, <3>1 DEF Conversation
    <3> QED BY <2>2, <2>3, <2>4, <3>1, <3>2, <3>3 DEF RowsAgree
  <2> QED BY <2>5, <2>6
<1> QED BY <1>2, <1>3, <1>4, RowsAreKept DEF Next

LEMMA RowsAgreeShows == LaunchInv /\ RowsAgree => ConversationsKeepIdentity
<1> SUFFICES ASSUME LaunchInv, RowsAgree, NEW l \in Launch, NEW m \in Launch,
                    At(l, {"turn"}), At(m, {"turn"}), job[l].talks = job[m].talks
             PROVE  /\ job[l].applied = job[m].applied
                    /\ job[l].applied => job[l].observed.effort = job[m].observed.effort
                    /\ job[l].asked.model # Null => job[l].observed.model = job[m].observed.model
  BY DEF ConversationsKeepIdentity
<1>1. \A k \in {l, m} : /\ job[k].talks = Conversation(k) /\ ~At(k, {"idle"})
                        /\ job[k].asked.model \in {Null, job[k].model}
                        /\ TurnConfirmed(k)
  BY DEF LaunchInv, AsksForPins, At, Live
<1>2. job[l].asked = job[m].asked
  BY <1>1 DEF RowsAgree
<1> QED BY <1>1, <1>2 DEF TurnConfirmed

LEMMA RowsAgreeInit == Init => RowsAgree
<1> SUFFICES ASSUME Init PROVE RowsAgree
  OBVIOUS
<1>1. \A l \in Launch : job[l] = Waiting
  BY DEF Init, Job
<1>2. Waiting.at = "idle" /\ Waiting.resumes = Null
  BY DEF Waiting
<1> QED BY <1>1, <1>2 DEF RowsAgree, At

\* Whatever the harness does to its configuration and its sessions, a turn runs on the
\* model and the effort its row says, which are those pinned or approved, as the session
\* itself reported last, and in its own conversation (applyAndConfirmAcpSelection,
\* runAcpTurn, validateLoadedHandle).
THEOREM TurnsStayAsAsked == Spec => []TurnsAreTheOnesAsked
<1> QED BY LaunchInvInit, LaunchInvInductive, LaunchInvShows, PTL DEF Spec

\* What an observation confirmed is gone again and launches, as long as the harness
\* behaves the same (observeAcpHarness).
THEOREM ConfirmationsStayGood == Spec => []ConfirmationsHold
<1> QED BY LaunchInvInit, LaunchInvInductive, LaunchInvShows, PTL DEF Spec

\* The turns of one conversation run on one model at one effort, for any number of
\* continuations and approvals between them, unless the model was left to the harness
\* (retry, resume).
THEOREM IdentityIsKept == Spec => []ConversationsKeepIdentity
<1> QED BY LaunchInvInit, LaunchInvInductive, RowsAgreeInit, RowsAgreeInductive, RowsAgreeShows, PTL DEF Spec
=============================================================================
