----------------------------- MODULE OwnerSetup ------------------------------
(***************************************************************************)
(* First-run setup and its later re-runs (src/src/agent/onboarding.ts,     *)
(* session-catalog-review.ts, permission-settings.ts over the writers of   *)
(* packages/core/src): a guided flow of eight steps, each of which asks,   *)
(* saves and then marks the step, in terminals that may be several, may be *)
(* closed at any prompt and may die between two writes.  Every write of    *)
(* one file is one step here; the awaits of the flow separate steps.       *)
(***************************************************************************)
EXTENDS OwnerHome

CONSTANTS Term,        \* terminals that may run the flow
          TextTerm,    \* those without a TUI
          Entry,       \* answers to the privacy question: [paths, repos]
          Declared,    \* stores the environment or Pi's settings declare
          Deep,        \* stores a deep search finds
          NameOf,      \* what a directory is called: a repository's name to a review
          HostRoots,   \* worktree folders of host apps that detection finds
          Replies,     \* sets of formats a reply may name
          OldMarkers,  \* onboarded.json as found
          MaxSetupCrashes,
          MaxScreenEdits

Steps == <<"intro", "privacy", "auth", "permissions", "session-sources", "always-on",
           "active-window", "skills">>
StepSet == ToSet(Steps)
Modes == {"allow", "read-only"}
Blocking == [paths : SUBSET Dir, repos : SUBSET Repo]
Marker == [versionCurrent : BOOLEAN, completed : SUBSET StepSet, authCurrent : BOOLEAN,
           catalogCurrent : BOOLEAN, import : {"none", "imported", "declined"}]
ASSUME SetupAssumption ==
  /\ Entry \subseteq Blocking /\ OldMarkers \subseteq Marker
  /\ Declared \subseteq Store /\ Deep \subseteq Store
  /\ DOMAIN NameOf = Dir /\ HostRoots \subseteq Dir /\ Replies \subseteq SUBSET Format
StepOf == [mode |-> "permissions", window |-> "active-window", skills |-> "skills",
           alwaysOn |-> "always-on"]
Key == DOMAIN StepOf

VARIABLES marker,     \* onboarded.json
          settings,   \* settings.json: the keys written, "unset" when absent
          policy,     \* the Pi permission config generated: mode and denied trees
          pi,         \* Owner Operator's Pi agent directory
          installed,  \* are the LaunchAgents installed?
          term,       \* the terminals
          setupCrashes,
          named,      \* history: everything the owner put off limits
          chose,      \* history: the last value saved for every key of settings
          shown,      \* history: the stores on the last review that was saved
          torn,       \* history: a process died between blacklist or mode and policy
          widened     \* history: an unedited review admitted a store it did not find
setupVars == <<marker, settings, policy, pi, installed, term, setupCrashes,
               named, chose, shown, torn, widened>>

NoScreen == [enabled |-> {}, defaults |-> {}, explicit |-> {}, edits |-> 0, base |-> {}]
Closed == [at |-> "closed", todo |-> {}, forced |-> FALSE, screen |-> NoScreen]

----------------------------------------------------------------------------
(* The marker. *)
pendingOnboardingSteps ==
  {s \in StepSet : \/ s \notin marker.completed
                   \/ s = "auth" /\ ~marker.authCurrent
                   \/ s = "session-sources" /\ ~marker.catalogCurrent}
isOnboarded == marker.versionCurrent /\ pendingOnboardingSteps = {}
markOnboardingStep(step) ==
  marker' = [marker EXCEPT !.versionCurrent = TRUE, !.completed = @ \cup {step},
                           !.authCurrent = @ \/ step = "auth",
                           !.catalogCurrent = @ \/ step = "session-sources"]
markOnboarded ==
  marker' = [marker EXCEPT !.versionCurrent = TRUE, !.completed = StepSet,
                           !.authCurrent = TRUE, !.catalogCurrent = TRUE]

(* The policy Pi's permission system reads. *)
loadPermissionMode == IF settings.mode \in Modes THEN settings.mode ELSE "allow"
permissionPolicy(bl, mode) ==
  [mode |-> mode, denied |-> UNION {pathIdentities(p) : p \in bl.paths}]
reconcilePermissionSettings ==
  policy' = permissionPolicy(blacklist, loadPermissionMode) /\ torn' = FALSE

\* (mutant) a save writes the keys it was given and no others
saveHarnessSettingsOnly(key, value) ==
  /\ settings' = [k \in Key |-> IF k = key THEN value ELSE "unset"]
  /\ chose' = [chose EXCEPT ![key] = value]
saveHarnessSettings(key, value) ==
  settings' = [settings EXCEPT ![key] = value] /\ chose' = [chose EXCEPT ![key] = value]

Ready(dir) == dir.model /\ dir.auth

SetupInit ==
  /\ marker \in OldMarkers
  /\ settings = [k \in Key |-> IF StepOf[k] \in marker.completed THEN "old" ELSE "unset"]
  /\ chose = settings /\ widened = FALSE
  /\ policy = permissionPolicy(blacklist, "allow")
  /\ pi = [auth |-> marker.authCurrent, model |-> marker.authCurrent]
  /\ installed = FALSE
  /\ term = [t \in Term |-> Closed]
  /\ setupCrashes = 0
  /\ named = blacklist /\ shown = loadTranscriptStores(sources) /\ torn = FALSE

----------------------------------------------------------------------------
(* runOnboarding: which step a terminal stands at, and how it moves on. *)
NextPrompt(todo) ==
  IF todo = {} THEN "finish"
  ELSE Steps[CHOOSE i \in DOMAIN Steps : Steps[i] \in todo /\ \A j \in 1..(i - 1) : Steps[j] \notin todo]
Goto(t, at) == term' = [term EXCEPT ![t].at = at]
Done(t, step) ==
  LET todo == term[t].todo \ {step}
  IN  term' = [term EXCEPT ![t] = [Closed EXCEPT !.at = NextPrompt(todo), !.todo = todo,
                                                 !.forced = term[t].forced]]
Chat(t) == term' = [term EXCEPT ![t] = [Closed EXCEPT !.at = "chat"]]

Run(t, force) ==
  LET todo == IF force THEN StepSet ELSE pendingOnboardingSteps
  IN  IF ~force /\ isOnboarded THEN Chat(t)
      ELSE term' = [term EXCEPT ![t] = [Closed EXCEPT !.at = NextPrompt(todo), !.todo = todo,
                                                      !.forced = force]]

(* A terminal opens: the session reconciles the policy, then session_start. *)
OpenTerminal(t) ==
  /\ term[t].at = "closed"
  /\ reconcilePermissionSettings
  /\ Run(t, FALSE)
  /\ UNCHANGED <<homeVars, marker, settings, pi, installed, setupCrashes, named, chose, shown, widened>>

OnboardingCommand(t) ==
  /\ term[t].at = "chat"
  /\ Run(t, isOnboarded)
  /\ UNCHANGED <<homeVars, marker, settings, policy, pi, installed, setupCrashes,
                 named, chose, shown, torn, widened>>

Intro(t) ==
  /\ term[t].at = "intro"
  /\ markOnboardingStep("intro") /\ Done(t, "intro")
  /\ UNCHANGED <<homeVars, settings, policy, pi, installed, setupCrashes, named, chose, shown, torn, widened>>

(* Cancelling the question is an answer: nothing is added. *)
Privacy(t, entry) ==
  /\ term[t].at = "privacy"
  /\ blacklist' = addBlacklistEntries(blacklist, entry.paths, entry.repos)
  /\ named' = [paths |-> named.paths \cup entry.paths, repos |-> named.repos \cup entry.repos]
  /\ Goto(t, "privacy-policy")
  /\ UNCHANGED <<sources, hosts, marker, settings, policy, pi, installed, setupCrashes,
                 chose, shown, torn, widened>>
\* (mutant) the policy waits for the next start
PrivacyPolicyLater(t) ==
  /\ term[t].at = "privacy-policy"
  /\ Goto(t, "privacy-mark")
  /\ UNCHANGED <<homeVars, marker, settings, policy, pi, installed, setupCrashes, named, chose, shown, torn, widened>>
PrivacyPolicy(t) ==
  /\ term[t].at = "privacy-policy"
  /\ reconcilePermissionSettings
  /\ Goto(t, "privacy-mark")
  /\ UNCHANGED <<homeVars, marker, settings, pi, installed, setupCrashes, named, chose, shown, widened>>
PrivacyMark(t) ==
  /\ term[t].at = "privacy-mark"
  /\ markOnboardingStep("privacy") /\ Done(t, "privacy")
  /\ UNCHANGED <<homeVars, settings, policy, pi, installed, setupCrashes, named, chose, shown, torn, widened>>

(* auth: the import is offered once, or again by a forced run. *)
Import(t, imported) ==
  /\ term[t].at = "auth" /\ ~Ready(pi)
  /\ marker.import = "none" \/ term[t].forced
  /\ pi' = IF imported THEN [auth |-> TRUE, model |-> TRUE] ELSE pi
  /\ Goto(t, IF imported THEN "auth-imported" ELSE "auth-declined")
  /\ UNCHANGED <<homeVars, marker, settings, policy, installed, setupCrashes, named, chose, shown, torn, widened>>
RecordImport(t) ==
  /\ term[t].at \in {"auth-imported", "auth-declined"}
  /\ marker' = [marker EXCEPT !.versionCurrent = TRUE,
                  !.import = IF term[t].at = "auth-imported" THEN "imported" ELSE "declined"]
  /\ Goto(t, "auth-check")
  /\ UNCHANGED <<homeVars, settings, policy, pi, installed, setupCrashes, named, chose, shown, torn, widened>>
\* (mutant) a declined import ends the step
AuthCheckOnce(t) ==
  /\ term[t].at \in {"auth-check", "auth"} /\ marker.import # "none"
  /\ markOnboardingStep("auth") /\ Done(t, "auth")
  /\ UNCHANGED <<homeVars, settings, policy, pi, installed, setupCrashes, named, chose, shown, torn, widened>>
AuthCheck(t) ==
  /\ \/ term[t].at = "auth-check"
     \/ term[t].at = "auth" /\ (Ready(pi) \/ (marker.import # "none" /\ ~term[t].forced))
  /\ IF Ready(pi) THEN markOnboardingStep("auth") /\ Done(t, "auth")
     ELSE Chat(t) /\ UNCHANGED marker
  /\ UNCHANGED <<homeVars, settings, policy, pi, installed, setupCrashes, named, chose, shown, torn, widened>>
Login(t) ==
  /\ term[t].at = "chat" /\ ~Ready(pi)
  /\ pi' = IF pi.auth THEN [pi EXCEPT !.model = TRUE] ELSE [pi EXCEPT !.auth = TRUE]
  /\ UNCHANGED <<homeVars, marker, settings, policy, installed, term, setupCrashes,
                 named, chose, shown, torn, widened>>

(* savePermissionMode writes the setting, then the policy; /permissions too. *)
Permissions(t, mode) ==
  /\ term[t].at \in {"permissions", "chat"}
  /\ saveHarnessSettings("mode", mode)
  /\ Goto(t, IF term[t].at = "chat" THEN "command-policy" ELSE "permissions-policy")
  /\ UNCHANGED <<homeVars, marker, policy, pi, installed, setupCrashes, named, shown, torn, widened>>
PermissionsPolicy(t) ==
  /\ term[t].at \in {"permissions-policy", "command-policy"}
  /\ reconcilePermissionSettings
  /\ IF term[t].at = "command-policy" THEN Chat(t) ELSE Goto(t, "permissions-mark")
  /\ UNCHANGED <<homeVars, marker, settings, pi, installed, setupCrashes, named, chose, shown, widened>>
PermissionsMark(t) ==
  /\ term[t].at = "permissions-mark"
  /\ markOnboardingStep("permissions") /\ Done(t, "permissions")
  /\ UNCHANGED <<homeVars, settings, policy, pi, installed, setupCrashes, named, chose, shown, torn, widened>>

----------------------------------------------------------------------------
(* session-sources: the catalog review. *)
Visible(s) == ~isBlacklisted(blacklist, s.root, NameOf[s.root])
detectSessionSourceCandidates(deep) ==
  {s \in sources.add \cup Declared \cup (IF deep THEN Deep ELSE {}) : Visible(s)}

buildSessionCatalogReview(t) ==
  /\ term[t].at = "session-sources"
  /\ LET access == loadTranscriptAccess(sources)
     IN  term' = [term EXCEPT ![t].at = "review",
                    ![t].screen = [enabled |-> access.selected, defaults |-> access.defaults,
                                   explicit |-> detectSessionSourceCandidates(FALSE), edits |-> 0,
                                   base |-> loadTranscriptStores(sources)]]
  /\ UNCHANGED <<homeVars, marker, settings, policy, pi, installed, setupCrashes,
                 named, chose, shown, torn, widened>>

(* One key on the TUI's screen. *)
Toggle(screen, f) ==
  IF f \in screen.enabled
  THEN [screen EXCEPT !.enabled = @ \ {f}, !.defaults = @ \ {f}]
  ELSE [screen EXCEPT !.enabled = @ \cup {f}, !.defaults = @ \cup {f}]
ToggleDefault(screen, f) ==
  [screen EXCEPT !.defaults = IF f \in @ THEN @ \ {f} ELSE @ \cup {f}]
AddRoot(screen, s) ==
  [screen EXCEPT !.explicit = @ \cup {s}, !.enabled = @ \cup {s.format}]
SearchMore(screen) == [screen EXCEPT !.explicit = @ \cup detectSessionSourceCandidates(TRUE)]
Edited(screen) ==
  {Toggle(screen, f) : f \in Format} \cup {ToggleDefault(screen, f) : f \in Format}
    \cup {AddRoot(screen, s) : s \in Deep} \cup {SearchMore(screen)}
Press(t) ==
  /\ term[t].at = "review" /\ t \notin TextTerm /\ term[t].screen.edits < MaxScreenEdits
  /\ \E screen \in Edited(term[t].screen) :
       term' = [term EXCEPT ![t].screen = [screen EXCEPT !.edits = @ + 1]]
  /\ UNCHANGED <<homeVars, marker, settings, policy, pi, installed, setupCrashes,
                 named, chose, shown, torn, widened>>

(* The reply of a terminal without a TUI: formats to ignore and to include. *)
Answered(screen, ignored, included) ==
  [screen EXCEPT !.enabled = (@ \cup included) \ ignored, !.defaults = @ \cup included]

resultFrom(screen) ==
  [selected |-> screen.enabled,
   defaults |-> screen.enabled \cap screen.defaults,
   roots    |-> {s \in screen.explicit : s.format \in screen.enabled}]

(* What the screen says Owner Operator may read, when it is confirmed. *)
Authorized(screen) ==
  {s \in Store : s.format \in screen.enabled /\
     (s \in screen.explicit \/ (s.format \in screen.defaults /\ s.root \in Standard[s.format]))}

SaveReview(t, screen) ==
  LET result == resultFrom(screen)
  IN  /\ sources' = saveTranscriptAccess(result.selected, result.roots, result.defaults)
      /\ shown' = Authorized(screen)
      /\ widened' = (widened \/ (screen = term[t].screen /\ screen.edits = 0 /\
                       ~(loadTranscriptStores(sources') \subseteq screen.base \cup Declared)))
      /\ Goto(t, "sources-hosts")
      /\ UNCHANGED <<blacklist, hosts, marker, settings, policy, pi, installed, setupCrashes,
                     named, chose, torn>>
ConfirmReview(t) == /\ term[t].at = "review" /\ t \notin TextTerm
                    /\ SaveReview(t, term[t].screen)
Reply(t) == /\ term[t].at = "review" /\ t \in TextTerm
            /\ \E ignored, included \in Replies :
                 SaveReview(t, Answered(term[t].screen, ignored, included))
(* The worktree folders of host apps, used for attribution only. *)
saveSessionHostRoots(t) ==
  /\ term[t].at = "sources-hosts"
  /\ hosts' = hosts \cup HostRoots
  /\ Goto(t, "sources-mark")
  /\ UNCHANGED <<blacklist, sources, marker, settings, policy, pi, installed, setupCrashes,
                 named, chose, shown, torn, widened>>
SourcesMark(t) ==
  /\ term[t].at = "sources-mark"
  /\ markOnboardingStep("session-sources") /\ Done(t, "session-sources")
  /\ UNCHANGED <<homeVars, settings, policy, pi, installed, setupCrashes, named, chose, shown, torn, widened>>

----------------------------------------------------------------------------
(* always-on, active-window, skills: install, save, mark. *)
Install(t, succeeds) ==
  /\ term[t].at = "always-on"
  /\ installed' = (installed \/ succeeds)
  /\ IF succeeds THEN Goto(t, "always-on-installed") ELSE Chat(t)
  /\ UNCHANGED <<homeVars, marker, settings, policy, pi, setupCrashes, named, chose, shown, torn, widened>>
ValueFor(at) ==
  CASE at = "always-on"           -> [mark |-> "always-on-mark", key |-> "alwaysOn", value |-> "declined"]
    [] at = "always-on-installed" -> [mark |-> "always-on-mark", key |-> "alwaysOn", value |-> "installed"]
    [] at = "active-window"       -> [mark |-> "active-window-mark", key |-> "window", value |-> "1d"]
    [] at = "skills"              -> [mark |-> "skills-mark", key |-> "skills", value |-> "owner-operator"]
Asks == {"always-on", "always-on-installed", "active-window", "skills"}
SaveSetting(t) ==
  /\ term[t].at \in Asks
  /\ LET ask == ValueFor(term[t].at)
     IN  saveHarnessSettings(ask.key, ask.value) /\ Goto(t, ask.mark)
  /\ UNCHANGED <<homeVars, marker, policy, pi, installed, setupCrashes, named, shown, torn, widened>>
StepMarked(at) == CASE at = "always-on-mark"     -> "always-on"
                    [] at = "active-window-mark" -> "active-window"
                    [] at = "skills-mark"        -> "skills"
MarkSetting(t) ==
  /\ term[t].at \in {"always-on-mark", "active-window-mark", "skills-mark"}
  /\ LET step == StepMarked(term[t].at) IN markOnboardingStep(step) /\ Done(t, step)
  /\ UNCHANGED <<homeVars, settings, policy, pi, installed, setupCrashes, named, chose, shown, torn, widened>>

Finish(t) ==
  /\ term[t].at = "finish"
  /\ IF pendingOnboardingSteps = {} THEN markOnboarded ELSE UNCHANGED marker
  /\ Chat(t)
  /\ UNCHANGED <<homeVars, settings, policy, pi, installed, setupCrashes, named, chose, shown, torn, widened>>

(* A prompt is cancelled: the steps marked so far stay marked. *)
Prompts == {"intro", "permissions", "review"}
Cancel(t) ==
  /\ term[t].at \in Prompts
  /\ Chat(t)
  /\ UNCHANGED <<homeVars, marker, settings, policy, pi, installed, setupCrashes,
                 named, chose, shown, torn, widened>>

(* The terminal is closed at a prompt, or its process dies anywhere. *)
CloseTerminal(t) ==
  /\ term[t].at # "closed"
  /\ \/ term[t].at = "chat" /\ UNCHANGED setupCrashes
     \/ setupCrashes < MaxSetupCrashes /\ setupCrashes' = setupCrashes + 1
  /\ torn' = (torn \/ term[t].at \in {"privacy-policy", "permissions-policy", "command-policy"})
  /\ term' = [term EXCEPT ![t] = Closed]
  /\ UNCHANGED <<homeVars, marker, settings, policy, pi, installed, named, chose, shown, widened>>

SetupStep(t) ==
  \/ OpenTerminal(t) \/ OnboardingCommand(t) \/ Intro(t)
  \/ \E entry \in Entry : Privacy(t, entry)
  \/ PrivacyPolicy(t) \/ PrivacyMark(t)
  \/ \E imported \in BOOLEAN : Import(t, imported)
  \/ RecordImport(t) \/ AuthCheck(t) \/ Login(t)
  \/ \E mode \in Modes : Permissions(t, mode)
  \/ PermissionsPolicy(t) \/ PermissionsMark(t)
  \/ buildSessionCatalogReview(t) \/ Press(t) \/ ConfirmReview(t) \/ Reply(t)
  \/ saveSessionHostRoots(t) \/ SourcesMark(t)
  \/ \E succeeds \in BOOLEAN : Install(t, succeeds)
  \/ SaveSetting(t) \/ MarkSetting(t) \/ Finish(t) \/ Cancel(t) \/ CloseTerminal(t)
SetupNext == \E t \in Term : SetupStep(t)

----------------------------------------------------------------------------
(* A step the marker calls done was done: what it asked is in the file it  *)
(* belongs to, whatever was saved by another terminal or after a crash.    *)
ConsentsAreSaved ==
  /\ "auth" \in marker.completed /\ marker.authCurrent => Ready(pi)
  /\ named.paths \subseteq blacklist.paths /\ named.repos \subseteq blacklist.repos
  /\ settings = chose
  /\ \A k \in Key : StepOf[k] \in marker.completed => settings[k] # "unset"
  /\ settings.alwaysOn = "installed" => installed
  /\ "session-sources" \in marker.completed /\ marker.catalogCurrent => HostRoots \subseteq hosts

(* The stores that are read are those on the last review the owner saved,  *)
(* and a review confirmed as it opened admits none but those it found      *)
(* (onboarding.mjs:313-314).                                               *)
ApertureIsReviewed == loadTranscriptStores(sources) = shown /\ ~widened

(* Unless a process is, or died, between the two writes, the generated     *)
(* policy denies every blocked tree and has the mode the owner chose.      *)
PolicyFollows ==
  torn \/ (\E t \in Term : term[t].at \in {"privacy-policy", "permissions-policy", "command-policy"})
    \/ policy = permissionPolicy(blacklist, loadPermissionMode)

(* Setup as it starts, over files as earlier runs left them: a marker that *)
(* has the catalog's version was written after the folders of host apps.   *)
SetupStart == HomeTypeOK /\ (marker.catalogCurrent => HostRoots \subseteq hosts) /\ SetupInit
SetupSpec == SetupStart /\ [][SetupNext]_<<homeVars, setupVars>>

SetupHolds == ConsentsAreSaved /\ ApertureIsReviewed /\ PolicyFollows /\ ToolsKeepOut
=============================================================================
