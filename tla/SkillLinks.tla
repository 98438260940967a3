----------------------------- MODULE SkillLinks -----------------------------
(***************************************************************************)
(* `oo skill install` and `oo skill uninstall` (src/shared/skill-links.ts): *)
(* the links that bring a checkout's skill into the shared skills root and, *)
(* through it, into every harness's skills folder, and the manifest of the  *)
(* links Owner Operator made.  A command is a sequence of file operations   *)
(* that may fail or be cut short; the owner, and other tools, change the    *)
(* same folders between two commands.  One command runs at a time.          *)
(***************************************************************************)
EXTENDS FiniteSets, Integers, SequencesExt

CONSTANTS Folder,       \* skills folders: the shared root and the harnesses'
          Agents,       \* the shared root
          Environments, \* the harness folders a command's environment may name
          Checkout,
          MaxFaults,    \* bound: operations that fail, and commands cut short
          MaxEdits      \* bound: changes by the owner

ASSUME SkillAssumption ==
  /\ Agents \in Folder /\ Environments \subseteq Seq(Folder \ {Agents}) /\ IsFiniteSet(Folder)
  /\ Folder \cap Checkout = {} /\ {MaxFaults, MaxEdits} \subseteq Nat
  /\ {"none", "nowhere", "elsewhere", "itself"} \cap (Folder \cup Checkout) = {}

VARIABLES folder,    \* what each folder is: none, open, locked, a file
          entry,     \* what it holds under the skill's name
          manifest,  \* skill-links.json: the target of each link made
          backups,   \* copies moved aside
          checkouts, \* those that are where the links say
          command,   \* the command that runs
          copies,    \* (history) copies of the skill others put there
          skillFaults, skillEdits

skillVars == <<folder, entry, manifest, backups, checkouts, command, copies, skillFaults, skillEdits>>

(* An entry: of a kind, a link's target, and who put it there (history).    *)
No == [is |-> "none", to |-> "nowhere", by |-> "nobody"]
Link(to, by) == [is |-> "link", to |-> to, by |-> by]
Copy == [is |-> "copy", to |-> "nowhere", by |-> "owner"]    \* declares this skill's name
Other == [is |-> "other", to |-> "nowhere", by |-> "owner"]  \* another skill
Unrecorded == "none"
AtRest == [at |-> "done", verb |-> "none", from |-> "nowhere", todo |-> <<>>,
         owned |-> [f \in Folder |-> Unrecorded], report |-> {}]

SkillInit ==
  /\ folder \in [Folder -> {"none", "open"}]
  /\ entry = [f \in Folder |-> No]
  /\ manifest = [f \in Folder |-> Unrecorded]
  /\ backups = 0 /\ copies = 0 /\ checkouts = Checkout /\ command = AtRest
  /\ skillFaults = 0 /\ skillEdits = 0

-----------------------------------------------------------------------------
(* What a command can see.                                                  *)

Seen(f) == IF folder[f] = "open" THEN entry[f] ELSE No      \* lstatOrNull
Resolved(f) ==                                              \* realOrNull
  LET at  == Seen(f)
      end == IF at.is = "link" /\ at.to = Agents THEN Seen(Agents) ELSE at
  IN  IF end.is = "link" THEN (IF end.to \in checkouts \cup {"elsewhere"} THEN end.to ELSE "nowhere")
      ELSE IF end.is = "none" THEN "nowhere" ELSE "itself"

locations(from, environment) ==
  [i \in 1..Len(environment) + 1 |-> IF i = 1 THEN Agents ELSE environment[i - 1]]
Target(f, from) == IF f = Agents THEN from ELSE Agents

statusOf(f, from) ==
  LET at == Seen(f) IN
  IF folder[f] = "none" THEN IF f = Agents THEN "absent" ELSE "no-folder"
  ELSE IF at = No THEN "absent"
  ELSE IF at.is # "link" THEN "copy"
  ELSE IF Resolved(f) = "nowhere" THEN "dangling"
  ELSE IF at.to = Target(f, from) THEN "linked" ELSE "other-link"

\* (mutant) a link is replaced whoever pointed it there
ownedByName(owned, f) == Seen(f).is = "link" /\ owned[f] # Unrecorded
stillOwned(owned, f) == Seen(f).is = "link" /\ owned[f] = Seen(f).to

-----------------------------------------------------------------------------
(* A command: its next step, on the first of the targets still to visit.    *)

Visited == Head(command.todo)
Proceeds(at) == command' = [command EXCEPT !.at = at]
Reports(as) ==
  command' = [command EXCEPT !.at = IF @ = "uninstall" THEN @ ELSE "look",
                             !.todo = Tail(@),
                             !.report = @ \cup {[at |-> Visited, as |-> as]}]
Fault == skillFaults < MaxFaults /\ skillFaults' = skillFaults + 1

InstallSkill(from, environment) ==
  /\ command.at = "done" /\ from \in checkouts
  /\ command' = [at |-> "look", verb |-> "install", from |-> from,
                 todo |-> locations(from, environment), owned |-> manifest, report |-> {}]
  /\ UNCHANGED <<folder, entry, manifest, backups, checkouts, copies, skillFaults, skillEdits>>

\* (mutant) a harness is linked to whatever the shared root holds
LinkableAnyway(f, from) == TRUE
(* Harness links are only made while the shared root's entry is this checkout's. *)
Linkable(f, from) == f = Agents \/ Resolved(Agents) = from

(* installOne, up to where what is in the way is out of the way.             *)
Clear ==
  /\ command.at = "look" /\ command.todo # <<>>
  /\ LET f == Visited
         status == statusOf(f, command.from)
     IN  \/ /\ \/ ~Linkable(f, command.from)
               \/ status = "no-folder"
               \/ status = "copy" /\ Seen(f) # Copy
               \/ status \in {"dangling", "other-link"} /\ ~stillOwned(command.owned, f)
            /\ Reports("skipped") /\ UNCHANGED <<entry, backups>>
         \/ /\ Linkable(f, command.from) /\ status = "linked"
            /\ Reports("already-linked") /\ UNCHANGED <<entry, backups>>
         \/ /\ Linkable(f, command.from)
            /\ \/ status = "absent"
               \/ status = "copy" /\ Seen(f) = Copy
               \/ status \in {"dangling", "other-link"} /\ stillOwned(command.owned, f)
            /\ backups' = backups + (IF Seen(f) = Copy THEN 1 ELSE 0)
            /\ entry' = IF Seen(f) = No THEN entry ELSE [entry EXCEPT ![f] = No]
            /\ command' = [command EXCEPT !.at = "record", !.owned[f] = Target(f, command.from)]
  /\ UNCHANGED <<folder, manifest, checkouts, copies, skillFaults, skillEdits>>

(* writeManifest, before the link and again when it could not be made.       *)
Record ==
  /\ command.at \in {"record", "unrecord"}
  /\ manifest' = command.owned
  /\ IF command.at = "record" THEN Proceeds("link") ELSE Reports("failed")
  /\ UNCHANGED <<folder, entry, backups, checkouts, copies, skillFaults, skillEdits>>

(* mkdirSync and symlinkSync; a folder that is locked or a file refuses.     *)
Make ==
  /\ command.at = "link"
  /\ LET f == Visited IN
     \/ /\ folder[f] \in {"none", "open"}
        /\ folder' = [folder EXCEPT ![f] = "open"]
        /\ entry' = [entry EXCEPT ![f] = Link(Target(f, command.from), "oo")]
        /\ Reports("linked") /\ UNCHANGED skillFaults
     \/ /\ (folder[f] \in {"locked", "file"} /\ UNCHANGED skillFaults) \/ Fault
        /\ command' = [command EXCEPT !.at = "unrecord", !.owned[f] = Unrecorded]
        /\ UNCHANGED <<folder, entry>>
  /\ UNCHANGED <<manifest, backups, checkouts, copies, skillEdits>>

(* Another operation of an installation fails: this folder's turn is over.   *)
Fails ==
  /\ command.at \in {"look", "record", "unrecord"} /\ command.todo # <<>> /\ Fault
  /\ Reports("failed")
  /\ UNCHANGED <<folder, entry, manifest, backups, checkouts, copies, skillEdits>>

(* The recorded links are visited too, wherever they are.                    *)
UninstallSkill(from, environment) ==
  /\ command.at = "done"
  /\ LET now  == locations(from, environment)
         more == {f \in Folder : manifest[f] # Unrecorded} \ {now[i] : i \in DOMAIN now}
     IN  command' = [at |-> "uninstall", verb |-> "uninstall", from |-> from,
                     todo |-> now \o SetToSeq(more), owned |-> manifest, report |-> {}]
  /\ UNCHANGED <<folder, entry, manifest, backups, checkouts, copies, skillFaults, skillEdits>>

(* inspect tells a folder it cannot read from one without the entry.         *)
Unreadable(f) == folder[f] = "locked"

Unlink ==
  /\ command.at = "uninstall" /\ command.todo # <<>>
  /\ LET f == Visited IN
     \/ /\ Unreadable(f) \/ command.owned[f] = Unrecorded
        /\ Reports("skipped") /\ UNCHANGED <<entry, skillFaults>>
     \/ /\ ~Unreadable(f) /\ command.owned[f] # Unrecorded /\ ~stillOwned(command.owned, f)
        /\ command' = [command EXCEPT !.todo = Tail(@), !.owned[f] = Unrecorded]
        /\ UNCHANGED <<entry, skillFaults>>
     \/ /\ ~Unreadable(f) /\ stillOwned(command.owned, f)
        /\ \/ /\ entry' = [entry EXCEPT ![f] = No] /\ UNCHANGED skillFaults
              /\ command' = [command EXCEPT !.todo = Tail(@), !.owned[f] = Unrecorded,
                                            !.report = @ \cup {[at |-> f, as |-> "removed"]}]
           \/ Fault /\ Reports("failed") /\ UNCHANGED entry
  /\ UNCHANGED <<folder, manifest, backups, checkouts, copies, skillEdits>>

(* An installation has written its manifest as it went.                      *)
FinishCommand ==
  /\ command.at \in {"look", "uninstall"} /\ command.todo = <<>>
  /\ manifest' = IF command.verb = "uninstall" THEN command.owned ELSE manifest
  /\ Proceeds("done")
  /\ UNCHANGED <<folder, entry, backups, checkouts, copies, skillFaults, skillEdits>>

(* The process ends; the manifest it was writing in place is left empty.     *)
Stops ==
  /\ command.at # "done" /\ Fault
  /\ \/ UNCHANGED manifest
     \/ /\ \/ command.at \in {"record", "unrecord"}
           \/ command.at = "uninstall" /\ command.todo = <<>>
        /\ manifest' = [f \in Folder |-> Unrecorded]
  /\ command' = [AtRest EXCEPT !.verb = "stopped"]
  /\ UNCHANGED <<folder, entry, backups, checkouts, copies, skillEdits>>

-----------------------------------------------------------------------------
(* The owner and other tools, between two commands (external).               *)

OwnerPuts(f, what) ==
  /\ folder[f] = "open"
  /\ entry' = [entry EXCEPT ![f] = what]
  /\ copies' = copies + (IF what = Copy THEN 1 ELSE 0) - (IF entry[f] = Copy THEN 1 ELSE 0)
  /\ UNCHANGED <<folder, checkouts>>

OwnerEdits ==
  /\ command.at = "done" /\ skillEdits < MaxEdits
  /\ \/ \E f \in Folder, what \in {No, Copy, Other, Link("elsewhere", "owner")} : OwnerPuts(f, what)
     \/ \E c \in Checkout : OwnerPuts(Agents, Link(c, "owner"))
     \/ \E f \in Folder :
          /\ \/ folder[f] = "none" /\ \E as \in {"open", "file"} : folder' = [folder EXCEPT ![f] = as]
             \/ folder[f] = "open" /\ folder' = [folder EXCEPT ![f] = "locked"]
             \/ folder[f] = "locked" /\ folder' = [folder EXCEPT ![f] = "open"]
          /\ UNCHANGED <<entry, copies, checkouts>>
     \/ \E c \in Checkout :
          /\ checkouts' = IF c \in checkouts THEN checkouts \ {c} ELSE checkouts \cup {c}
          /\ UNCHANGED <<folder, entry, copies>>
  /\ skillEdits' = skillEdits + 1
  /\ command' = AtRest
  /\ UNCHANGED <<manifest, backups, skillFaults>>

SkillNext ==
  \/ \E from \in Checkout, environment \in Environments :
       InstallSkill(from, environment) \/ UninstallSkill(from, environment)
  \/ Clear \/ Record \/ Make \/ Fails \/ Unlink \/ FinishCommand \/ Stops \/ OwnerEdits

SkillSpec == SkillInit /\ [][SkillNext]_skillVars

-----------------------------------------------------------------------------
(* Properties.                                                               *)

(* What the owner or another tool put into a skills folder stays as they     *)
(* left it whatever the commands do, or fail to do, half way; only a link    *)
(* like the one on record is Owner Operator's, whoever made it (header of    *)
(* skill-links.ts: "a link is only replaced or removed while it still points *)
(* there, so a link the owner changed is never touched").  A copy of this    *)
(* skill makes room, and is kept (installOne).                               *)
OnRecord(f) == entry[f].is = "link" /\ entry[f].to = manifest[f]
OwnersEntriesStay ==
  [][command.at # "done" =>
       \A f \in Folder : entry[f].by = "owner" /\ ~OnRecord(f) =>
                           entry'[f] = entry[f] \/ entry[f] = Copy]_skillVars
CopiesAreKept == copies = backups + Cardinality({f \in Folder : entry[f] = Copy})

(* A link is reported as this checkout's only if an agent that follows it    *)
(* arrives there, also when another folder failed on the way (installOne).   *)
ReportsAreTrue ==
  command.verb = "install" =>
    \A r \in command.report : r.as \in {"linked", "already-linked"} =>
      Resolved(r.at) = command.from

SkillsAreKept == OwnersEntriesStay /\ [](CopiesAreKept /\ ReportsAreTrue)
=============================================================================
