------------------------- MODULE MCParentRunSession -------------------------
(***************************************************************************)
(* The instance of ParentRunSession that TLC checks, and the behaviours it *)
(* is about.                                                               *)
(***************************************************************************)
EXTENDS ParentRunSession

\* One session and its children.
OneSession == \A g \in Slot \ {1} : session[g].phase = "unopened"

\* One child, a session that is reloaded, shut down or reopened, and one fault.
OneChild ==
    /\ \A c \in Child \ {CHOOSE only \in Child : TRUE} : outcome[c] = "absent"
    /\ controls = 0

ChildrenOrReloads == OneSession \/ OneChild
=============================================================================
