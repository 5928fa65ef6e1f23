----------------------------- MODULE NamedTarget -----------------------------
(***************************************************************************)
(* What one target name promises the tools that use it, in whichever       *)
(* process they run (orchestration/workers.ts): one tool at a time uses    *)
(* the name; it starts a target only where none is registered and          *)
(* registers that target and no other; an entry goes with its target or    *)
(* after it; and a target is left unregistered only by a tool that died or *)
(* was aborted just then.                                                  *)
(***************************************************************************)
CONSTANTS
  Tasks,      \* tool calls, which number the targets they start
  Registered  \* the target registered at first; 0: none

VARIABLES
  users,      \* the tool call that uses the name
  unsaved,    \* the target it has started and not yet registered
  entry,      \* the registered target; 0: none
  live,       \* targets that exist
  abandoned   \* targets whose creator gave them up

nameVars == <<users, unsaved, entry, live, abandoned>>

Init ==
  /\ users = {} /\ unsaved = {} /\ abandoned = {}
  /\ entry = Registered /\ live = {Registered} \ {0}

Acquire(t) == users = {} /\ users' = {t} /\ UNCHANGED <<unsaved, entry, live, abandoned>>

Leave(t) ==
  /\ users = {t} /\ unsaved = {}
  /\ users' = {}
  /\ UNCHANGED <<unsaved, entry, live, abandoned>>

Start(t) ==
  /\ users = {t} /\ unsaved = {} /\ entry = 0
  /\ unsaved' = {t} /\ live' = live \cup {t}
  /\ UNCHANGED <<users, entry, abandoned>>

Register(t) ==
  /\ users = {t} /\ unsaved = {t} /\ entry = 0
  /\ unsaved' = {} /\ entry' = t
  /\ UNCHANGED <<users, live, abandoned>>

\* The target was found missing.
Forget(t) ==
  /\ users = {t} /\ unsaved = {} /\ entry \notin live
  /\ entry' = 0
  /\ UNCHANGED <<users, unsaved, live, abandoned>>

Close(t) ==
  /\ users = {t} /\ unsaved = {}
  /\ entry' = 0 /\ live' = live \ {entry}
  /\ UNCHANGED <<users, unsaved, abandoned>>

\* A tool aborted while it starts its target closes that if it can.
GiveUp(t) ==
  /\ users = {t} /\ unsaved = {}
  /\ abandoned' = abandoned \cup {t} /\ live' \in {live, live \cup {t}}
  /\ UNCHANGED <<users, unsaved, entry>>

\* Its process dies.
Die ==
  /\ users # {} /\ users' = {}
  /\ unsaved' = {} /\ abandoned' = abandoned \cup unsaved
  /\ UNCHANGED <<entry, live>>

\* A target ends outside Pi.
Vanish == (\E x \in live : live' = live \ {x}) /\ UNCHANGED <<users, unsaved, entry, abandoned>>

Next ==
  \/ \E t \in Tasks : \/ Acquire(t) \/ Leave(t) \/ Start(t) \/ Register(t)
                      \/ Forget(t) \/ Close(t) \/ GiveUp(t)
  \/ Die \/ Vanish

Spec == Init /\ [][Next]_nameVars
=============================================================================
