---------------------------- MODULE Conversations ----------------------------
(***************************************************************************)
(* What the processes that show conversations promise about the session    *)
(* files they share (extensions/take.ts, switch.ts, cwd.ts): a process     *)
(* sees what it has loaded and what it has written since; it writes to a   *)
(* conversation only what comes after all of it; and nothing is lost.  A   *)
(* file whose human was told otherwise is excused.                         *)
(***************************************************************************)
CONSTANTS Processes, Files, Entries

VARIABLES
  shows,    \* the file of the conversation that a process shows
  view,     \* what it has of it in memory
  history,  \* what the file holds
  excused   \* files that may be open in two views

conversationVars == <<shows, view, history, excused>>

Init ==
  /\ shows \in [Processes -> Files] /\ view = [p \in Processes |-> {}]
  /\ history = [f \in Files |-> {}] /\ excused = {}

\* Something is written to the conversation that p shows.
Continue(p, e) ==
  /\ view[p] = history[shows[p]] \/ shows[p] \in excused
  /\ e \notin history[shows[p]]
  /\ history' = [history EXCEPT ![shows[p]] = @ \cup {e}]
  /\ view' = [view EXCEPT ![p] = @ \cup {e}]
  /\ UNCHANGED shows

\* The process opens a file, or the one it shows again.
Open(p, f) ==
  /\ shows' = [shows EXCEPT ![p] = f] /\ view' = [view EXCEPT ![p] = history[f]]
  /\ UNCHANGED history

\* Of two views of a file one rewrites what the other wrote.
Overwrite(f, entries) ==
  /\ f \in excused
  /\ history' = [history EXCEPT ![f] = entries]
  /\ UNCHANGED <<shows, view>>

Next ==
  /\ \E more \in SUBSET Files : excused' = excused \cup more
  /\ \/ \E p \in Processes : (\E e \in Entries : Continue(p, e)) \/ (\E f \in Files : Open(p, f))
     \/ \E f \in Files, entries \in SUBSET Entries : Overwrite(f, entries)
     \/ UNCHANGED <<shows, view, history>>

Spec == Init /\ [][Next]_conversationVars
=============================================================================
