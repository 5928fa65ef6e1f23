---------------------------------- MODULE Ugo ----------------------------------
(***************************************************************************)
(* The automatic workboard loop of extensions/ugo.ts: guide and do         *)
(* sessions, the reflection after each do, commits between steps, pauses   *)
(* and the watchers that wait for a human's decision.                      *)
(*                                                                         *)
(* Every step of the loop runs in a new Pi session, and a new session      *)
(* reloads the extension.  The loop itself goes on in the instance whose   *)
(* /ugo started it, while tools, events and commands are handled by the    *)
(* instance of the current session: they share the session's entries, not  *)
(* their variables.  So /ugo-pause never reaches the loop's watchers.      *)
(*                                                                         *)
(* Git, the agent's runs and Pi's session control are external.  Code      *)
(* between two awaits of git or of a run is one step.  Guidance that       *)
(* present_guidance accepts always gives a do its prompt.                  *)
(***************************************************************************)
CONSTANTS
  Reflections,  \* texts of a do's reflection
  None          \* no reflection

ASSUME UgoAssumption == None \notin Reflections

VARIABLES
  entry,     \* the latest UgoState among the session's entries
  mem,       \* currentState of the session's extension instance
  tool,      \* present_guidance is an active tool of the session
  guidance,  \* the latest result of present_guidance among the session's entries
  run,       \* the session's agent: "idle", "running", or "ending" while agent_end commits
  ending,    \* the state that agent_end holds during that commit
  loop,      \* where the loop is, and the state and guidance it holds
  scan,      \* the loop's watchers: "none", "armed" or "checking", and the state a check holds
  command,   \* a /ugo: "none", "checking", "refused" because ugo is already running
  step,      \* uncommitted changes of a guide or do: "none", "workflow" files only, or "source"
  other,     \* other uncommitted changes of source files
  session,   \* history: flips with every new session
  starter,   \* history: what started the session
  asked,     \* history: a /ugo-pause since the last /ugo: "no", "kept" or "late"
  owed       \* history: the reflection no guide has acted on yet

sessionVars == <<entry, mem, tool, guidance, run, ending>>
historyVars == <<session, starter, asked, owed>>
vars == <<sessionVars, loop, scan, command, step, other, historyVars>>

Phases == {"none", "guide", "do", "do_retrospective", "paused", "awaiting_decision", "empty"}
UgoState == [phase : Phases, completed : BOOLEAN, pause : BOOLEAN,
             reflection : Reflections \cup {None}]
NoState == [phase |-> "none", completed |-> FALSE, pause |-> FALSE, reflection |-> None]
Paused(s) == [s EXCEPT !.phase = "paused", !.pause = FALSE]

Outcomes == {"work", "decision", "empty"}
LoopState == [at : {"none", "guide", "do", "check", "commit"}, state : UgoState,
              guidance : Outcomes \cup {"none"}]
NoLoop == [at |-> "none", state |-> NoState, guidance |-> "none"]
NoScan == [at |-> "none", state |-> NoState]
Armed == [NoScan EXCEPT !.at = "armed"]

Clean == step # "source" /\ ~other

\* git add -A and git commit, which may fail.
Commit(ok) == IF ok THEN step' = "none" /\ other' = FALSE ELSE UNCHANGED <<step, other>>

-----------------------------------------------------------------------------
(* New sessions *)

\* The session of state s takes over: whatever holds the old one's context is stale.
Replace(s, by) ==
  /\ entry' = s /\ mem' = s
  /\ tool' = (s.phase = "guide")
  /\ guidance' = "none"
  /\ run' = "running" /\ ending' = NoState
  /\ loop' = [at |-> s.phase, state |-> s, guidance |-> "none"]
  /\ scan' = NoScan /\ command' = "none"
  /\ session' = ~session /\ starter' = by

\* The session goes on; the loop has nothing more to do in it.
Leave(watchers) ==
  /\ loop' = NoLoop /\ scan' = watchers /\ command' = "none"
  /\ UNCHANGED <<session, starter>>

\* The loop pauses: the session's instance is not told.
LoopPauses(s) ==
  /\ entry' = Paused(s)
  /\ loop' = NoLoop
  /\ UNCHANGED <<mem, tool, guidance, run, ending, scan, command, historyVars>>

GuideState(s) == [s EXCEPT !.phase = "guide", !.pause = FALSE]
DoState(s) == [s EXCEPT !.phase = "do", !.completed = FALSE, !.pause = FALSE]

-----------------------------------------------------------------------------
(* The agent's run *)

\* A human types a message.  The checks of a /ugo take less time than that.
HumanMessage ==
  /\ run = "idle" /\ command # "checking"
  /\ run' = "running"
  /\ UNCHANGED <<entry, mem, tool, guidance, ending, loop, scan, command, step, other, historyVars>>

\* A run edits files, unless it is a reflection: that has no tools.
Edit(files) ==
  /\ run = "running" /\ entry.phase # "do_retrospective"
  /\ IF loop.at \in {"guide", "do"} \/ (entry.phase = "do" /\ ~entry.completed)
     THEN step' = (IF step = "source" THEN step ELSE files) /\ UNCHANGED other
     ELSE other' = (other \/ files = "source") /\ UNCHANGED step
  /\ UNCHANGED <<sessionVars, loop, scan, command, historyVars>>

\* present_guidance with valid parameters: the instance's own state is appended.
PresentGuidance(outcome) ==
  /\ run = "running" /\ tool
  /\ guidance' = outcome
  /\ entry' = IF mem.phase = "none" THEN entry ELSE mem
  /\ UNCHANGED <<mem, tool, run, ending, loop, scan, command, step, other, historyVars>>

\* agent_end of a do: the reflection follows in the same run.
QueueReflection ==
  /\ run = "running" /\ entry.phase = "do"
  /\ entry' = [entry EXCEPT !.phase = "do_retrospective", !.completed = FALSE]
  /\ mem' = entry'
  /\ UNCHANGED <<tool, guidance, run, ending, loop, scan, command, step, other, historyVars>>

\* agent_end of a reflection, up to the commit.
ReflectionEnds(reflection) ==
  /\ run = "running" /\ entry.phase = "do_retrospective"
  /\ run' = "ending"
  /\ ending' = [entry EXCEPT !.phase = "do", !.completed = TRUE, !.reflection = reflection]
  /\ owed' = reflection
  /\ UNCHANGED <<entry, mem, tool, guidance, loop, scan, command, step, other,
                 session, starter, asked>>

\* The run ends otherwise, by a stop that means nothing to ugo, an error or an Escape.
RunEnds ==
  /\ run = "running"
  /\ run' = "idle"
  /\ IF loop.at = "guide" /\ guidance # "none"
     THEN loop' = [loop EXCEPT !.at = "check", !.guidance = guidance] /\ UNCHANGED entry
     ELSE /\ loop' = IF loop.at \in {"guide", "do"} THEN NoLoop ELSE loop
          /\ entry' = IF loop.at = "guide" THEN Paused(loop.state) ELSE entry
  /\ UNCHANGED <<mem, tool, guidance, ending, scan, command, step, other, historyVars>>

\* Pi rejects the loop's prompt: its call throws.
PromptFails ==
  /\ run = "running" /\ loop.at \in {"guide", "do"}
  /\ run' = "idle" /\ loop' = NoLoop
  /\ UNCHANGED <<entry, mem, tool, guidance, ending, scan, command, step, other, historyVars>>

\* The session's instance records its new state at the end of a do.
Record(s) ==
  /\ entry' = s /\ mem' = s
  /\ tool' = FALSE /\ run' = "idle" /\ ending' = NoState
  /\ UNCHANGED guidance

\* Wrong: a failed commit is reported, and the loop goes on.
ReflectionCommittedAnyway(ok) ==
  /\ run = "ending"
  /\ Commit(ok)
  /\ UNCHANGED <<asked, owed>>
  /\ \/ loop.at # "do" /\ Record(ending) /\ UNCHANGED <<loop, scan, command, session, starter>>
     \/ loop.at = "do" /\ Replace(GuideState(ending), "loop")

\* The rest of agent_end, and of the loop's wait for the run: with the do committed, and
\* no pause in the state held, the next guide starts at once.
ReflectionCommitted(ok) ==
  LET pauses == ~ok \/ ending.pause
  IN  /\ run = "ending"
      /\ Commit(ok)
      /\ UNCHANGED <<asked, owed>>
      /\ \/ /\ pauses \/ loop.at # "do"
            /\ Record(IF pauses THEN [ending EXCEPT !.phase = "paused", !.pause = ~ok /\ @] ELSE ending)
            /\ loop' = IF loop.at = "do" THEN NoLoop ELSE loop
            /\ UNCHANGED <<scan, command, session, starter>>
         \/ ~pauses /\ loop.at = "do" /\ Replace(GuideState(ending), "loop")
         \/ ~pauses /\ loop.at = "do" /\ Record(ending) /\ Leave(NoScan)

-----------------------------------------------------------------------------
(* The loop after a guide *)

\* The decision's artifact must exist, and no other guidance may have written one.
CheckGuidance ==
  /\ loop.at = "check"
  /\ \/ /\ loop' = [loop EXCEPT !.at = "commit"]
        /\ UNCHANGED <<sessionVars, scan, command, historyVars>>
     \/ LoopPauses(loop.state)
     \/ /\ loop.guidance # "decision"   \* git status itself fails
        /\ loop' = NoLoop
        /\ UNCHANGED <<sessionVars, scan, command, historyVars>>
  /\ UNCHANGED <<step, other>>

\* Wrong: the reflection that the guide has seen stays in the state.
AwaitHumanKeeping(phase) ==
  /\ entry' = [loop.state EXCEPT !.phase = phase]
  /\ loop' = NoLoop /\ scan' = Armed
  /\ owed' = None
  /\ UNCHANGED <<mem, tool, guidance, run, ending, command, session, starter, asked>>

\* The loop waits for the human: the watchers are armed.
AwaitHuman(phase) ==
  /\ entry' = [loop.state EXCEPT !.phase = phase, !.reflection = None]
  /\ loop' = NoLoop /\ scan' = Armed
  /\ owed' = None
  /\ UNCHANGED <<mem, tool, guidance, run, ending, command, session, starter, asked>>

\* The guidance is acted on: the reflection it has seen is dropped.
ActOnGuidance ==
  \/ /\ loop.guidance = "work"
     /\ \/ /\ Replace(DoState([loop.state EXCEPT !.reflection = None]), "loop")
           /\ owed' = None /\ UNCHANGED asked
        \/ UNCHANGED <<sessionVars, asked, owed>> /\ Leave(NoScan)
  \/ loop.guidance = "decision" /\ AwaitHuman("awaiting_decision")
  \/ loop.guidance = "empty" /\ AwaitHuman("empty")

\* Wrong: looks for a pause in the state the guide began with.
GuidanceCommittedEarlyRead(ok) ==
  /\ loop.at = "commit"
  /\ Commit(ok)
  /\ IF ~ok \/ loop.state.pause THEN LoopPauses(loop.state) ELSE ActOnGuidance

\* A pause is looked for in the session's entries once the commit is done.
GuidanceCommitted(ok) ==
  /\ loop.at = "commit"
  /\ Commit(ok)
  /\ IF ~ok \/ entry.pause THEN LoopPauses(loop.state) ELSE ActOnGuidance

-----------------------------------------------------------------------------
(* The watchers *)

\* A watched file changed, and 250 ms have passed.
ScanStarts ==
  /\ scan.at = "armed"
  /\ entry.phase \in {"awaiting_decision", "empty"}
  /\ scan' = [at |-> "checking", state |-> entry]
  /\ UNCHANGED <<sessionVars, loop, command, step, other, historyVars>>

\* There is no signal yet, or other files are dirty.
ScanIdles ==
  /\ scan.at = "checking"
  /\ scan' = Armed
  /\ UNCHANGED <<sessionVars, loop, command, step, other, historyVars>>

\* A decision is applied by a do session, an edited workboard is read by a guide session.
ScanFires ==
  LET next == IF scan.state.phase = "empty"
              THEN [GuideState(scan.state) EXCEPT !.completed = TRUE] ELSE DoState(scan.state)
  IN  /\ scan.at = "checking" /\ Clean
      /\ \/ Replace(next, "scan")
         \/ UNCHANGED sessionVars /\ Leave(NoScan)
      /\ UNCHANGED <<step, other, asked, owed>>

-----------------------------------------------------------------------------
(* Commands *)

\* /ugo, once the agent is idle.
UgoCommand ==
  /\ run = "idle" /\ command # "checking"
  /\ command' = "checking"
  /\ UNCHANGED <<sessionVars, loop, scan, step, other, historyVars>>

\* No repository, no workboard, or dirty source files.
UgoCannotRun ==
  /\ command = "checking"
  /\ command' = "none"
  /\ UNCHANGED <<sessionVars, loop, scan, step, other, historyVars>>

\* Wrong: only a running do counts as running.
DoRuns(s) == s.phase = "do_retrospective" \/ (s.phase = "do" /\ ~s.completed)

\* What /ugo takes for a running loop.
LooksRunning(s) ==
  s.phase \in {"guide", "do_retrospective"} \/ (s.phase = "do" /\ ~s.completed)

UgoStarts ==
  /\ command = "checking" /\ Clean
  /\ IF LooksRunning(entry)
     THEN command' = "refused" /\ UNCHANGED <<sessionVars, loop, scan, historyVars>>
     ELSE \/ /\ Replace([GuideState(entry) EXCEPT !.completed = (entry.phase # "none")], "ugo")
             /\ asked' = "no" /\ UNCHANGED owed
          \/ /\ command' = "none" /\ UNCHANGED <<sessionVars, loop, scan, historyVars>>
  /\ UNCHANGED <<step, other>>

\* A pause asked for while agent_end commits or a watcher checks comes late.
UgoPause ==
  /\ entry.phase \notin {"none", "paused"}
  /\ LET waits == entry.phase \in {"awaiting_decision", "empty"} \/ (entry.phase = "do" /\ entry.completed)
     IN  /\ entry' = IF waits THEN Paused(entry) ELSE [entry EXCEPT !.pause = TRUE]
         /\ mem' = entry'
         /\ tool' = (tool /\ ~waits)
  /\ asked' = IF asked # "kept" /\ (run = "ending" \/ scan.at = "checking") THEN "late" ELSE "kept"
  /\ UNCHANGED <<guidance, run, ending, loop, scan, command, step, other, session, starter, owed>>

-----------------------------------------------------------------------------
(* The environment *)

\* A human edits source files, or commits or drops all changes.
HumanEdits ==
  /\ \/ other' = TRUE /\ UNCHANGED step
     \/ other' = FALSE /\ step' = "none"
  /\ UNCHANGED <<sessionVars, loop, scan, command, historyVars>>

\* Pi ends or is killed, and the session is resumed later; or extensions are reloaded.
Restart ==
  /\ mem' = entry /\ tool' = (entry.phase = "guide")
  /\ run' = "idle" /\ ending' = NoState
  /\ loop' = NoLoop /\ scan' = NoScan /\ command' = "none"
  /\ UNCHANGED <<entry, guidance, step, other, historyVars>>

Init ==
  /\ entry = NoState /\ mem = NoState /\ tool = FALSE /\ guidance = "none"
  /\ run = "idle" /\ ending = NoState
  /\ loop = NoLoop /\ scan = NoScan /\ command = "none"
  /\ step = "none" /\ other \in BOOLEAN
  /\ session = FALSE /\ starter = "none" /\ asked = "no" /\ owed = None

Next ==
  \/ HumanMessage \/ QueueReflection \/ RunEnds \/ PromptFails
  \/ \E files \in {"workflow", "source"} : Edit(files)
  \/ \E outcome \in Outcomes : PresentGuidance(outcome)
  \/ \E reflection \in Reflections : ReflectionEnds(reflection)
  \/ \E ok \in BOOLEAN : ReflectionCommitted(ok) \/ GuidanceCommitted(ok)
  \/ CheckGuidance
  \/ ScanStarts \/ ScanIdles \/ ScanFires
  \/ UgoCommand \/ UgoCannotRun \/ UgoStarts \/ UgoPause
  \/ HumanEdits \/ Restart

Spec == Init /\ [][Next]_vars

-----------------------------------------------------------------------------
\* Every variable keeps its type.
TypeOK ==
  /\ entry \in UgoState /\ mem \in UgoState /\ ending \in UgoState
  /\ tool \in BOOLEAN /\ other \in BOOLEAN /\ session \in BOOLEAN
  /\ guidance \in Outcomes \cup {"none"}
  /\ run \in {"idle", "running", "ending"}
  /\ loop \in LoopState
  /\ scan \in [at : {"none", "armed", "checking"}, state : UgoState]
  /\ command \in {"none", "checking", "refused"}
  /\ step \in {"none", "workflow", "source"}
  /\ starter \in {"none", "ugo", "loop", "scan"}
  /\ asked \in {"no", "kept", "late"}
  /\ owed \in Reflections \cup {None}

Started == session' # session

\* No session starts on source changes that an earlier guide or do has left uncommitted.
StepCommitted == [][Started => step' # "source"]_vars

\* The reflection of a do is in the state of the next guide, and of every further one until
\* a guidance is acted on, through pauses, failed commits and restarts.
ReflectionReachesGuide ==
  [][Started /\ entry'.phase = "guide" => entry'.reflection = owed']_vars

\* After a /ugo-pause only /ugo starts a session, unless the pause came late.
PauseKept == [][Started /\ starter' # "ugo" => asked # "kept"]_vars

\* After any /ugo-pause the loop goes no further (HOWTO-UGO.md: during a do it pauses after
\* the reflection and the checkpoint commit).
PauseHonoured == [][Started /\ starter' = "loop" => asked = "no"]_vars

\* /ugo never starts a second loop beside one that is under way.
SingleLoop == [][Started /\ starter' = "ugo" => loop.at = "none"]_vars

\* /ugo refuses to resume a do only while the loop waits for it.
RefusalIsTrue ==
  [][command # "refused" /\ command' = "refused" /\ entry.phase # "guide" => loop.at # "none"]_vars
=============================================================================
