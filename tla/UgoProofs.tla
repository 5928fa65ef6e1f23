------------------------------- MODULE UgoProofs -------------------------------
(***************************************************************************)
(* The properties of Ugo, for any set of reflections.  The inductive       *)
(* invariant relates what the loop holds across its awaits to what the     *)
(* session's entries say meanwhile.                                        *)
(***************************************************************************)
EXTENDS Ugo, TLAPS

\* While the loop is in a guide session, the session's entries and instance say so; while it
\* waits for a do, /ugo takes that for a running loop.
LoopHeld ==
  /\ loop.at \in {"guide", "check", "commit"} =>
       /\ entry.phase = "guide" /\ mem.phase = "guide" /\ mem.pause = entry.pause
       /\ loop.state.reflection = owed
  /\ loop.at = "do" => entry.phase # "guide" /\ LooksRunning(entry)

\* present_guidance is active only in a guide session.
ToolHeld == tool => mem.phase = "guide" /\ entry.phase \notin {"none", "do", "do_retrospective"}

\* agent_end commits a do whose reflection is the one to act on.
EndingHeld ==
  run = "ending" =>
    /\ entry.phase = "do_retrospective"
    /\ ending.phase = "do" /\ ending.completed /\ ending.reflection = owed

\* Watchers run in a session that the loop has left, with no reflection to act on.
ScanHeld ==
  /\ scan.at # "none" =>
       loop.at = "none" /\ owed = None /\ entry.phase \notin {"none", "do", "do_retrospective"}
  /\ scan.at = "checking" =>
       scan.state.phase \in {"awaiting_decision", "empty"} /\ scan.state.reflection = None

\* A state that /ugo resumes holds the reflection to act on.
ReflectionHeld == ~LooksRunning(entry) => entry.reflection = owed

\* A pause that came in time is held wherever the loop and its watchers will look for it.
PauseHeld ==
  asked = "kept" =>
    /\ loop.at # "none" => IF run = "ending" THEN ending.pause ELSE entry.pause
    /\ scan.at # "checking"
    /\ scan.at = "armed" => entry.phase \notin {"awaiting_decision", "empty"}

IInv == TypeOK /\ LoopHeld /\ ToolHeld /\ EndingHeld /\ ScanHeld /\ ReflectionHeld /\ PauseHeld

-----------------------------------------------------------------------------
(* New sessions and new states *)

\* A guide starts with the reflection of the state it comes from, and a do without a result.
LEMMA DerivedStates ==
  ASSUME NEW s \in UgoState, NEW c \in BOOLEAN
  PROVE  /\ GuideState(s) \in UgoState /\ GuideState(s).phase = "guide"
         /\ GuideState(s).reflection = s.reflection
         /\ [GuideState(s) EXCEPT !.completed = c] \in UgoState
         /\ [GuideState(s) EXCEPT !.completed = c].phase = "guide"
         /\ [GuideState(s) EXCEPT !.completed = c].reflection = s.reflection
         /\ DoState(s) \in UgoState /\ DoState(s).phase = "do" /\ ~DoState(s).completed
         /\ [s EXCEPT !.reflection = None] \in UgoState
BY DEF UgoState, Phases, GuideState, DoState

\* A paused state keeps its reflection, and asks for no further pause.
LEMMA PausedFields ==
  ASSUME NEW s \in UgoState
  PROVE  /\ Paused(s) \in UgoState /\ Paused(s).phase = "paused" /\ ~Paused(s).pause
         /\ Paused(s).reflection = s.reflection
BY DEF UgoState, Phases, Paused

\* No state, no loop, and watchers that hold no state yet.
LEMMA NothingHeld ==
  /\ NoState \in UgoState
  /\ NoLoop \in LoopState /\ NoLoop.at = "none"
  /\ {NoScan, Armed} \subseteq [at : {"none", "armed", "checking"}, state : UgoState]
  /\ NoScan.at = "none" /\ Armed.at = "armed"
<1>1. NoState \in UgoState
  BY DEF UgoState, Phases, NoState
<1>2. NoLoop \in LoopState /\ NoLoop.at = "none"
  BY <1>1 DEF NoLoop, LoopState
<1>3. NoScan \in [at : {"none", "armed", "checking"}, state : UgoState] /\ NoScan.at = "none"
  BY <1>1 DEF NoScan
<1>4. Armed \in [at : {"none", "armed", "checking"}, state : UgoState] /\ Armed.at = "armed"
  BY <1>3 DEF Armed
<1> QED
  BY <1>1, <1>2, <1>3, <1>4

\* The invariant holds before /ugo is first called.
LEMMA InitIInv == Init => IInv
<1> SUFFICES ASSUME Init PROVE IInv
  OBVIOUS
<1>2. TypeOK
  BY NothingHeld DEF Init, TypeOK, NoScan, Outcomes
<1>3. LoopHeld /\ ToolHeld /\ EndingHeld /\ ScanHeld /\ ReflectionHeld /\ PauseHeld
  BY DEF Init, LoopHeld, ToolHeld, EndingHeld, ScanHeld, ReflectionHeld, PauseHeld, NoState,
         NoLoop, NoScan
<1> QED
  BY <1>2, <1>3 DEF IInv

\* A new session with the reflection to act on keeps the invariant.
LEMMA ReplaceIInv ==
  ASSUME TypeOK, NEW s \in UgoState, NEW by \in {"ugo", "loop", "scan"}, Replace(s, by),
         s.phase = "guide" \/ (s.phase = "do" /\ ~s.completed),
         s.phase = "guide" => s.reflection = owed',
         owed' \in Reflections \cup {None},
         asked' \in {"no", "late"},
         step' \in {"none", "workflow", "source"}, other' \in BOOLEAN
  PROVE  IInv'
<1>2. TypeOK'
  BY NothingHeld DEF TypeOK, Replace, LoopState
<1>3. (LoopHeld /\ ToolHeld /\ EndingHeld /\ ScanHeld /\ ReflectionHeld)'
  BY DEF LoopHeld, ToolHeld, EndingHeld, ScanHeld, ReflectionHeld, LooksRunning, Replace, NoScan
<1>4. PauseHeld'
  BY DEF PauseHeld
<1> QED
  BY <1>2, <1>3, <1>4 DEF IInv

-----------------------------------------------------------------------------
(* Steps *)

\* A step outside the session and its loop.
LEMMA QuietStep ==
  ASSUME IInv, UNCHANGED <<sessionVars, loop, scan, historyVars>>,
         command' \in {"none", "checking", "refused"},
         step' \in {"none", "workflow", "source"}, other' \in BOOLEAN
  PROVE  IInv'
BY DEF IInv, TypeOK, LoopHeld, ToolHeld, EndingHeld, ScanHeld, ReflectionHeld, PauseHeld,
       LooksRunning, sessionVars, historyVars

\* The agent's run, up to the commit of its end.
LEMMA RunStep ==
  ASSUME IInv,
         \/ HumanMessage \/ QueueReflection \/ RunEnds \/ PromptFails
         \/ \E outcome \in Outcomes : PresentGuidance(outcome)
         \/ \E reflection \in Reflections : ReflectionEnds(reflection)
  PROVE  IInv'
<1> USE DEF IInv, historyVars
<1>1. CASE HumanMessage
  BY <1>1 DEF HumanMessage, TypeOK, LoopHeld, ToolHeld, EndingHeld, ScanHeld, ReflectionHeld,
              PauseHeld, LooksRunning
<1>2. CASE QueueReflection
  <2>1. entry' \in UgoState
    BY <1>2 DEF QueueReflection, TypeOK, UgoState, Phases
  <2>2. TypeOK'
    BY <1>2, <2>1 DEF QueueReflection, TypeOK
  <2>3. entry'.phase = "do_retrospective" /\ entry'.pause = entry.pause
    BY <1>2 DEF QueueReflection, TypeOK, UgoState
  <2>4. (LoopHeld /\ ToolHeld /\ EndingHeld /\ ScanHeld /\ ReflectionHeld)'
    BY <1>2, <2>3 DEF QueueReflection, LoopHeld, ToolHeld, EndingHeld, ScanHeld, ReflectionHeld,
                      LooksRunning
  <2>5. PauseHeld'
    BY <1>2, <2>3 DEF QueueReflection, PauseHeld
  <2> QED
    BY <2>2, <2>4, <2>5
<1>3. CASE RunEnds
  <2>1. CASE loop.at = "guide" /\ guidance # "none"
    <3>1. loop' = [loop EXCEPT !.at = "check", !.guidance = guidance] /\ entry' = entry
      BY <1>3, <2>1 DEF RunEnds
    <3>2. loop' \in LoopState /\ loop'.at = "check" /\ loop'.state = loop.state
      BY <3>1 DEF TypeOK, LoopState
    <3>3. TypeOK'
      BY <1>3, <3>1, <3>2 DEF RunEnds, TypeOK
    <3>4. (LoopHeld /\ ToolHeld /\ EndingHeld /\ ScanHeld /\ ReflectionHeld /\ PauseHeld)'
      BY <1>3, <2>1, <3>1, <3>2 DEF RunEnds, LoopHeld, ToolHeld, EndingHeld, ScanHeld,
                                    ReflectionHeld, PauseHeld, LooksRunning
    <3> QED
      BY <3>3, <3>4
  <2>2. CASE ~(loop.at = "guide" /\ guidance # "none")
    <3>1. /\ loop' = NoLoop \/ (loop' = loop /\ loop.at # "guide")
          /\ IF loop.at = "guide" THEN entry' = Paused(loop.state) ELSE entry' = entry
      BY <1>3, <2>2 DEF RunEnds
    <3>2. NoLoop \in LoopState /\ NoLoop.at = "none"
      BY NothingHeld
    <3>3. Paused(loop.state) \in UgoState
          /\ Paused(loop.state).phase = "paused"
          /\ Paused(loop.state).reflection = loop.state.reflection
      BY PausedFields DEF TypeOK, LoopState
    <3>4. TypeOK'
      BY <1>3, <3>1, <3>2, <3>3 DEF RunEnds, TypeOK
    <3>5. (LoopHeld /\ ToolHeld /\ EndingHeld /\ ScanHeld /\ ReflectionHeld /\ PauseHeld)'
      BY <1>3, <3>1, <3>2, <3>3 DEF RunEnds, LoopHeld, ToolHeld, EndingHeld, ScanHeld,
                                    ReflectionHeld, PauseHeld, LooksRunning
    <3> QED
      BY <3>4, <3>5
  <2> QED
    BY <2>1, <2>2
<1>4. CASE PromptFails
  <2>1. TypeOK'
    BY <1>4, NothingHeld DEF PromptFails, TypeOK
  <2>2. (LoopHeld /\ ToolHeld /\ EndingHeld /\ ScanHeld /\ ReflectionHeld /\ PauseHeld)'
    BY <1>4 DEF PromptFails, NoLoop, LoopHeld, ToolHeld, EndingHeld, ScanHeld, ReflectionHeld,
                PauseHeld, LooksRunning
  <2> QED
    BY <2>1, <2>2
<1>5. ASSUME NEW outcome \in Outcomes, PresentGuidance(outcome) PROVE IInv'
  <2>1. TypeOK'
    BY <1>5 DEF PresentGuidance, TypeOK
  <2>2. entry' = mem /\ mem.phase = "guide" /\ run = "running"
    BY <1>5 DEF PresentGuidance, ToolHeld
  <2>3. (LoopHeld /\ ToolHeld /\ EndingHeld /\ ScanHeld /\ ReflectionHeld /\ PauseHeld)'
    <3>1. loop.at # "do"
      BY <1>5 DEF PresentGuidance, ToolHeld, LoopHeld, LooksRunning
    <3>2. loop.at # "none" => entry'.pause = entry.pause /\ loop.state.reflection = owed
      BY <2>2, <3>1 DEF LoopHeld, TypeOK, LoopState
    <3>3. (LoopHeld /\ ToolHeld /\ EndingHeld)'
      BY <1>5, <2>2, <3>1, <3>2 DEF PresentGuidance, LoopHeld, ToolHeld, EndingHeld, LooksRunning
    <3>4. (ScanHeld /\ ReflectionHeld)'
      BY <1>5, <2>2 DEF PresentGuidance, ScanHeld, ReflectionHeld, LooksRunning
    <3>5. PauseHeld'
      BY <1>5, <2>2, <3>2 DEF PresentGuidance, PauseHeld
    <3> QED
      BY <3>3, <3>4, <3>5
  <2> QED
    BY <2>1, <2>3
<1>6. ASSUME NEW reflection \in Reflections, ReflectionEnds(reflection) PROVE IInv'
  <2>1. ending' \in UgoState
    BY <1>6 DEF ReflectionEnds, TypeOK, UgoState, Phases
  <2>4. TypeOK'
    <3>1. /\ run' = "ending" /\ owed' = reflection
          /\ UNCHANGED <<entry, mem, tool, guidance, loop, scan, command, step, other,
                         session, starter, asked>>
      BY <1>6 DEF ReflectionEnds
    <3> QED
      BY <2>1, <3>1 DEF TypeOK
  <2>2. /\ ending'.phase = "do" /\ ending'.completed /\ ending'.reflection = owed'
        /\ ending'.pause = entry.pause
    BY <1>6 DEF ReflectionEnds, TypeOK, UgoState
  <2>3. (LoopHeld /\ ToolHeld /\ EndingHeld /\ ScanHeld /\ ReflectionHeld /\ PauseHeld)'
    BY <1>6, <2>2 DEF ReflectionEnds, LoopHeld, ToolHeld, EndingHeld, ScanHeld, ReflectionHeld,
                      PauseHeld, LooksRunning
  <2> QED
    BY <2>3, <2>4
<1> QED
  BY <1>1, <1>2, <1>3, <1>4, <1>5, <1>6

\* The loop pauses in its guide session, with the reflection still to act on.
LEMMA LoopPausesIInv ==
  ASSUME IInv, loop.at \in {"guide", "check", "commit"}, LoopPauses(loop.state),
         step' \in {"none", "workflow", "source"}, other' \in BOOLEAN
  PROVE  IInv'
<1> USE DEF IInv, historyVars
<1>1. Paused(loop.state) \in UgoState /\ Paused(loop.state).phase = "paused"
      /\ Paused(loop.state).reflection = owed
  BY PausedFields DEF TypeOK, LoopState, LoopHeld
<1>2. TypeOK'
  BY <1>1, NothingHeld DEF LoopPauses, TypeOK
<1>3. (LoopHeld /\ ToolHeld /\ EndingHeld /\ ScanHeld /\ ReflectionHeld /\ PauseHeld)'
  BY <1>1, NothingHeld DEF LoopPauses, LoopHeld, ToolHeld, EndingHeld, ScanHeld, ReflectionHeld,
                            PauseHeld, LooksRunning
<1> QED
  BY <1>2, <1>3

\* The loop arms its watchers and leaves, the reflection dropped.
LEMMA AwaitHumanIInv ==
  ASSUME IInv, NEW phase \in {"awaiting_decision", "empty"}, AwaitHuman(phase),
         loop.at = "commit", ~entry.pause,
         step' \in {"none", "workflow", "source"}, other' \in BOOLEAN
  PROVE  IInv'
<1> USE DEF IInv
<1>1. entry' \in UgoState /\ entry'.phase = phase /\ entry'.reflection = None
  BY DEF AwaitHuman, TypeOK, LoopState, UgoState, Phases
<1>2. scan' = Armed
  BY DEF AwaitHuman
<1>3. asked # "kept" /\ run # "ending"
  BY DEF PauseHeld, EndingHeld, LoopHeld
<1>4. TypeOK'
  BY <1>1, <1>2, NothingHeld DEF AwaitHuman, TypeOK
<1>5. (LoopHeld /\ ToolHeld /\ EndingHeld /\ ScanHeld /\ ReflectionHeld /\ PauseHeld)'
  BY <1>1, <1>2, <1>3, NothingHeld
     DEF AwaitHuman, LoopHeld, ToolHeld, EndingHeld, ScanHeld, ReflectionHeld, PauseHeld, LooksRunning
<1> QED
  BY <1>4, <1>5

\* The loop ends where it is, its session cancelled.
LEMMA LeaveIInv ==
  ASSUME IInv, UNCHANGED <<sessionVars, asked, owed>>, Leave(NoScan),
         step' \in {"none", "workflow", "source"}, other' \in BOOLEAN
  PROVE  IInv'
<1> USE DEF IInv, sessionVars
<1>1. scan' = NoScan /\ loop' = NoLoop /\ command' = "none" /\ UNCHANGED <<session, starter>>
  BY DEF Leave
<1>2. TypeOK'
  BY <1>1, NothingHeld DEF TypeOK
<1>3. (LoopHeld /\ ToolHeld /\ EndingHeld /\ ScanHeld /\ ReflectionHeld /\ PauseHeld)'
  BY <1>1, NothingHeld DEF Leave, LoopHeld, ToolHeld, EndingHeld, ScanHeld, ReflectionHeld,
                            PauseHeld, LooksRunning
<1> QED
  BY <1>2, <1>3

\* The end of a do: a pause, or the next guide with the do's reflection.
LEMMA ReflectionCommittedIInv ==
  ASSUME IInv, NEW ok \in BOOLEAN, ReflectionCommitted(ok)
  PROVE  IInv'
<1> USE DEF IInv
<1> DEFINE pauses == ~ok \/ ending.pause
           held == IF pauses
                   THEN [ending EXCEPT !.phase = "paused", !.pause = ~ok /\ @] ELSE ending
<1>1. /\ run = "ending" /\ UNCHANGED <<asked, owed>>
      /\ step' \in {"none", "workflow", "source"} /\ other' \in BOOLEAN
      /\ ending.phase = "do" /\ ending.completed /\ ending.reflection = owed
      /\ ending \in UgoState
  BY DEF ReflectionCommitted, Commit, EndingHeld, TypeOK
<1>2. loop.at \in {"none", "do"} /\ scan.at = "none"
  BY <1>1 DEF EndingHeld, LoopHeld, ScanHeld, TypeOK, LoopState
<1>3. ASSUME entry' = held, mem' = held, tool' = FALSE, run' = "idle", ending' = NoState,
             UNCHANGED guidance, loop' = NoLoop \/ (loop' = loop /\ loop.at # "do"),
             scan' = scan \/ scan' = NoScan, command' = command \/ command' = "none",
             UNCHANGED <<session, starter>>
      PROVE  IInv'
  <2>1. held \in UgoState /\ ~LooksRunning(held) /\ held.reflection = owed
    <3>1. CASE pauses
      BY <1>1, <3>1 DEF UgoState, Phases, LooksRunning
    <3>2. CASE ~pauses
      BY <1>1, <3>2 DEF LooksRunning
    <3> QED
      BY <3>1, <3>2
  <2> HIDE DEF held
  <2>2. TypeOK'
    BY <1>1, <1>3, <2>1, NothingHeld DEF TypeOK
  <2>3. (LoopHeld /\ ToolHeld /\ EndingHeld /\ ScanHeld /\ ReflectionHeld /\ PauseHeld)'
    BY <1>1, <1>2, <1>3, <2>1, NothingHeld
       DEF LoopHeld, ToolHeld, EndingHeld, ScanHeld, ReflectionHeld, PauseHeld
  <2> QED
    BY <2>2, <2>3
<1>4. CASE /\ pauses \/ loop.at # "do"
           /\ Record(held)
           /\ loop' = IF loop.at = "do" THEN NoLoop ELSE loop
           /\ UNCHANGED <<scan, command, session, starter>>
  BY <1>3, <1>4 DEF Record
<1>5. CASE ~pauses /\ loop.at = "do" /\ Replace(GuideState(ending), "loop")
  <2>1. asked' \in {"no", "late"}
    BY <1>1, <1>5 DEF PauseHeld, TypeOK
  <2>2. /\ GuideState(ending) \in UgoState /\ GuideState(ending).phase = "guide"
        /\ GuideState(ending).reflection = owed'
    BY <1>1, DerivedStates
  <2>3. owed' \in Reflections \cup {None}
    BY <1>1 DEF TypeOK
  <2> QED
    BY <1>1, <1>5, <2>1, <2>2, <2>3, ReplaceIInv
<1>6. CASE ~pauses /\ loop.at = "do" /\ Record(ending) /\ Leave(NoScan)
  BY <1>3, <1>6 DEF Record, Leave
<1> QED
  BY <1>4, <1>5, <1>6 DEF ReflectionCommitted

\* The end of a guide: a pause, a do, or the wait for a human.
LEMMA GuidanceCommittedIInv ==
  ASSUME IInv, NEW ok \in BOOLEAN, GuidanceCommitted(ok)
  PROVE  IInv'
<1>1. loop.at = "commit" /\ step' \in {"none", "workflow", "source"} /\ other' \in BOOLEAN
  BY DEF GuidanceCommitted, Commit, IInv, TypeOK
<1>2. CASE LoopPauses(loop.state)
  BY <1>1, <1>2, LoopPausesIInv
<1>3. CASE ~entry.pause /\ ActOnGuidance
  <2>1. CASE AwaitHuman("awaiting_decision")
    BY <1>1, <1>3, <2>1, AwaitHumanIInv
  <2>2. CASE AwaitHuman("empty")
    BY <1>1, <1>3, <2>2, AwaitHumanIInv
  <2>3. CASE UNCHANGED <<sessionVars, asked, owed>> /\ Leave(NoScan)
    BY <1>1, <2>3, LeaveIInv
  <2>4. CASE /\ Replace(DoState([loop.state EXCEPT !.reflection = None]), "loop")
             /\ owed' = None /\ UNCHANGED asked
    <3> DEFINE s == DoState([loop.state EXCEPT !.reflection = None])
    <3>1. loop.state \in UgoState
      BY DEF IInv, TypeOK, LoopState
    <3>2. s \in UgoState /\ s.phase = "do" /\ ~s.completed
      BY <3>1, DerivedStates
    <3>3. asked' \in {"no", "late"}
      BY <1>1, <1>3, <2>4 DEF IInv, TypeOK, PauseHeld, EndingHeld, LoopHeld
    <3> QED
      BY <1>1, <2>4, <3>2, <3>3, ReplaceIInv DEF IInv
  <2> QED
    BY <1>3, <2>1, <2>2, <2>3, <2>4 DEF ActOnGuidance
<1> QED
  BY <1>2, <1>3 DEF GuidanceCommitted

\* The checks between a guide and its commit.
LEMMA CheckGuidanceIInv ==
  ASSUME IInv, CheckGuidance
  PROVE  IInv'
<1>1. loop.at = "check" /\ step' \in {"none", "workflow", "source"} /\ other' \in BOOLEAN
  BY DEF CheckGuidance, IInv, TypeOK
<1>2. CASE LoopPauses(loop.state)
  BY <1>1, <1>2, LoopPausesIInv
<1>3. CASE UNCHANGED <<sessionVars, scan, command, historyVars>> /\
           loop' \in {NoLoop, [loop EXCEPT !.at = "commit"]}
  <2> USE DEF IInv, sessionVars, historyVars
  <2>1. loop' \in LoopState /\ (loop'.at = "none" \/ (loop'.at = "commit" /\ loop'.state = loop.state))
    BY <1>3, NothingHeld DEF TypeOK, LoopState
  <2>2. TypeOK'
    BY <1>1, <1>3, <2>1 DEF TypeOK
  <2>3. (LoopHeld /\ ToolHeld /\ EndingHeld /\ ScanHeld /\ ReflectionHeld /\ PauseHeld)'
    BY <1>1, <1>3, <2>1 DEF LoopHeld, ToolHeld, EndingHeld, ScanHeld, ReflectionHeld, PauseHeld,
                            LooksRunning
  <2> QED
    BY <2>2, <2>3
<1> QED
  BY <1>2, <1>3 DEF CheckGuidance

\* The watchers hold the state of a wait, and start a session from it.
LEMMA ScanIInv ==
  ASSUME IInv, ScanStarts \/ ScanIdles \/ ScanFires
  PROVE  IInv'
<1> USE DEF IInv
<1>1. CASE ScanStarts
  <2>1. /\ scan'.at = "checking" /\ scan'.state = entry
        /\ scan' \in [at : {"none", "armed", "checking"}, state : UgoState]
    BY <1>1 DEF ScanStarts, TypeOK
  <2>2. asked # "kept" /\ scan.at = "armed" /\ entry.phase \in {"awaiting_decision", "empty"}
    BY <1>1 DEF ScanStarts, PauseHeld
  <2>3. entry.reflection = None
    BY <2>2 DEF ReflectionHeld, ScanHeld, LooksRunning
  <2>4. TypeOK'
    BY <1>1, <2>1 DEF ScanStarts, TypeOK, sessionVars, historyVars
  <2>5. (LoopHeld /\ ToolHeld /\ EndingHeld /\ ScanHeld /\ ReflectionHeld /\ PauseHeld)'
    BY <1>1, <2>1, <2>2, <2>3
       DEF ScanStarts, sessionVars, historyVars, LoopHeld, ToolHeld, EndingHeld, ScanHeld,
           ReflectionHeld, PauseHeld, LooksRunning
  <2> QED
    BY <2>4, <2>5
<1>2. CASE ScanIdles
  <2>1. TypeOK'
    BY <1>2, NothingHeld DEF ScanIdles, TypeOK, sessionVars, historyVars
  <2>2. asked # "kept" /\ scan.at = "checking" /\ scan' = Armed
    BY <1>2 DEF ScanIdles, PauseHeld
  <2>3. (LoopHeld /\ ToolHeld /\ EndingHeld /\ ScanHeld /\ ReflectionHeld /\ PauseHeld)'
    BY <1>2, <2>2, NothingHeld
       DEF ScanIdles, sessionVars, historyVars, LoopHeld, ToolHeld, EndingHeld, ScanHeld,
           ReflectionHeld, PauseHeld, LooksRunning
  <2> QED
    BY <2>1, <2>3
<1>3. CASE ScanFires
  <2> DEFINE next == IF scan.state.phase = "empty"
                     THEN [GuideState(scan.state) EXCEPT !.completed = TRUE] ELSE DoState(scan.state)
  <2>1. /\ scan.at = "checking" /\ UNCHANGED <<step, other, asked, owed>>
        /\ step' \in {"none", "workflow", "source"} /\ other' \in BOOLEAN
        /\ owed' \in Reflections \cup {None}
    BY <1>3 DEF ScanFires, TypeOK
  <2>2. CASE UNCHANGED sessionVars /\ Leave(NoScan)
    BY <2>1, <2>2, LeaveIInv
  <2>3. CASE Replace(next, "scan")
    <3>1. scan.state \in UgoState /\ scan.state.reflection = owed'
      BY <2>1 DEF TypeOK, ScanHeld
    <3>2. /\ next \in UgoState
          /\ next.phase = "guide" \/ (next.phase = "do" /\ ~next.completed)
          /\ next.phase = "guide" => next.reflection = owed'
      BY <3>1, DerivedStates
    <3>3. asked' \in {"no", "late"}
      BY <2>1 DEF PauseHeld, TypeOK
    <3> HIDE DEF next
    <3> QED
      BY <2>1, <2>3, <3>2, <3>3, ReplaceIInv
  <2> QED
    BY <1>3, <2>2, <2>3 DEF ScanFires
<1> QED
  BY <1>1, <1>2, <1>3

\* Commands, a human's edits and restarts.
LEMMA CommandIInv ==
  ASSUME IInv, UgoStarts \/ UgoPause \/ Restart
  PROVE  IInv'
<1> USE DEF IInv
<1>1. CASE UgoStarts
  <2> DEFINE next == [GuideState(entry) EXCEPT !.completed = (entry.phase # "none")]
  <2>1. /\ UNCHANGED <<step, other>>
        /\ step' \in {"none", "workflow", "source"} /\ other' \in BOOLEAN
    BY <1>1 DEF UgoStarts, TypeOK
  <2>2. CASE /\ command' \in {"none", "refused"}
             /\ UNCHANGED <<sessionVars, loop, scan, historyVars>>
    BY <2>1, <2>2, QuietStep
  <2>3. CASE ~LooksRunning(entry) /\ Replace(next, "ugo") /\ asked' = "no" /\ UNCHANGED owed
    <3>1. entry \in UgoState /\ entry.reflection = owed' /\ owed' \in Reflections \cup {None}
      BY <2>3 DEF TypeOK, ReflectionHeld
    <3>2. next \in UgoState /\ next.phase = "guide" /\ next.reflection = owed'
      BY <3>1, DerivedStates
    <3> HIDE DEF next
    <3> QED
      BY <2>1, <2>3, <3>1, <3>2, ReplaceIInv
  <2> QED
    BY <1>1, <2>2, <2>3 DEF UgoStarts
<1>2. CASE UgoPause
  <2> DEFINE waits == \/ entry.phase \in {"awaiting_decision", "empty"}
                      \/ (entry.phase = "do" /\ entry.completed)
             late == asked # "kept" /\ (run = "ending" \/ scan.at = "checking")
  <2>1. /\ entry' \in UgoState /\ entry'.reflection = entry.reflection
        /\ IF waits THEN entry'.phase = "paused"
           ELSE entry'.phase = entry.phase /\ entry'.completed = entry.completed /\ entry'.pause
    BY <1>2, PausedFields DEF UgoPause, TypeOK, UgoState
  <2>2. /\ mem' = entry' /\ tool' = (tool /\ ~waits)
        /\ asked' = IF late THEN "late" ELSE "kept"
        /\ UNCHANGED <<guidance, run, ending, loop, scan, command, step, other, session,
                       starter, owed>>
    BY <1>2 DEF UgoPause
  <2>3. waits => ~LooksRunning(entry) /\ run # "ending" /\ loop.at = "none"
    BY DEF LooksRunning, LoopHeld, EndingHeld, TypeOK, LoopState
  <2>4. TypeOK'
    BY <2>1, <2>2 DEF TypeOK
  <2>5. (LoopHeld /\ EndingHeld /\ ScanHeld /\ ReflectionHeld)'
    BY <2>1, <2>2, <2>3 DEF LoopHeld, EndingHeld, ScanHeld, ReflectionHeld, LooksRunning
  <2>6. ToolHeld'
    BY <2>1, <2>2, <1>2 DEF ToolHeld, UgoPause, TypeOK, UgoState, Phases
  <2>7. PauseHeld'
    BY <2>1, <2>2, <2>3 DEF PauseHeld, LoopHeld
  <2> QED
    BY <2>4, <2>5, <2>6, <2>7
<1>3. CASE Restart
  <2>1. TypeOK'
    BY <1>3, NothingHeld DEF Restart, TypeOK, historyVars
  <2>2. (LoopHeld /\ ToolHeld /\ EndingHeld /\ ScanHeld /\ ReflectionHeld /\ PauseHeld)'
    BY <1>3, NothingHeld DEF Restart, historyVars, LoopHeld, ToolHeld, EndingHeld, ScanHeld,
                             ReflectionHeld, PauseHeld, LooksRunning
  <2> QED
    BY <2>1, <2>2
<1> QED
  BY <1>1, <1>2, <1>3

\* Every step keeps the invariant.
LEMMA StepIInv == IInv /\ [Next]_vars => IInv'
<1> SUFFICES ASSUME IInv, [Next]_vars PROVE IInv'
  OBVIOUS
<1>1. ASSUME NEW files \in {"workflow", "source"}, Edit(files) PROVE IInv'
  BY <1>1, QuietStep DEF Edit, IInv, TypeOK
<1>2. CASE UgoCommand \/ UgoCannotRun \/ HumanEdits
  BY <1>2, QuietStep DEF UgoCommand, UgoCannotRun, HumanEdits, IInv, TypeOK
<1>3. CASE UNCHANGED vars
  BY <1>3, QuietStep DEF vars, IInv, TypeOK
<1> QED
  BY <1>1, <1>2, <1>3, RunStep, ReflectionCommittedIInv, CheckGuidanceIInv,
     GuidanceCommittedIInv, ScanIInv, CommandIInv DEF Next

\* The invariant holds throughout.
LEMMA Invariant == Spec => []IInv
BY InitIInv, StepIInv, PTL DEF Spec

-----------------------------------------------------------------------------
(* The properties *)

\* The variables have their types.
THEOREM TypeCorrect == Spec => []TypeOK
BY Invariant, PTL DEF IInv

\* What starts a session: a do committed, a guide committed, a watcher or a /ugo.
LEMMA SessionStarts ==
  ASSUME IInv, [Next]_vars, Started
  PROVE  \/ /\ ReflectionCommitted(TRUE) /\ ~ending.pause /\ loop.at = "do"
            /\ Replace(GuideState(ending), "loop")
         \/ /\ GuidanceCommitted(TRUE) /\ ~entry.pause /\ loop.at = "commit"
            /\ Replace(DoState([loop.state EXCEPT !.reflection = None]), "loop")
         \/ /\ ScanFires /\ \E s \in {DoState(scan.state),
                                      [GuideState(scan.state) EXCEPT !.completed = TRUE]} :
                               Replace(s, "scan")
         \/ /\ UgoStarts /\ ~LooksRunning(entry)
            /\ Replace([GuideState(entry) EXCEPT !.completed = (entry.phase # "none")], "ugo")
<1>1. CASE \/ HumanMessage \/ QueueReflection \/ RunEnds \/ PromptFails
           \/ \E files \in {"workflow", "source"} : Edit(files)
           \/ \E outcome \in Outcomes : PresentGuidance(outcome)
           \/ \E reflection \in Reflections : ReflectionEnds(reflection)
  BY <1>1 DEF HumanMessage, QueueReflection, RunEnds, PromptFails, Edit, PresentGuidance,
              ReflectionEnds, Started, historyVars
<1>2. CASE \/ CheckGuidance \/ ScanStarts \/ ScanIdles \/ UgoCommand \/ UgoCannotRun \/ UgoPause
           \/ HumanEdits \/ Restart \/ UNCHANGED vars
  BY <1>2 DEF CheckGuidance, ScanStarts, ScanIdles, UgoCommand, UgoCannotRun, UgoPause, HumanEdits,
              Restart, LoopPauses, Started, historyVars, vars
<1>3. ASSUME NEW ok \in BOOLEAN, ReflectionCommitted(ok)
      PROVE  /\ ReflectionCommitted(TRUE) /\ ~ending.pause /\ loop.at = "do"
             /\ Replace(GuideState(ending), "loop")
  BY <1>3 DEF ReflectionCommitted, Leave, Started
<1>4. ASSUME NEW ok \in BOOLEAN, GuidanceCommitted(ok)
      PROVE  /\ GuidanceCommitted(TRUE) /\ ~entry.pause /\ loop.at = "commit"
             /\ Replace(DoState([loop.state EXCEPT !.reflection = None]), "loop")
  BY <1>4 DEF GuidanceCommitted, ActOnGuidance, AwaitHuman, LoopPauses, Leave, Started, historyVars
<1>5. CASE ScanFires
  BY <1>5 DEF ScanFires, Leave, Started
<1>6. CASE UgoStarts
  BY <1>6 DEF UgoStarts, Started, historyVars
<1> QED
  BY <1>1, <1>2, <1>3, <1>4, <1>5, <1>6 DEF Next

\* No session starts on source changes of an earlier guide or do.
THEOREM StepCommittedHolds == Spec => StepCommitted
<1>1. IInv /\ [Next]_vars => [Started => step' # "source"]_vars
  BY SessionStarts DEF ReflectionCommitted, GuidanceCommitted, Commit, ScanFires, UgoStarts, Clean
<1> QED
  BY <1>1, Invariant, PTL DEF Spec, StepCommitted

\* Each guide session starts with the reflection of the last do, until a guidance is acted on.
THEOREM ReflectionReachesGuideHolds == Spec => ReflectionReachesGuide
<1>1. IInv /\ IInv' /\ [Next]_vars =>
        [Started /\ entry'.phase = "guide" => entry'.reflection = owed']_vars
  <2> SUFFICES ASSUME IInv, IInv', [Next]_vars, Started, entry'.phase = "guide"
               PROVE  entry'.reflection = owed'
    OBVIOUS
  <2>1. \E s, by : Replace(s, by)
    BY SessionStarts
  <2>2. loop'.at = "guide" /\ loop'.state = entry'
    BY <2>1 DEF Replace
  <2> QED
    BY <2>2 DEF IInv, LoopHeld
<1> QED
  BY <1>1, Invariant, PTL DEF Spec, ReflectionReachesGuide

\* After a /ugo-pause that did not come late, only /ugo starts a session.
THEOREM PauseKeptHolds == Spec => PauseKept
<1>1. IInv /\ [Next]_vars => [Started /\ starter' # "ugo" => asked # "kept"]_vars
  <2> SUFFICES ASSUME IInv, [Next]_vars, Started, starter' # "ugo"
               PROVE  asked # "kept"
    OBVIOUS
  <2> QED
    BY SessionStarts DEF ReflectionCommitted, ScanFires, Replace, IInv, PauseHeld, LoopHeld, EndingHeld
<1> QED
  BY <1>1, Invariant, PTL DEF Spec, PauseKept

\* /ugo never starts a loop beside another.
THEOREM SingleLoopHolds == Spec => SingleLoop
<1>1. IInv /\ [Next]_vars => [Started /\ starter' = "ugo" => loop.at = "none"]_vars
  <2> SUFFICES ASSUME IInv, [Next]_vars, Started, starter' = "ugo"
               PROVE  loop.at = "none"
    OBVIOUS
  <2> QED
    BY SessionStarts DEF Replace, IInv, TypeOK, LoopState, LoopHeld, LooksRunning
<1> QED
  BY <1>1, Invariant, PTL DEF Spec, SingleLoop
================================================================================
