----------------------------- MODULE PanelOutput -----------------------------
(***************************************************************************)
(* The captured output of one shell panel and the tools that follow it:    *)
(* wait (extensions/wait.ts) and panel-send (extensions/panels.ts), over   *)
(* the scanning of the log and the shared cursor of panel-output.ts.       *)
(*                                                                         *)
(* The log is a sequence of atoms: text that matches the regular           *)
(* expression of the waits ("hit"), other text ("other"), bytes that show  *)
(* nothing ("blank"), newlines ("nl"), the prompt marks "A", "C" and "D",  *)
(* and the exit status that script records ("exit").  An offset is the     *)
(* number of atoms before it.                                              *)
(*                                                                         *)
(* The tool calls belong to one Pi process: they interleave at their       *)
(* awaits, and code between two awaits is one step.  The programs of the   *)
(* panel are external: a shell, gdb, what they run, and the shells that    *)
(* those start.  All that is assumed of them is that a program which waits *)
(* for a line at its prompt writes no mark before it reads one.            *)
(***************************************************************************)
EXTENDS Integers, Sequences, FiniteSetsExt

CONSTANTS
  Calls,      \* tool calls, each a wait or a panel-send
  None,       \* no call
  Banner,     \* atoms that the panel's program writes before it has read a line
  Output,     \* atoms that a busy program writes after that
  Background, \* atoms that are written while a program waits at its prompt
  ReadLimit,  \* atoms that one read of the log examines
  MaxLog      \* bound: atoms of the log

Atoms == {"hit", "other", "blank", "nl", "A", "C", "D", "exit"}

ASSUME PanelAssumption ==
  /\ None \notin Calls
  /\ Banner \cup Output \subseteq Atoms \ {"exit"}
  /\ Background \subseteq Atoms \ {"A", "C", "D", "exit"}
  /\ ReadLimit \in Nat \ {0} /\ MaxLog \in Nat

VARIABLES
  log,      \* what script has captured
  surface,  \* the panel on its host: "running", "exited" or "missing"
  shell,    \* what the program that has the terminal does: waits at a "prompt", or is "busy"
  typed,    \* calls whose line is still to be read
  read,     \* history: where a program at its prompt read a call's line, or NoInput
  cursor,   \* the wait cursor of the panel
  sent,     \* history: the size of the log when input was last sent
  calls,    \* the tool calls
  spinning  \* the call that has not let go of the process since it last read the log

panelVars == <<log, surface, shell, typed, read>>
vars == <<panelVars, cursor, sent, calls, spinning>>

NoInput == -1
Size == Len(log)
Offsets == 0..MaxLog

Call == [
  at : {"idle", "asking", "checking", "loop", "polling", "sending", "following", "done"},
  match : BOOLEAN,           \* the wait has a regular expression
  atPrompt : BOOLEAN,        \* the panel-send types its line at a prompt
  from : Offsets,            \* history: where the call began to examine
  offset : Offsets,          \* what it has examined
  after : Offsets,           \* promptAfter: a command end counts after this offset
  input : Offsets \cup {NoInput},  \* history: the latest input when it began
  alone : BOOLEAN,           \* history: no other line was sent, or waited to be read
  ready : BOOLEAN,           \* history: a program was at its prompt when it recorded its input
  outcome : {"none", "matched", "prompt", "finished", "exited", "timeout", "running", "screen", "error"},
  end : Offsets]             \* of what it found

NewCall == [at |-> "idle", match |-> FALSE, atPrompt |-> FALSE, from |-> 0, offset |-> 0, after |-> 0,
            input |-> NoInput, alone |-> FALSE, ready |-> FALSE, outcome |-> "none", end |-> 0]

-----------------------------------------------------------------------------
(* Reading the log *)

In(kinds, from, to) == {i \in from + 1 .. to : log[i] \in kinds}

\* Where the complete lines between two offsets end.
Consumed(from, to) == Max({from} \cup In({"nl"}, from, to))

\* Where the line that ends at `to` starts.
LineStart(from, to) == Consumed(from, to - 1)

\* What readOutput leaves after the last newline shows text.
Partial(from, to) == In({"hit", "other", "exit"}, Consumed(from, to), to) # {}

\* Ends of the lines to be matched: the complete ones and a trailing partial one.
Candidates(from, to) ==
  {n \in In({"nl"}, from, to) : In({"exit"}, LineStart(from, n), n) = {}}
    \cup {n \in {to} : Partial(from, to)}

Matches(from, to) == {n \in Candidates(from, to) : In({"hit"}, LineStart(from, n), n) # {}}

\* Wrong: a command start ends the command, too.
AnyMark(from, to, after) == {i \in In({"A", "C", "D"}, from, to) : i > after}

\* Command ends, and prompt starts, after the offset `after`.
CommandEnds(from, to, after) == {i \in In({"A", "D"}, from, to) : i > after}

\* Wrong: a line longer than the limit is never examined.
WholeLines(from, to) == Consumed(from, to)

\* The next unexamined offset.  A line longer than the limit is examined in pieces.
ChunkNext(from, to) ==
  IF Consumed(from, to) = from /\ to < Size /\ Partial(from, to) THEN to ELSE Consumed(from, to)

\* Wrong: any match counts before a command end.
MatchFirst(matches, stops) == IF matches # {} THEN matches ELSE stops

\* What stops the scan.  The first of them counts; a match counts before a command end there.
Found(matches, stops) == matches \cup stops

\* What one bounded read finds, and where the next one starts.
scanOutput(offset, match, after) ==
  LET to == Min({Size, offset + ReadLimit})
      matches == IF match THEN Matches(offset, to) ELSE {}
      found == Found(matches, CommandEnds(offset, to, after))
      next == ChunkNext(offset, to)
  IN [kind |-> IF found = {} THEN "none" ELSE IF Min(found) \in matches THEN "matched" ELSE "prompt",
      end |-> IF found = {} THEN 0 ELSE Min(found),
      next |-> IF found = {} THEN next ELSE Max({Min(found), next}),
      more |-> to < Size,
      exit |-> In({"exit"}, offset, Consumed(offset, to)) # {}]

\* The latest mark, or 0.
lastPromptMark == Max({0} \cup In({"A", "C", "D"}, 0, Size))
AtPrompt == lastPromptMark > 0 /\ log[lastPromptMark] # "C"

\* Wrong: any prompt will do.
IdleSinceEver(input) == AtPrompt

\* The shell is at a prompt that it reached after the recorded input.
idleAtPrompt(input) == AtPrompt /\ lastPromptMark > input

-----------------------------------------------------------------------------
(* The panel's programs *)

Write(atoms) ==
  /\ surface = "running" /\ Size + Len(atoms) <= MaxLog
  /\ log' = log \o atoms

toolsUnchanged == UNCHANGED <<cursor, sent, calls, spinning>>

\* A shell, one that it has started, or gdb shows its prompt, with a mark or without.
ShowPrompt ==
  /\ shell = "busy" /\ shell' = "prompt"
  /\ Write(<<"A">>) \/ Write(<<>>)
  /\ UNCHANGED <<surface, typed, read>> /\ toolsUnchanged

\* It reads a line and echoes it.  A shell marks that a command starts, but not on an empty
\* line; gdb never does.
StartCommand ==
  /\ shell = "prompt" /\ typed # <<>> /\ shell' = "busy"
  /\ Write(<<"nl">>) \/ Write(<<"nl", "C">>)
  /\ read' = [read EXCEPT ![Head(typed)] = Size] /\ typed' = Tail(typed)
  /\ UNCHANGED surface /\ toolsUnchanged

\* Output of a command, or of one in the background, and marks: that of the command's end, or
\* those of a shell that the command has started.
ProgramWrites ==
  /\ \E atom \in IF shell = "prompt" THEN Background
                 ELSE IF \E c \in Calls : read[c] # NoInput THEN Output ELSE Banner : Write(<<atom>>)
  /\ UNCHANGED <<surface, shell, typed, read>> /\ toolsUnchanged

\* The running command reads the next line itself.
CommandReads ==
  /\ shell = "busy" /\ typed # <<>> /\ surface = "running"
  /\ typed' = Tail(typed)
  /\ UNCHANGED <<log, surface, shell, read>> /\ toolsUnchanged

\* The panel's command exits; script records its status, unless it is killed itself.
PanelExits ==
  /\ surface = "running" /\ surface' = "exited"
  /\ \/ Write(<<"nl", "exit", "nl">>)
     \/ UNCHANGED log
  /\ UNCHANGED <<shell, typed, read>> /\ toolsUnchanged

\* Its window, pane or server is destroyed.
PanelVanishes ==
  /\ surface # "missing" /\ surface' = "missing"
  /\ UNCHANGED <<log, shell, typed, read>> /\ toolsUnchanged

Panel ==
  \/ ShowPrompt \/ StartCommand \/ ProgramWrites \/ CommandReads \/ PanelExits \/ PanelVanishes

-----------------------------------------------------------------------------
(* Steps of a tool call *)

\* A call that is under way, while no other one holds the process.
May(c, at) == calls[c].at = at /\ spinning \in {c, None}

Becomes(c, call) == calls' = [calls EXCEPT ![c] = call]

\* The call returns or throws; its outcome is kept.
Ended(c, outcome, end) == [NewCall EXCEPT !.at = "done", !.outcome = outcome, !.end = end]

\* Wrong: what else the cursor file holds is lost.
WriteOffset(offset) == cursor' = [cursor |-> offset, input |-> NoInput]

\* { ...readCursor(log), cursor: offset }
WriteCursor(offset) == cursor' = [cursor EXCEPT !.cursor = offset]

WaitCall(c) ==
  /\ May(c, "idle")
  /\ \E match \in BOOLEAN : Becomes(c, [NewCall EXCEPT !.at = "asking", !.match = match])
  /\ UNCHANGED <<panelVars, cursor, sent, spinning>>

SendCall(c) ==
  /\ May(c, "idle")
  /\ Becomes(c, [NewCall EXCEPT !.at = "checking"])
  /\ UNCHANGED <<panelVars, cursor, sent, spinning>>

\* The signal of a call that awaits something fires: the call throws and writes no cursor.
Abort(c) ==
  /\ calls[c].at \notin {"idle", "done"} /\ spinning = None
  /\ Becomes(c, Ended(c, "error", 0))
  /\ UNCHANGED <<panelVars, cursor, sent, spinning>>

\* The call tells its outcome and writes the cursor.
EndWith(c, outcome, end, offset) ==
  /\ WriteCursor(offset)
  /\ Becomes(c, Ended(c, outcome, end))
  /\ spinning' = None
  /\ UNCHANGED <<panelVars, sent>>

Fails(c) ==
  /\ Becomes(c, Ended(c, "error", 0))
  /\ UNCHANGED <<panelVars, cursor, sent, spinning>>

\* The host has told the state of the panel, and the wait begins.
WaitBegins(c) ==
  /\ May(c, "asking")
  /\ LET offset == IF cursor.cursor <= Size THEN cursor.cursor ELSE 0
         idle == idleAtPrompt(cursor.input)
     IN \/ surface = "missing" /\ Fails(c)
        \/ surface = "exited" /\ EndWith(c, "exited", 0, offset)
        \/ surface = "running" /\ idle /\ EndWith(c, "prompt", lastPromptMark, offset)
        \/ /\ surface = "running" /\ ~idle
           /\ Becomes(c, [calls[c] EXCEPT !.at = "loop", !.from = offset, !.offset = offset,
                            !.after = Size, !.input = sent])
           /\ UNCHANGED <<panelVars, cursor, sent, spinning>>

Scan(c) == scanOutput(calls[c].offset, calls[c].match, calls[c].after)

\* A read has caught up with the log and has found nothing.
CaughtUp(scan) == scan.kind = "none" /\ ~scan.exit /\ ~scan.more

\* There is more to read than one read examines: the loop goes on at once.
ReadsOn(c, scan) ==
  /\ scan.kind = "none" /\ ~scan.exit /\ scan.more
  /\ Becomes(c, [calls[c] EXCEPT !.offset = scan.next])
  /\ spinning' = c
  /\ UNCHANGED <<panelVars, cursor, sent>>

\* It sleeps, and reads again, or asks for the state of the panel.
Sleeps(c, scan, at) ==
  /\ CaughtUp(scan)
  /\ Becomes(c, [calls[c] EXCEPT !.offset = scan.next, !.at = at])
  /\ spinning' = None
  /\ UNCHANGED <<panelVars, cursor, sent>>

\* One read of a wait's loop.
WaitPolls(c) ==
  /\ May(c, "loop")
  /\ LET scan == Scan(c) IN
     \/ scan.kind # "none" /\ EndWith(c, scan.kind, scan.end, scan.next)
     \/ scan.kind = "none" /\ scan.exit /\ EndWith(c, "exited", 0, scan.next)
     \/ ReadsOn(c, scan) \/ Sleeps(c, scan, "loop") \/ Sleeps(c, scan, "polling")

\* The host has told the state of the panel again.
WaitLearns(c) ==
  /\ May(c, "polling")
  /\ LET final == Scan(c) IN
     \/ surface = "missing" /\ Fails(c)
     \/ /\ surface = "exited"
        /\ EndWith(c, IF final.kind = "none" THEN "exited" ELSE final.kind, final.end, final.next)
     \/ /\ surface = "running"
        /\ Becomes(c, [calls[c] EXCEPT !.at = "loop"])
        /\ UNCHANGED <<panelVars, cursor, sent, spinning>>

\* The deadline has passed when a wait has caught up, or learns that the panel runs.
WaitTimesOut(c) ==
  \/ May(c, "loop") /\ CaughtUp(Scan(c)) /\ EndWith(c, "timeout", 0, Scan(c).next)
  \/ May(c, "polling") /\ surface = "running" /\ EndWith(c, "timeout", 0, calls[c].offset)

\* recordInput, between the check that the command runs and the call to the host.
SendBegins(c) ==
  /\ May(c, "checking")
  /\ \/ surface # "running" /\ Fails(c)
     \/ /\ surface = "running"
        /\ cursor' = [cursor |-> Size, input |-> Size] /\ sent' = Size
        /\ calls' = [d \in Calls |->
             IF d = c
               THEN [NewCall EXCEPT !.at = "sending", !.atPrompt = AtPrompt,
                       !.offset = Size, !.after = Size,
                       !.alone = typed = <<>> /\ \A e \in Calls : calls[e].at # "sending",
                       !.ready = shell = "prompt"]
               ELSE [calls[d] EXCEPT !.alone = FALSE]]
        /\ UNCHANGED <<panelVars, spinning>>

\* The host types the line.  Only a line typed at a prompt is followed.
SendTypes(c) ==
  /\ May(c, "sending")
  /\ \/ surface # "running" /\ Fails(c)
     \/ /\ surface = "running"
        /\ typed' = Append(typed, c)
        /\ Becomes(c, IF calls[c].atPrompt THEN [calls[c] EXCEPT !.at = "following"]
                                           ELSE Ended(c, "screen", 0))
        /\ UNCHANGED <<log, surface, shell, read, cursor, sent, spinning>>

\* It returns without writing the cursor.
EndSend(c, outcome) ==
  /\ Becomes(c, Ended(c, outcome, 0))
  /\ spinning' = None
  /\ UNCHANGED <<panelVars, cursor, sent>>

\* One read of followCommand.
SendFollows(c) ==
  /\ May(c, "following")
  /\ LET scan == Scan(c) IN
     \/ scan.kind = "prompt" /\ EndWith(c, "finished", scan.end, scan.end)
     \/ scan.kind = "none" /\ scan.exit /\ EndSend(c, "exited")
     \/ ReadsOn(c, scan) \/ Sleeps(c, scan, "following")

\* Its grace has passed.
SendGivesUp(c) == May(c, "following") /\ CaughtUp(Scan(c)) /\ EndSend(c, "running")

Step(c) ==
  \/ WaitBegins(c) \/ WaitPolls(c) \/ WaitLearns(c)
  \/ SendBegins(c) \/ SendTypes(c) \/ SendFollows(c)

Expires(c) == WaitTimesOut(c) \/ SendGivesUp(c)

-----------------------------------------------------------------------------

Init ==
  /\ log = <<>> /\ surface = "running" /\ shell = "busy"
  /\ typed = <<>> /\ read = [c \in Calls |-> NoInput]
  /\ cursor = [cursor |-> 0, input |-> NoInput] /\ sent = NoInput
  /\ calls = [c \in Calls |-> NewCall] /\ spinning = None

Next ==
  \/ Panel
  \/ \E c \in Calls :
       WaitCall(c) \/ SendCall(c) \/ Abort(c) \/ Step(c) \/ Expires(c)

Spec == Init /\ [][Next]_vars

\* A call's awaits end, and its deadline passes: from then on it expires whenever it looks.
\* Nothing is assumed of the panel.
Fairness == \A c \in Calls : WF_vars(Step(c)) /\ SF_vars(Expires(c))

FairSpec == Spec /\ Fairness

-----------------------------------------------------------------------------
(* Properties *)

\* Every variable keeps its type.
TypeOK ==
  /\ log \in Seq(Atoms) /\ Size <= MaxLog
  /\ surface \in {"running", "exited", "missing"}
  /\ shell \in {"prompt", "busy"} /\ typed \in Seq(Calls)
  /\ read \in [Calls -> Offsets \cup {NoInput}]
  /\ cursor \in [cursor : Offsets, input : Offsets \cup {NoInput}]
  /\ sent \in Offsets \cup {NoInput}
  /\ calls \in [Calls -> Call] /\ spinning \in Calls \cup {None}

\* The step in which a call tells its outcome.
Tells(c, outcomes) == calls[c].at # "done" /\ calls'[c].outcome \in outcomes

\* A wait that reads the log ends at the first thing it waits for: between the offset where it
\* began and what it reports, or what it has examined when it gives up, lies no complete line
\* that matches and no later command end, however the output came in pieces.  A wait that finds
\* the panel exited or at a prompt when it begins answers without a read (wait.ts:150-151): the
\* lines before that prompt, also those that match, stay for the next wait.
AnswerIsFirst ==
  [][\A c \in Calls :
       Tells(c, {"matched", "prompt", "timeout", "exited"}) =>
         /\ calls[c].at \in {"loop", "polling"} =>
              LET stop == IF calls'[c].end > 0 THEN calls'[c].end - 1 ELSE cursor'.cursor IN
              /\ calls[c].match => Matches(calls[c].from, Consumed(calls[c].from, stop)) = {}
              /\ CommandEnds(calls[c].from, stop, calls[c].after) = {}
         /\ calls[c].at = "asking" => cursor'.cursor \in {0, cursor.cursor}]_vars

\* A prompt that a wait reports was reached after the input that was the latest when the wait
\* began, also when earlier waits wrote the cursor while that input was being sent.
PromptAfterInput ==
  [][\A c \in Calls :
       Tells(c, {"prompt"}) =>
         calls'[c].end > (IF calls[c].at = "asking" THEN sent ELSE calls[c].input)]_vars

\* The mark with which a panel-send answers, written after its line was read.
AfterReading(c) == read[c] # NoInput /\ calls'[c].end > read[c]

\* The command end with which a panel-send answers is the first one after the input that it
\* recorded.  It is the first one after its line was read, too, be it that of an empty line or
\* of a shell that the line has started, when that line was the only one and found a program at
\* its prompt.
FinishedIsOwn ==
  [][\A c \in Calls :
       Tells(c, {"finished"}) =>
         /\ In({"A", "D"}, calls[c].after, calls'[c].end) = {calls'[c].end}
         /\ calls[c].alone /\ calls[c].ready => AfterReading(c)]_vars

\* The input that a panel-send records is not forgotten by a wait that ends later.
InputKept == cursor.input = sent

\* A read that leaves output to be read at once gets ahead when a newline or text is in what it
\* examined, also in the midst of a line longer than the limit: the loop then catches up with
\* the log and lets go of the process, and of its deadline and signal.
ReadsAdvance ==
  \A c \in Calls :
    /\ calls[c].at \in {"loop", "following"}
    /\ Scan(c).kind = "none" /\ ~Scan(c).exit /\ Scan(c).more
    /\ In({"nl", "hit", "other"}, calls[c].offset, calls[c].offset + ReadLimit) # {}
    => Scan(c).next > calls[c].offset

\* Every wait and every panel-send returns, whatever the panel writes (timeoutSeconds in wait.ts:100).
CallsReturn ==
  \A c \in Calls : calls[c].at # "idle" ~> calls[c].at = "done"

\* A wait with a regular expression reports no prompt while a line before it that matches has
\* not been reported (wait.ts:88 and orchestration/README.md:148: "Returns at the first of").
MatchBeforePrompt ==
  [][\A c \in Calls :
       Tells(c, {"prompt"}) /\ calls[c].match =>
         LET from == IF calls[c].at = "asking" THEN cursor.cursor ELSE calls[c].from
         IN Matches(from, Consumed(from, calls'[c].end - 1)) = {}]_vars

\* A line that was the only one to be sent, to whatever has the terminal, is answered with a mark
\* that was written after it was read (panels.ts:199).
FinishedWhenAlone ==
  [][\A c \in Calls : Tells(c, {"finished"}) /\ calls[c].alone => AfterReading(c)]_vars

\* After a match the next wait continues where this one matched (orchestration/README.md:157).
ContinuesAfterMatch ==
  [][\A c \in Calls : Tells(c, {"matched"}) => cursor'.cursor = calls'[c].end]_vars
=============================================================================
