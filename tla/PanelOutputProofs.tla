-------------------------- MODULE PanelOutputProofs --------------------------
(***************************************************************************)
(* Theorems about PanelOutput, for any number of calls, any output and any *)
(* limit of a read.                                                        *)
(*                                                                         *)
(* That an input once recorded is kept, and that a wait never reports a    *)
(* prompt from before the input that was the latest when it began, need    *)
(* that the cursor file holds the latest input whenever a wait begins.     *)
(* That a wait ends at the first thing it waits for needs what it has      *)
(* examined in earlier reads, wherever they broke off (Examined).  That a  *)
(* panel-send answers with the end of its own command needs how far the    *)
(* shell is with its line (Own).                                           *)
(***************************************************************************)
EXTENDS PanelOutput, WellFoundedInduction, TLAPS

\* The latest input lies within the log.  A wait counts command ends from where the log ended
\* when it began, which is not before that input, and a call has no outcome until it is done.
CallsHeld ==
  /\ sent <= Size
  /\ \A c \in Calls :
       /\ calls[c].at \in {"loop", "polling"} => calls[c].after >= calls[c].input
       /\ calls[c].at # "done" => calls[c].outcome = "none"

IInv == TypeOK /\ InputKept /\ CallsHeld

-----------------------------------------------------------------------------
(* Minima and maxima *)

\* A nonempty set of naturals holds its minimum.
LEMMA MinOf ==
  ASSUME NEW S, S \subseteq Nat, S # {}
  PROVE  Min(S) \in S /\ \A y \in S : Min(S) <= y
<1>1. PICK x \in S : \A y \in S : ~(<<y, x>> \in OpToRel(<, Nat))
  BY WFMin, NatLessThanWellFounded
<1>2. \A y \in S : x <= y
  <2> SUFFICES ASSUME NEW y \in S PROVE x <= y
    OBVIOUS
  <2>1. x \in Nat /\ y \in Nat
    OBVIOUS
  <2>2. ~(y < x)
    BY <1>1, <2>1 DEF OpToRel
  <2> QED BY <2>1, <2>2
<1> QED BY <1>2 DEF Min

\* A nonempty set of naturals up to n holds its maximum.
LEMMA MaxOf ==
  ASSUME NEW n \in Nat, NEW S, S \subseteq 0..n, S # {}
  PROVE  Max(S) \in S /\ \A y \in S : y <= Max(S)
<1> DEFINE D == {n - x : x \in S}
<1>1. D \subseteq Nat /\ D # {}
  <2>1. \A x \in S : n - x \in Nat
    <3> TAKE x \in S
    <3>1. x \in Nat /\ x <= n
      OBVIOUS
    <3> QED BY <3>1
  <2>2. PICK x \in S : TRUE
    OBVIOUS
  <2>3. n - x \in D
    OBVIOUS
  <2> QED BY <2>1, <2>3, Zenon
<1>2. PICK d \in D : \A e \in D : d <= e
  BY <1>1, MinOf
<1>3. PICK x \in S : d = n - x
  OBVIOUS
<1>4. \A y \in S : x >= y
  <2> SUFFICES ASSUME NEW y \in S PROVE x >= y
    OBVIOUS
  <2>1. n - y \in D
    OBVIOUS
  <2>2. n - x <= n - y
    BY <2>1, <1>2, <1>3
  <2>3. x \in Nat /\ y \in Nat
    OBVIOUS
  <2> QED BY <2>2, <2>3
<1> QED BY <1>4 DEF Max

-----------------------------------------------------------------------------
(* What a scan returns *)

\* The end of the last complete line, or the start, is an offset.
LEMMA ConsumedType ==
  ASSUME Size \in Offsets, MaxLog \in Nat, NEW from \in Offsets, NEW to \in Int, to <= Size
  PROVE  Consumed(from, to) \in Offsets
<1>1. {from} \cup In({"nl"}, from, to) \subseteq 0..MaxLog
  BY DEF In, Offsets
<1> QED BY <1>1, MaxOf DEF Consumed, Offsets

\* A match lies within the log.
LEMMA MatchesType ==
  ASSUME Size \in Offsets, MaxLog \in Nat, NEW from \in Offsets, NEW to \in Offsets, to <= Size
  PROVE  Matches(from, to) \subseteq Offsets
BY DEF Matches, Candidates, In, Offsets

\* A scan returns offsets, and what it reports as a prompt is a command end after `after`.
LEMMA ScanType ==
  ASSUME TypeOK, PanelAssumption,
         NEW offset \in Offsets, NEW match \in BOOLEAN, NEW after \in Offsets
  PROVE  LET scan == scanOutput(offset, match, after) IN
         /\ scan.kind \in {"none", "matched", "prompt"}
         /\ scan.end \in Offsets /\ scan.next \in Offsets
         /\ scan.kind = "prompt" => scan.end > after
<1> DEFINE to == Min({Size, offset + ReadLimit})
           matches == IF match THEN Matches(offset, to) ELSE {}
           stops == CommandEnds(offset, to, after)
           found == Found(matches, stops)
           next == ChunkNext(offset, to)
           scan == scanOutput(offset, match, after)
<1>1. Size \in Offsets /\ MaxLog \in Nat /\ ReadLimit \in Nat
  BY DEF TypeOK, PanelAssumption, Size, Offsets
<1>2. to \in Offsets /\ to <= Size
  <2>1. {Size, offset + ReadLimit} \subseteq Nat
    BY <1>1 DEF Offsets
  <2>2. to \in {Size, offset + ReadLimit} /\ to <= Size
    BY <2>1, MinOf
  <2> QED BY <2>1, <2>2, <1>1 DEF Offsets
<1>3. matches \subseteq Offsets
  BY <1>1, <1>2, MatchesType
<1>4. stops \subseteq Offsets /\ \A i \in stops : i > after
  BY <1>1, <1>2 DEF CommandEnds, In, Offsets
<1>5. found \subseteq Offsets /\ found = matches \cup stops
  BY <1>3, <1>4 DEF Found
<1>6. next \in Offsets
  BY <1>1, <1>2, ConsumedType DEF ChunkNext, Offsets
<1>7. found # {} => Min(found) \in found
  <2>1. found \subseteq Nat
    BY <1>5 DEF Offsets
  <2> HIDE DEF found
  <2> QED BY <2>1, MinOf
<1>8. found # {} => Max({Min(found), next}) \in Offsets
  <2> SUFFICES ASSUME found # {} PROVE Max({Min(found), next}) \in Offsets
    OBVIOUS
  <2>1. {Min(found), next} \subseteq 0..MaxLog
    BY <1>5, <1>6, <1>7 DEF Offsets
  <2> QED BY <2>1, <1>1, MaxOf DEF Offsets
<1>9. /\ scan.kind = IF found = {} THEN "none" ELSE IF Min(found) \in matches THEN "matched" ELSE "prompt"
      /\ scan.end = IF found = {} THEN 0 ELSE Min(found)
      /\ scan.next = IF found = {} THEN next ELSE Max({Min(found), next})
  BY DEF scanOutput
<1> HIDE DEF to, matches, stops, found, next, scan
<1>10. scan.kind \in {"none", "matched", "prompt"}
  BY <1>9
<1>11. scan.end \in Offsets /\ scan.next \in Offsets
  BY <1>1, <1>5, <1>6, <1>7, <1>8, <1>9 DEF Offsets
<1>12. scan.kind = "prompt" => scan.end > after
  BY <1>4, <1>5, <1>7, <1>9
<1> QED BY <1>10, <1>11, <1>12 DEF scan

\* The latest mark is an offset.
LEMMA LastMarkType ==
  ASSUME Size \in Offsets, MaxLog \in Nat
  PROVE  lastPromptMark \in Offsets
<1>1. {0} \cup In({"A", "C", "D"}, 0, Size) \subseteq 0..MaxLog
  BY DEF In, Offsets
<1> QED BY <1>1, MaxOf DEF lastPromptMark, Offsets

-----------------------------------------------------------------------------
(* Steps of the panel *)

\* What is written is added to the log.
LEMMA WriteType ==
  ASSUME TypeOK, PanelAssumption, NEW atoms \in Seq(Atoms), Write(atoms)
  PROVE  log' \in Seq(Atoms) /\ Size' \in Nat /\ Size <= Size' /\ Size' <= MaxLog
<1>1. log \in Seq(Atoms) /\ Len(log) + Len(atoms) <= MaxLog /\ log' = log \o atoms
  BY DEF TypeOK, Write, Size
<1>2. log' \in Seq(Atoms) /\ Len(log') = Len(log) + Len(atoms) /\ Len(log) \in Nat /\ Len(atoms) \in Nat
  BY <1>1
<1> QED BY <1>1, <1>2, SMT DEF Size

\* Steps of the panel keep the invariant: they touch neither the cursor nor a call.
LEMMA PanelKeeps ==
  ASSUME IInv, PanelAssumption, Panel
  PROVE  IInv'
<1> USE DEF IInv, toolsUnchanged
<1>1. Size \in Nat /\ Size <= MaxLog
  BY DEF TypeOK, Size
<1>2. SUFFICES /\ log' \in Seq(Atoms) /\ Size' \in Nat /\ Size <= Size' /\ Size' <= MaxLog
               /\ surface' \in {"running", "exited", "missing"}
               /\ shell' \in {"prompt", "busy"} /\ typed' \in Seq(Calls)
               /\ read' \in [Calls -> Offsets \cup {NoInput}]
  <2>1. UNCHANGED <<cursor, sent, calls, spinning>>
    BY DEF Panel, ShowPrompt, StartCommand, ProgramWrites, CommandReads, PanelExits, PanelVanishes
  <2>2. sent <= Size /\ sent \in Int
    BY DEF TypeOK, CallsHeld, Offsets, NoInput
  <2>3. TypeOK'
    BY <1>2, <2>1 DEF TypeOK
  <2>4. InputKept'
    BY <2>1 DEF InputKept
  <2>5. CallsHeld'
    <3>1. sent' <= Size'
      BY <1>1, <1>2, <2>1, <2>2
    <3> QED BY <3>1, <2>1 DEF CallsHeld
  <2> QED BY <2>3, <2>4, <2>5
<1>3. <<"A">> \in Seq(Atoms) /\ <<"nl">> \in Seq(Atoms) /\ <<"nl", "C">> \in Seq(Atoms) /\ <<>> \in Seq(Atoms)
  BY DEF Atoms
<1>4. CASE ShowPrompt
  BY <1>3, <1>4, WriteType DEF ShowPrompt, TypeOK
<1>5. CASE StartCommand
  <2>1. typed \in Seq(Calls) /\ typed # <<>>
    BY <1>5 DEF StartCommand, TypeOK
  <2>2. Head(typed) \in Calls /\ Tail(typed) \in Seq(Calls)
    BY <2>1
  <2>3. read' \in [Calls -> Offsets \cup {NoInput}]
    BY <1>1, <1>5 DEF StartCommand, TypeOK, Offsets, PanelAssumption
  <2> QED BY <1>3, <1>5, <2>2, <2>3, WriteType DEF StartCommand, TypeOK
<1>6. CASE ProgramWrites
  <2>1. PICK atom \in Banner \cup Output \cup Background : Write(<<atom>>)
    BY <1>6 DEF ProgramWrites
  <2>2. atom \in Atoms
    BY DEF PanelAssumption, Atoms
  <2>3. <<atom>> \in Seq(Atoms)
    BY <2>2
  <2> QED BY <1>6, <2>1, <2>3, WriteType DEF ProgramWrites, TypeOK
<1>7. CASE CommandReads
  <2>1. Tail(typed) \in Seq(Calls)
    BY <1>7 DEF CommandReads, TypeOK
  <2> QED BY <1>1, <1>7, <2>1 DEF CommandReads, TypeOK, Size
<1>9. CASE PanelExits
  <2>1. <<"nl", "exit", "nl">> \in Seq(Atoms)
    BY DEF Atoms
  <2>2. CASE log' = log
    BY <1>1, <1>9, <2>2 DEF PanelExits, TypeOK, Size
  <2>3. CASE Write(<<"nl", "exit", "nl">>)
    BY <1>9, <2>1, <2>3, WriteType DEF PanelExits, TypeOK
  <2> QED BY <1>9, <2>2, <2>3 DEF PanelExits
<1>10. CASE PanelVanishes
  BY <1>1, <1>10 DEF PanelVanishes, TypeOK, Size
<1> QED BY <1>4, <1>5, <1>6, <1>7, <1>9, <1>10 DEF Panel

-----------------------------------------------------------------------------
(* Steps of a call *)

\* A step of one call that keeps the panel and, but for its offset, the cursor.
LEMMA CallKeeps ==
  ASSUME IInv, NEW c \in Calls, NEW call \in Call, Becomes(c, call),
         UNCHANGED <<panelVars, sent>>, spinning' \in {c, None, spinning},
         cursor' = cursor \/ \E offset \in Offsets : WriteCursor(offset),
         call.at \in {"loop", "polling"} => call.after >= call.input,
         call.at # "done" => call.outcome = "none"
  PROVE  IInv'
<1>1. calls' \in [Calls -> Call] /\ \A d \in Calls : calls'[d] = IF d = c THEN call ELSE calls[d]
  BY DEF IInv, TypeOK, Becomes
<1>2. cursor' \in [cursor : Offsets, input : Offsets \cup {NoInput}] /\ cursor'.input = cursor.input
  BY DEF IInv, TypeOK, WriteCursor
<1>3. TypeOK'
  BY <1>1, <1>2 DEF IInv, TypeOK, panelVars, Size
<1>4. InputKept'
  BY <1>2 DEF IInv, InputKept
<1>5. CallsHeld'
  BY <1>1 DEF IInv, CallsHeld, panelVars, Size
<1> QED BY <1>3, <1>4, <1>5 DEF IInv

\* The outcomes of a call are typed.
LEMMA EndedType ==
  ASSUME PanelAssumption, NEW c, NEW end \in Offsets,
         NEW outcome \in {"matched", "prompt", "finished", "exited", "timeout", "running", "screen", "error"}
  PROVE  /\ NewCall \in Call /\ Ended(c, outcome, end) \in Call
         /\ Ended(c, outcome, end).at = "done" /\ Ended(c, outcome, end).outcome = outcome
         /\ Ended(c, outcome, end).end = end
<1>1. 0 \in Offsets
  BY DEF Offsets, PanelAssumption
<1>2. NewCall \in Call
  BY <1>1 DEF NewCall, Call
<1> QED BY <1>2 DEF Ended, Call

LEMMA EndWithKeeps ==
  ASSUME IInv, PanelAssumption, NEW c \in Calls, NEW end \in Offsets, NEW offset \in Offsets,
         NEW outcome \in {"matched", "prompt", "finished", "exited", "timeout"},
         EndWith(c, outcome, end, offset)
  PROVE  IInv'
<1>1. Ended(c, outcome, end) \in Call /\ Ended(c, outcome, end).at = "done"
  BY EndedType
<1>2. /\ Becomes(c, Ended(c, outcome, end)) /\ UNCHANGED <<panelVars, sent>>
      /\ spinning' = None /\ WriteCursor(offset)
  BY DEF EndWith
<1> QED BY <1>1, <1>2, CallKeeps

\* A call that throws, or returns, without writing the cursor.
LEMMA LeavesKeeps ==
  ASSUME IInv, PanelAssumption, NEW c \in Calls,
         NEW outcome \in {"exited", "running", "screen", "error"},
         Becomes(c, Ended(c, outcome, 0)), UNCHANGED <<panelVars, cursor, sent>>,
         spinning' \in {c, None, spinning}
  PROVE  IInv'
<1>1. 0 \in Offsets
  BY DEF Offsets, PanelAssumption
<1>2. Ended(c, outcome, 0) \in Call /\ Ended(c, outcome, 0).at = "done"
  BY <1>1, EndedType
<1> QED BY <1>2, CallKeeps

\* What a call's next read finds.
LEMMA CallScan ==
  ASSUME TypeOK, PanelAssumption, NEW c \in Calls
  PROVE  /\ Scan(c).kind \in {"none", "matched", "prompt"}
         /\ Scan(c).end \in Offsets /\ Scan(c).next \in Offsets
         /\ Scan(c).kind = "prompt" => Scan(c).end > calls[c].after
<1>1. calls[c].offset \in Offsets /\ calls[c].match \in BOOLEAN /\ calls[c].after \in Offsets
  BY DEF TypeOK, Call
<1> QED BY <1>1, ScanType DEF Scan

\* A read that goes on, or sleeps, keeps everything but the call's offset and place.
LEMMA ReadKeeps ==
  ASSUME IInv, PanelAssumption, NEW c \in Calls,
         \/ calls[c].at \in {"loop", "following"} /\ ReadsOn(c, Scan(c))
         \/ calls[c].at = "loop" /\ (Sleeps(c, Scan(c), "loop") \/ Sleeps(c, Scan(c), "polling"))
         \/ calls[c].at = "following" /\ Sleeps(c, Scan(c), "following")
  PROVE  IInv'
<1> DEFINE call(at) == [calls[c] EXCEPT !.offset = Scan(c).next, !.at = at]
<1>1. Scan(c).next \in Offsets /\ calls[c] \in Call
  BY CallScan DEF IInv, TypeOK
<1>2. PICK at \in {"loop", "polling", "following"} :
        /\ Becomes(c, call(at)) /\ spinning' \in {c, None}
        /\ UNCHANGED <<panelVars, cursor, sent>>
        /\ at \in {"loop", "polling"} => calls[c].at = "loop"
        /\ calls[c].at # "done"
  <2>1. calls[c] = [calls[c] EXCEPT !.at = calls[c].at]
    BY <1>1 DEF Call
  <2>2. CASE calls[c].at \in {"loop", "following"} /\ ReadsOn(c, Scan(c))
    <3>1. [calls[c] EXCEPT !.offset = Scan(c).next] = call(calls[c].at)
      BY <1>1 DEF Call
    <3> QED BY <2>2, <3>1 DEF ReadsOn
  <2>3. CASE calls[c].at = "loop" /\ Sleeps(c, Scan(c), "loop")
    BY <2>3 DEF Sleeps
  <2>4. CASE calls[c].at = "loop" /\ Sleeps(c, Scan(c), "polling")
    BY <2>4 DEF Sleeps
  <2>5. CASE calls[c].at = "following" /\ Sleeps(c, Scan(c), "following")
    BY <2>5 DEF Sleeps
  <2> QED BY <2>2, <2>3, <2>4, <2>5
<1>3. /\ call(at) \in Call /\ call(at).at = at /\ call(at).after = calls[c].after
      /\ call(at).input = calls[c].input /\ call(at).outcome = calls[c].outcome
  BY <1>1, <1>2 DEF Call
<1>4. /\ calls[c].outcome = "none"
      /\ at \in {"loop", "polling"} => calls[c].after >= calls[c].input
  BY <1>2 DEF IInv, CallsHeld
<1> HIDE DEF call
<1> QED BY <1>2, <1>3, <1>4, CallKeeps

\* A wait begins.
LEMMA BeginKeeps ==
  ASSUME IInv, PanelAssumption, NEW c \in Calls, WaitBegins(c)
  PROVE  IInv'
<1> DEFINE offset == IF cursor.cursor <= Size THEN cursor.cursor ELSE 0
           begun == [calls[c] EXCEPT !.at = "loop", !.from = offset, !.offset = offset,
                                     !.after = Size, !.input = sent]
<1>1. Size \in Offsets /\ offset \in Offsets /\ 0 \in Offsets /\ lastPromptMark \in Offsets
  <2>1. Size \in Offsets /\ MaxLog \in Nat
    BY DEF IInv, TypeOK, Size, Offsets, PanelAssumption
  <2> QED BY <2>1, LastMarkType DEF IInv, TypeOK, Offsets
<1>2. calls[c].at = "asking" /\ calls[c] \in Call
  BY DEF WaitBegins, May, IInv, TypeOK
<1>3. CASE surface = "missing" /\ Fails(c)
  BY <1>3, LeavesKeeps DEF Fails
<1>4. CASE EndWith(c, "exited", 0, offset)
  BY <1>1, <1>4, EndWithKeeps
<1>5. CASE EndWith(c, "prompt", lastPromptMark, offset)
  BY <1>1, <1>5, EndWithKeeps
<1>6. CASE Becomes(c, begun) /\ UNCHANGED <<panelVars, cursor, sent, spinning>>
  <2>1. /\ begun \in Call /\ begun.after = Size /\ begun.input = sent
        /\ begun.outcome = calls[c].outcome
    BY <1>1, <1>2 DEF Call, IInv, TypeOK
  <2>2. calls[c].outcome = "none" /\ sent <= Size
    BY <1>2 DEF IInv, CallsHeld
  <2>3. begun.after >= begun.input
    BY <2>1, <2>2, <1>1 DEF IInv, TypeOK, Offsets, NoInput
  <2> HIDE DEF begun
  <2> QED BY <1>6, <2>1, <2>2, <2>3, CallKeeps
<1> QED BY <1>3, <1>4, <1>5, <1>6 DEF WaitBegins

\* A panel-send records where its input begins.
LEMMA RecordKeeps ==
  ASSUME IInv, PanelAssumption, NEW c \in Calls, SendBegins(c)
  PROVE  IInv'
<1>1. Size \in Offsets
  BY DEF IInv, TypeOK, Size, Offsets
<1>2. CASE surface # "running" /\ Fails(c)
  BY <1>2, LeavesKeeps DEF Fails
<1>3. CASE surface = "running"
  <2> DEFINE alone == typed = <<>> /\ \A e \in Calls : calls[e].at # "sending"
             ready == shell = "prompt"
             begun == [NewCall EXCEPT !.at = "sending", !.atPrompt = AtPrompt, !.offset = Size,
                                      !.after = Size, !.alone = alone, !.ready = ready]
  <2>1. /\ cursor' = [cursor |-> Size, input |-> Size] /\ sent' = Size
        /\ UNCHANGED <<panelVars, spinning>>
        /\ calls' = [d \in Calls |-> IF d = c THEN begun ELSE [calls[d] EXCEPT !.alone = FALSE]]
    BY <1>3 DEF SendBegins, Fails
  <2>2. AtPrompt \in BOOLEAN /\ alone \in BOOLEAN /\ ready \in BOOLEAN
    BY DEF AtPrompt
  <2>3. NewCall \in Call
    <3>1. 0 \in Offsets
      BY DEF Offsets, PanelAssumption
    <3> QED BY <3>1 DEF NewCall, Call
  <2>4. begun \in Call /\ begun.at = "sending" /\ begun.outcome = "none"
    <3> HIDE DEF alone, ready
    <3>1. begun \in Call /\ begun.at = "sending" /\ begun.outcome = NewCall.outcome
      BY <1>1, <2>2, <2>3 DEF Call
    <3> QED BY <3>1 DEF NewCall
  <2> HIDE DEF begun, alone, ready
  <2>5. \A d \in Calls : /\ [calls[d] EXCEPT !.alone = FALSE] \in Call
                         /\ [calls[d] EXCEPT !.alone = FALSE].at = calls[d].at
                         /\ [calls[d] EXCEPT !.alone = FALSE].after = calls[d].after
                         /\ [calls[d] EXCEPT !.alone = FALSE].input = calls[d].input
                         /\ [calls[d] EXCEPT !.alone = FALSE].outcome = calls[d].outcome
    <3> TAKE d \in Calls
    <3>1. calls[d] \in Call
      BY DEF IInv, TypeOK
    <3> QED BY <3>1 DEF Call
  <2>6. TypeOK'
    <3>1. calls' \in [Calls -> Call]
      BY <2>1, <2>4, <2>5
    <3>2. cursor' \in [cursor : Offsets, input : Offsets \cup {NoInput}] /\ sent' \in Offsets
      BY <1>1, <2>1
    <3> QED BY <2>1, <3>1, <3>2 DEF IInv, TypeOK, panelVars, Size
  <2>7. InputKept'
    BY <2>1 DEF InputKept
  <2>8. CallsHeld'
    <3>1. sent' <= Size'
      BY <1>1, <2>1 DEF panelVars, Size, Offsets
    <3> QED BY <2>1, <2>4, <2>5, <3>1 DEF IInv, CallsHeld
  <2> QED BY <2>6, <2>7, <2>8 DEF IInv
<1> QED BY <1>2, <1>3 DEF SendBegins

\* The line of a panel-send is typed.
LEMMA TypeKeeps ==
  ASSUME IInv, PanelAssumption, NEW c \in Calls, SendTypes(c)
  PROVE  IInv'
<1>1. CASE surface # "running" /\ Fails(c)
  BY <1>1, LeavesKeeps DEF Fails
<1>2. CASE surface = "running"
  <2> DEFINE followed == [calls[c] EXCEPT !.at = "following"]
             call == IF calls[c].atPrompt THEN followed ELSE Ended(c, "screen", 0)
  <2>1. /\ typed' = Append(typed, c) /\ Becomes(c, call)
        /\ UNCHANGED <<log, surface, shell, read, cursor, sent, spinning>>
    BY <1>2 DEF SendTypes, Fails
  <2>2. calls[c].at = "sending" /\ calls[c] \in Call /\ calls[c].outcome = "none"
    BY DEF SendTypes, May, IInv, TypeOK, CallsHeld
  <2>3. followed \in Call /\ followed.at = "following" /\ followed.outcome = "none"
    BY <2>2 DEF Call
  <2>4. 0 \in Offsets
    BY DEF Offsets, PanelAssumption
  <2>5. Ended(c, "screen", 0) \in Call /\ Ended(c, "screen", 0).at = "done"
    BY <2>4, EndedType
  <2>6. /\ call \in Call /\ call.at \in {"following", "done"}
        /\ call.at # "done" => call.outcome = "none"
    BY <2>3, <2>5
  <2> HIDE DEF call
  <2>7. calls' \in [Calls -> Call] /\ \A d \in Calls : calls'[d] = IF d = c THEN call ELSE calls[d]
    BY <2>1, <2>6 DEF IInv, TypeOK, Becomes
  <2>8. typed' \in Seq(Calls)
    BY <2>1 DEF IInv, TypeOK
  <2>9. TypeOK'
    BY <2>1, <2>7, <2>8 DEF IInv, TypeOK, Size
  <2>10. InputKept'
    BY <2>1 DEF IInv, InputKept
  <2>11. CallsHeld'
    BY <2>1, <2>6, <2>7 DEF IInv, CallsHeld, Size
  <2> QED BY <2>9, <2>10, <2>11 DEF IInv
<1> QED BY <1>1, <1>2 DEF SendTypes

-----------------------------------------------------------------------------
(* The theorems *)

LEMMA InitHolds ==
  ASSUME Init, PanelAssumption
  PROVE  IInv
<1>1. 0 \in Offsets /\ Size = 0 /\ Size <= MaxLog
  BY DEF Init, Offsets, PanelAssumption, Size
<1>2. NewCall \in Call
  BY <1>1 DEF NewCall, Call
<1>3. TypeOK
  BY <1>1, <1>2 DEF Init, TypeOK
<1>4. InputKept /\ CallsHeld
  BY <1>1 DEF Init, InputKept, CallsHeld, NewCall, NoInput
<1> QED BY <1>3, <1>4 DEF IInv

LEMMA StepHolds ==
  ASSUME IInv, PanelAssumption, [Next]_vars
  PROVE  IInv'
<1>1. CASE UNCHANGED vars
  BY <1>1 DEF vars, panelVars, IInv, TypeOK, InputKept, CallsHeld, Size
<1>2. CASE Panel
  BY <1>2, PanelKeeps
<1>3. ASSUME NEW c \in Calls,
             WaitCall(c) \/ SendCall(c) \/ Abort(c) \/ Step(c) \/ Expires(c)
      PROVE  IInv'
  <2>1. 0 \in Offsets /\ NewCall \in Call
    <3>1. 0 \in Offsets
      BY DEF Offsets, PanelAssumption
    <3> QED BY <3>1 DEF NewCall, Call
  <2>2. /\ Scan(c).kind \in {"none", "matched", "prompt"}
        /\ Scan(c).end \in Offsets /\ Scan(c).next \in Offsets
    BY CallScan DEF IInv
  <2>3. CASE WaitCall(c)
    <3>1. PICK match \in BOOLEAN : Becomes(c, [NewCall EXCEPT !.at = "asking", !.match = match])
      BY <2>3 DEF WaitCall
    <3> DEFINE call == [NewCall EXCEPT !.at = "asking", !.match = match]
    <3>2. call \in Call /\ call.at = "asking" /\ call.outcome = NewCall.outcome
      BY <2>1 DEF Call
    <3> HIDE DEF call
    <3> QED BY <2>3, <3>1, <3>2, CallKeeps DEF WaitCall, NewCall, call
  <2>4. CASE SendCall(c)
    <3> DEFINE call == [NewCall EXCEPT !.at = "checking"]
    <3>1. call \in Call /\ call.at = "checking" /\ call.outcome = NewCall.outcome
      BY <2>1 DEF Call
    <3>2. Becomes(c, call) /\ UNCHANGED <<panelVars, cursor, sent, spinning>>
      BY <2>4 DEF SendCall
    <3>3. NewCall.outcome = "none"
      BY DEF NewCall
    <3> HIDE DEF call
    <3> QED BY <3>1, <3>2, <3>3, CallKeeps
  <2>5. CASE Abort(c)
    BY <2>5, LeavesKeeps DEF Abort
  <2>6. CASE WaitBegins(c)
    BY <2>6, BeginKeeps
  <2>7. CASE WaitPolls(c)
    <3>1. calls[c].at = "loop"
      BY <2>7 DEF WaitPolls, May
    <3>2. CASE Scan(c).kind # "none" /\ EndWith(c, Scan(c).kind, Scan(c).end, Scan(c).next)
      BY <2>2, <3>2, EndWithKeeps
    <3>3. CASE EndWith(c, "exited", 0, Scan(c).next)
      BY <2>1, <2>2, <3>3, EndWithKeeps
    <3>4. CASE ReadsOn(c, Scan(c)) \/ Sleeps(c, Scan(c), "loop") \/ Sleeps(c, Scan(c), "polling")
      BY <3>1, <3>4, ReadKeeps
    <3> QED BY <2>7, <3>2, <3>3, <3>4 DEF WaitPolls
  <2>8. CASE WaitLearns(c)
    <3> DEFINE outcome == IF Scan(c).kind = "none" THEN "exited" ELSE Scan(c).kind
    <3>1. outcome \in {"matched", "prompt", "exited"}
      BY <2>2
    <3>2. CASE EndWith(c, outcome, Scan(c).end, Scan(c).next)
      BY <2>2, <3>1, <3>2, EndWithKeeps
    <3>3. CASE Fails(c)
      BY <3>3, LeavesKeeps DEF Fails
    <3>4. CASE /\ Becomes(c, [calls[c] EXCEPT !.at = "loop"])
               /\ UNCHANGED <<panelVars, cursor, sent, spinning>>
      <4> DEFINE call == [calls[c] EXCEPT !.at = "loop"]
      <4>1. calls[c] \in Call /\ calls[c].at = "polling"
        BY <2>8 DEF WaitLearns, May, IInv, TypeOK
      <4>2. /\ call \in Call /\ call.after = calls[c].after
            /\ call.input = calls[c].input /\ call.outcome = calls[c].outcome
        BY <4>1 DEF Call
      <4>3. calls[c].outcome = "none" /\ calls[c].after >= calls[c].input
        BY <4>1 DEF IInv, CallsHeld
      <4> HIDE DEF call
      <4> QED BY <3>4, <4>2, <4>3, CallKeeps DEF call
    <3> QED BY <2>8, <3>2, <3>3, <3>4 DEF WaitLearns
  <2>9. CASE SendBegins(c)
    BY <2>9, RecordKeeps
  <2>10. CASE SendTypes(c)
    BY <2>10, TypeKeeps
  <2>11. CASE SendFollows(c)
    <3>1. calls[c].at = "following"
      BY <2>11 DEF SendFollows, May
    <3>2. CASE EndWith(c, "finished", Scan(c).end, Scan(c).end)
      BY <2>2, <3>2, EndWithKeeps
    <3>3. CASE EndSend(c, "exited")
      BY <3>3, LeavesKeeps DEF EndSend
    <3>4. CASE ReadsOn(c, Scan(c)) \/ Sleeps(c, Scan(c), "following")
      BY <3>1, <3>4, ReadKeeps
    <3> QED BY <2>11, <3>2, <3>3, <3>4 DEF SendFollows
  <2>12. CASE WaitTimesOut(c)
    <3>1. calls[c].offset \in Offsets
      BY DEF IInv, TypeOK, Call
    <3>2. CASE EndWith(c, "timeout", 0, Scan(c).next)
      BY <2>1, <2>2, <3>2, EndWithKeeps
    <3>3. CASE EndWith(c, "timeout", 0, calls[c].offset)
      BY <2>1, <3>1, <3>3, EndWithKeeps
    <3> QED BY <2>12, <3>2, <3>3 DEF WaitTimesOut
  <2>13. CASE SendGivesUp(c)
    BY <2>13, LeavesKeeps DEF SendGivesUp, EndSend
  <2> QED BY <1>3, <2>3, <2>4, <2>5, <2>6, <2>7, <2>8, <2>9, <2>10, <2>11, <2>12, <2>13
          DEF Step, Expires
<1> QED BY <1>1, <1>2, <1>3 DEF Next

THEOREM Invariant == Spec => []IInv
<1>1. Init => IInv
  BY InitHolds, PanelAssumption
<1>2. IInv /\ [Next]_vars => IInv'
  BY StepHolds, PanelAssumption
<1> QED BY <1>1, <1>2, PTL DEF Spec

\* Every variable keeps its type: offsets stay within the log's bound, and a call has an
\* outcome of its tool (scanOutput and the cursor file of panel-output.ts).
THEOREM TypeCorrect == Spec => []TypeOK
<1>1. IInv => TypeOK
  BY DEF IInv
<1> QED BY <1>1, Invariant, PTL

\* The input that the latest panel-send recorded stays in the cursor file, whatever waits and
\* sends end after it (writeCursor, wait.ts:185 and panels.ts:232).
THEOREM InputStays == Spec => []InputKept
<1>1. IInv => InputKept
  BY DEF IInv
<1> QED BY <1>1, Invariant, PTL

\* What a call may answer.
Answers == {"matched", "prompt", "timeout", "exited", "finished"}

\* The step in which a call tells an answer.  A wait has seen the state of the panel, has found
\* something, or has given up; a panel-send that follows its command has found a command end.
LEMMA TellsCases ==
  ASSUME IInv, PanelAssumption, Next, NEW c \in Calls, Tells(c, Answers)
  PROVE  /\ UNCHANGED panelVars
         /\ \/ /\ calls[c].at = "asking" /\ cursor'.cursor \in {0, cursor.cursor}
               /\ \/ /\ calls'[c].outcome = "prompt" /\ idleAtPrompt(cursor.input)
                     /\ calls'[c].end = lastPromptMark
                  \/ calls'[c].outcome = "exited"
            \/ /\ calls[c].at \in {"loop", "polling"} /\ Scan(c).kind # "none"
               /\ calls'[c].outcome = Scan(c).kind /\ calls'[c].end = Scan(c).end
            \/ /\ calls[c].at \in {"loop", "polling"}
               /\ calls'[c].outcome \in {"timeout", "exited"} /\ calls'[c].end = 0
               /\ \/ Scan(c).kind = "none" /\ cursor'.cursor = Scan(c).next
                  \/ cursor'.cursor = calls[c].offset
            \/ /\ calls[c].at = "following"
               /\ \/ /\ calls'[c].outcome = "finished" /\ Scan(c).kind = "prompt"
                     /\ calls'[c].end = Scan(c).end
                  \/ calls'[c].outcome = "exited"
<1>1. /\ calls[c].at # "done" /\ calls'[c].outcome \in Answers /\ calls[c].outcome = "none"
      /\ calls \in [Calls -> Call] /\ TypeOK /\ cursor' \in [cursor : Offsets, input : Offsets \cup {NoInput}]
  BY StepHolds DEF Tells, IInv, TypeOK, CallsHeld
<1>2. ASSUME NEW d \in Calls, NEW call, Becomes(d, call), call.outcome = "none"
      PROVE  FALSE
  BY <1>1, <1>2 DEF Becomes, Answers
<1>3. ASSUME NEW d \in Calls, NEW end \in Offsets,
             NEW outcome \in {"matched", "prompt", "finished", "exited", "timeout", "running", "screen", "error"},
             Becomes(d, Ended(d, outcome, end))
      PROVE  d = c /\ outcome \in Answers /\ calls'[c].outcome = outcome /\ calls'[c].end = end
  <2>1. Ended(d, outcome, end).outcome = outcome /\ Ended(d, outcome, end).end = end
    BY <1>3, EndedType
  <2>2. d = c
    BY <1>1, <1>3 DEF Becomes, Answers
  <2> QED BY <1>1, <1>3, <2>1, <2>2 DEF Becomes
<1>4. 0 \in Offsets /\ lastPromptMark \in Offsets
  <2>1. Size \in Offsets /\ MaxLog \in Nat
    BY DEF IInv, TypeOK, Size, Offsets, PanelAssumption
  <2> QED BY <2>1, LastMarkType DEF Offsets
<1>5. ~Panel
  BY <1>1 DEF Panel, ShowPrompt, StartCommand, ProgramWrites, CommandReads, PanelExits,
         PanelVanishes, toolsUnchanged, Answers
<1>6. PICK d \in Calls : WaitCall(d) \/ SendCall(d) \/ Abort(d) \/ Step(d) \/ Expires(d)
  BY <1>5 DEF Next
<1>7. /\ Scan(d).kind \in {"none", "matched", "prompt"} /\ Scan(d).end \in Offsets
      /\ calls[d] \in Call /\ NewCall.outcome = "none"
  BY <1>1, CallScan DEF NewCall
<1>8. ASSUME ReadsOn(d, Scan(d)) \/ \E at \in {"loop", "polling", "following"} : Sleeps(d, Scan(d), at),
             calls[d].at # "done"
      PROVE  FALSE
  <2>1. ASSUME NEW at PROVE [calls[d] EXCEPT !.offset = Scan(d).next, !.at = at].outcome = calls[d].outcome
    BY <1>7 DEF Call
  <2>2. [calls[d] EXCEPT !.offset = Scan(d).next].outcome = calls[d].outcome
    BY <1>7 DEF Call
  <2>3. PICK call : Becomes(d, call) /\ call.outcome = calls[d].outcome
    BY <1>8, <2>1, <2>2 DEF ReadsOn, Sleeps
  <2>4. calls[d].outcome = "none"
    BY <1>8 DEF IInv, CallsHeld
  <2> QED BY <1>2, <2>3, <2>4
<1>9. ~Fails(d) /\ ~EndSend(d, "running") /\ ~Becomes(d, Ended(d, "screen", 0))
  BY <1>3, <1>4 DEF Fails, EndSend, Answers
<1>10. ASSUME NEW outcome \in {"matched", "prompt", "finished", "exited", "timeout"},
              NEW end \in Offsets, NEW offset, EndWith(d, outcome, end, offset)
       PROVE  /\ d = c /\ UNCHANGED panelVars /\ calls'[c].outcome = outcome
              /\ calls'[c].end = end /\ cursor'.cursor = offset
  <2>1. d = c /\ UNCHANGED panelVars /\ calls'[c].outcome = outcome /\ calls'[c].end = end
    BY <1>3, <1>10 DEF EndWith
  <2>2. cursor'.cursor = offset
    BY <1>1, <1>10 DEF EndWith, WriteCursor, IInv, TypeOK
  <2> QED BY <2>1, <2>2
<1>11. CASE WaitCall(d)
  <2>1. PICK match \in BOOLEAN : Becomes(d, [NewCall EXCEPT !.at = "asking", !.match = match])
    BY <1>11, Zenon DEF WaitCall
  <2>2. [NewCall EXCEPT !.at = "asking", !.match = match].outcome = "none"
    BY DEF NewCall
  <2> QED BY <1>2, <2>1, <2>2
<1>12. CASE SendCall(d)
  <2>1. [NewCall EXCEPT !.at = "checking"].outcome = "none"
    BY DEF NewCall
  <2> QED BY <1>2, <1>12, <2>1 DEF SendCall
<1>13. CASE Abort(d)
  BY <1>3, <1>4, <1>13 DEF Abort, Answers
<1>14. CASE WaitBegins(d)
  <2> DEFINE offset == IF cursor.cursor <= Size THEN cursor.cursor ELSE 0
             begun == [calls[d] EXCEPT !.at = "loop", !.from = offset, !.offset = offset,
                                       !.after = Size, !.input = sent]
  <2>1. calls[d].at = "asking"
    BY <1>14 DEF WaitBegins, May
  <2>2. ~Becomes(d, begun)
    <3>1. begun.outcome = calls[d].outcome
      BY <1>7 DEF Call
    <3>2. calls[d].outcome = "none"
      BY <2>1 DEF IInv, CallsHeld
    <3> HIDE DEF begun
    <3> QED BY <1>2, <3>1, <3>2
  <2>3. \/ EndWith(d, "exited", 0, offset)
        \/ EndWith(d, "prompt", lastPromptMark, offset) /\ idleAtPrompt(cursor.input)
    BY <1>9, <1>14, <2>2 DEF WaitBegins
  <2> QED BY <1>4, <1>10, <2>1, <2>3
<1>15. CASE WaitPolls(d)
  <2>1. calls[d].at = "loop"
    BY <1>15 DEF WaitPolls, May
  <2>2. \/ Scan(d).kind # "none" /\ EndWith(d, Scan(d).kind, Scan(d).end, Scan(d).next)
        \/ Scan(d).kind = "none" /\ EndWith(d, "exited", 0, Scan(d).next)
    BY <1>8, <1>15, <2>1 DEF WaitPolls
  <2> QED BY <1>4, <1>7, <1>10, <2>1, <2>2
<1>16. CASE WaitLearns(d)
  <2> DEFINE on == [calls[d] EXCEPT !.at = "loop"]
  <2>1. calls[d].at = "polling"
    BY <1>16 DEF WaitLearns, May
  <2>2. ~Becomes(d, on)
    <3>1. on.outcome = calls[d].outcome
      BY <1>7 DEF Call
    <3>2. calls[d].outcome = "none"
      BY <2>1 DEF IInv, CallsHeld
    <3> HIDE DEF on
    <3> QED BY <1>2, <3>1, <3>2
  <2>3. EndWith(d, IF Scan(d).kind = "none" THEN "exited" ELSE Scan(d).kind, Scan(d).end, Scan(d).next)
    BY <1>9, <1>16, <2>2 DEF WaitLearns
  <2>4. Scan(d).kind = "none" => Scan(d).end = 0
    BY DEF Scan, scanOutput
  <2>5. CASE Scan(d).kind = "none"
    BY <1>4, <1>10, <2>1, <2>3, <2>4, <2>5
  <2>6. CASE Scan(d).kind # "none"
    BY <1>7, <1>10, <2>1, <2>3, <2>6
  <2> QED BY <2>5, <2>6
<1>17. CASE SendBegins(d)
  <2> DEFINE begun(atPrompt, alone, ready) ==
        [NewCall EXCEPT !.at = "sending", !.atPrompt = atPrompt, !.offset = Size,
                        !.after = Size, !.alone = alone, !.ready = ready]
      alone == typed = <<>> /\ \A e \in Calls : calls[e].at # "sending"
      ready == shell = "prompt"
      stay(call) == [call EXCEPT !.alone = FALSE]
  <2>1. calls' = [e \in Calls |-> IF e = d THEN begun(AtPrompt, alone, ready) ELSE stay(calls[e])]
    BY <1>9, <1>17, Zenon DEF SendBegins
  <2>2. begun(AtPrompt, alone, ready).outcome = "none"
    BY DEF NewCall
  <2>3. stay(calls[c]).outcome = calls[c].outcome
    BY <1>1 DEF Call
  <2> HIDE DEF begun, alone, ready, stay
  <2>4. calls'[c] = IF c = d THEN begun(AtPrompt, alone, ready) ELSE stay(calls[c])
    BY <2>1
  <2> QED BY <1>1, <2>2, <2>3, <2>4 DEF Answers
<1>18. CASE SendTypes(d)
  <2> DEFINE followed == [calls[d] EXCEPT !.at = "following"]
  <2>1. calls[d].outcome = "none"
    BY <1>18 DEF SendTypes, May, IInv, CallsHeld
  <2>2. followed.outcome = "none"
    BY <1>7, <2>1 DEF Call
  <2>3. ~Becomes(d, followed)
    <3> HIDE DEF followed
    <3> QED BY <1>2, <2>2
  <2> QED BY <1>9, <1>18, <2>3 DEF SendTypes
<1>19. CASE SendFollows(d)
  <2>1. calls[d].at = "following"
    BY <1>19 DEF SendFollows, May
  <2>2. \/ Scan(d).kind = "prompt" /\ EndWith(d, "finished", Scan(d).end, Scan(d).end)
        \/ EndSend(d, "exited")
    BY <1>8, <1>19, <2>1 DEF SendFollows
  <2>3. EndSend(d, "exited") => d = c /\ UNCHANGED panelVars /\ calls'[c].outcome = "exited"
    BY <1>3, <1>4 DEF EndSend
  <2> QED BY <1>7, <1>10, <2>1, <2>2, <2>3
<1>20. CASE Expires(d)
  <2>1. \/ /\ calls[d].at = "loop" /\ Scan(d).kind = "none" /\ EndWith(d, "timeout", 0, Scan(d).next)
        \/ calls[d].at = "polling" /\ EndWith(d, "timeout", 0, calls[d].offset)
    BY <1>9, <1>20 DEF Expires, WaitTimesOut, SendGivesUp, May, CaughtUp
  <2> QED BY <1>4, <1>10, <2>1
<1> QED BY <1>6, <1>11, <1>12, <1>13, <1>14, <1>15, <1>16, <1>17, <1>18, <1>19, <1>20 DEF Step

\* The step in which a wait answers with a prompt: it has seen that the panel is idle, or its
\* scan has found a command end.
LEMMA AnswerAfterInput ==
  ASSUME IInv, PanelAssumption, Next, NEW c \in Calls, Tells(c, {"prompt"})
  PROVE  calls'[c].end > (IF calls[c].at = "asking" THEN sent ELSE calls[c].input)
<1>1. Tells(c, Answers) /\ calls'[c].outcome = "prompt" /\ calls[c] \in Call
  BY DEF Tells, Answers, IInv, TypeOK
<1>2. CASE calls[c].at = "asking"
  BY <1>1, <1>2, TellsCases DEF idleAtPrompt, IInv, InputKept
<1>3. CASE calls[c].at # "asking"
  <2>1. /\ calls[c].at \in {"loop", "polling"} /\ Scan(c).kind = "prompt"
        /\ calls'[c].end = Scan(c).end
    BY <1>1, <1>3, TellsCases
  <2>2. Scan(c).end > calls[c].after /\ Scan(c).end \in Offsets
    BY <2>1, CallScan DEF IInv
  <2>3. calls[c].after >= calls[c].input
    BY <2>1 DEF IInv, CallsHeld
  <2>4. calls[c].after \in Int /\ calls[c].input \in Int /\ Scan(c).end \in Int
    BY <1>1, <2>2 DEF Call, Offsets, NoInput
  <2> QED BY <1>3, <2>1, <2>2, <2>3, <2>4
<1> QED BY <1>2, <1>3

\* A wait never answers with a prompt from before the input that was the latest when it began
\* (idleAtPrompt and promptAfter, wait.ts:149-152).
THEOREM PromptAfterInputHolds == Spec => PromptAfterInput
<1>1. IInv /\ [Next]_vars =>
        [\A c \in Calls :
           Tells(c, {"prompt"}) =>
             calls'[c].end > (IF calls[c].at = "asking" THEN sent ELSE calls[c].input)]_vars
  BY AnswerAfterInput, PanelAssumption
<1> QED BY <1>1, Invariant, PTL DEF Spec, PromptAfterInput

-----------------------------------------------------------------------------
(***************************************************************************)
(* What a wait has examined.  It reads the log in pieces, while the log    *)
(* grows, and a piece may end within a line.  An interval of the log is    *)
(* quiet for a call if nothing in it ends the call and it breaks off       *)
(* within no line that matches so far: quiet pieces then make up a quiet   *)
(* interval, wherever they were cut.                                       *)
(***************************************************************************)

\* The complete lines that match.
MatchingLines(from, to) ==
  {n \in In({"nl"}, from, to) : /\ In({"exit"}, LineStart(from, n), n) = {}
                                /\ In({"hit"}, LineStart(from, n), n) # {}}

Clear(call, from, to) ==
  /\ CommandEnds(from, to, call.after) = {}
  /\ call.match => MatchingLines(from, to) = {}

Quiet(call, from, to) ==
  /\ Clear(call, from, to)
  /\ call.match => In({"hit"}, Consumed(from, to), to) = {}

Reading(c) == calls[c].at \in {"loop", "polling"}

\* What a wait has examined lies within the log and is quiet.
Examined ==
  \A c \in Calls : Reading(c) =>
    /\ calls[c].from <= calls[c].offset /\ calls[c].offset <= Size
    /\ Quiet(calls[c], calls[c].from, calls[c].offset)

\* Where the last complete line ends is the last of the offsets it may be.
LEMMA ConsumedIs ==
  ASSUME NEW from \in Nat, NEW to \in Nat
  PROVE  LET m == Consumed(from, to) IN
         /\ m \in Nat /\ from <= m /\ m \in {from} \cup In({"nl"}, from, to)
         /\ \A n \in In({"nl"}, from, to) : n <= m
<1> DEFINE S == {from} \cup In({"nl"}, from, to)
<1>1. PICK top \in Nat : from <= top /\ to <= top
  <2>1. from <= from + to /\ to <= from + to /\ from + to \in Nat
    OBVIOUS
  <2> QED BY <2>1
<1>2. S \subseteq 0..top /\ S # {}
  BY <1>1 DEF In
<1> HIDE DEF S
<1>3. Max(S) \in S /\ \A y \in S : y <= Max(S)
  BY <1>1, <1>2, MaxOf
<1>4. Max(S) \in Nat
  <2>1. Max(S) \in 0..top
    BY <1>2, <1>3, Zenon
  <2> QED BY <1>1, <2>1
<1>5. from \in S /\ \A n \in In({"nl"}, from, to) : n \in S
  BY DEF S
<1> QED BY <1>3, <1>4, <1>5 DEF Consumed, S

\* Any offset with that property is it.
LEMMA ConsumedUnique ==
  ASSUME NEW from \in Nat, NEW to \in Nat, NEW m \in {from} \cup In({"nl"}, from, to),
         from <= m, \A n \in In({"nl"}, from, to) : n <= m
  PROVE  Consumed(from, to) = m
<1> DEFINE k == Consumed(from, to)
<1>1. m \in Nat
  BY DEF In
<1>2. /\ k \in Nat /\ from <= k /\ k \in {from} \cup In({"nl"}, from, to)
      /\ \A n \in In({"nl"}, from, to) : n <= k
  BY ConsumedIs
<1> HIDE DEF k
<1>3. k <= m /\ m <= k
  BY <1>2
<1>4. k = m
  BY <1>1, <1>2, <1>3
<1> QED BY <1>4 DEF k

\* The last line of an interval is that of its second part, if a line ends there.
LEMMA ConsumedJoins ==
  ASSUME NEW from \in Nat, NEW mid \in Nat, NEW to \in Nat, from <= mid, mid <= to
  PROVE  Consumed(from, to) =
           IF In({"nl"}, mid, to) = {} THEN Consumed(from, mid) ELSE Consumed(mid, to)
<1>1. In({"nl"}, from, to) = In({"nl"}, from, mid) \cup In({"nl"}, mid, to)
  BY DEF In
<1>2. \A n \in In({"nl"}, from, mid) : n <= mid
  BY DEF In
<1>3. \A n \in In({"nl"}, mid, to) : n > mid /\ n \in Nat
  BY DEF In
<1>4. CASE In({"nl"}, mid, to) = {}
  <2> DEFINE m == Consumed(from, mid)
  <2>1. /\ m \in {from} \cup In({"nl"}, from, to) /\ from <= m
        /\ \A n \in In({"nl"}, from, to) : n <= m
    BY <1>1, <1>4, ConsumedIs
  <2> HIDE DEF m
  <2>2. Consumed(from, to) = m
    BY <2>1, ConsumedUnique
  <2> QED BY <1>4, <2>2 DEF m
<1>5. CASE In({"nl"}, mid, to) # {}
  <2> DEFINE m == Consumed(mid, to)
  <2>1. /\ m \in Nat /\ mid <= m /\ m \in {mid} \cup In({"nl"}, mid, to)
        /\ \A n \in In({"nl"}, mid, to) : n <= m
    BY ConsumedIs
  <2> HIDE DEF m
  <2>2. PICK n \in In({"nl"}, mid, to) : TRUE
    BY <1>5
  <2>3. m # mid
    BY <1>3, <2>1, <2>2
  <2>4. m \in In({"nl"}, from, to) /\ from <= m
    BY <1>1, <2>1, <2>3
  <2>5. \A k \in In({"nl"}, from, to) : k <= m
    <3> SUFFICES ASSUME NEW k \in In({"nl"}, from, mid) PROVE k <= m
      BY <1>1, <2>1
    <3>1. k \in Nat /\ k <= mid
      BY <1>2 DEF In
    <3> QED BY <2>1, <3>1
  <2>6. Consumed(from, to) = m
    BY <2>4, <2>5, ConsumedUnique
  <2> QED BY <1>5, <2>6 DEF m
<1> QED BY <1>4, <1>5

\* A quiet interval followed by a clear one is clear: a line that begins in the first and ends
\* in the second has all its matches in the second.
LEMMA ClearJoins ==
  ASSUME NEW call \in Call, NEW from \in Nat, NEW mid \in Nat, NEW to \in Nat,
         from <= mid, mid <= to, Quiet(call, from, mid), Clear(call, mid, to)
  PROVE  Clear(call, from, to)
<1>1. CommandEnds(from, to, call.after) = {}
  BY DEF Quiet, Clear, CommandEnds, In
<1>2. ASSUME call.match PROVE MatchingLines(from, to) = {}
  <2> SUFFICES ASSUME NEW n \in MatchingLines(from, to) PROVE FALSE
    OBVIOUS
  <2>1. /\ n \in In({"nl"}, from, to) /\ n \in Nat /\ from < n /\ n <= to /\ n - 1 \in Nat
        /\ log[n] \in {"nl"}
        /\ In({"exit"}, LineStart(from, n), n) = {} /\ In({"hit"}, LineStart(from, n), n) # {}
    BY DEF MatchingLines, In
  <2>2. CASE n <= mid
    <3>1. n \in In({"nl"}, from, mid)
      BY <2>1, <2>2 DEF In
    <3> QED BY <1>2, <2>1, <3>1 DEF Quiet, Clear, MatchingLines
  <2>3. CASE n > mid
    <3> DEFINE start == LineStart(from, n)
               late == LineStart(mid, n)
    <3>1. n \in In({"nl"}, mid, to)
      BY <2>1, <2>3 DEF In
    <3>2. mid <= n - 1 /\ late \in Nat /\ start \in Nat
      BY <2>1, <2>3, ConsumedIs DEF LineStart
    <3>3. CASE In({"nl"}, mid, n - 1) # {}
      <4>1. start = late
        BY <2>1, <3>2, <3>3, ConsumedJoins DEF LineStart
      <4> QED BY <1>2, <2>1, <3>1, <4>1 DEF Clear, MatchingLines
    <3>4. CASE In({"nl"}, mid, n - 1) = {}
      <4>1. start = Consumed(from, mid)
        BY <2>1, <3>2, <3>4, ConsumedJoins DEF LineStart
      <4>2. late = mid
        BY <2>1, <3>2, <3>4, ConsumedIs DEF LineStart
      <4>3. start <= mid
        BY <4>1, ConsumedIs DEF In
      <4>4. In({"hit"}, start, mid) = {}
        BY <1>2, <4>1 DEF Quiet
      <4>5. /\ In({"hit"}, start, n) \subseteq In({"hit"}, start, mid) \cup In({"hit"}, mid, n)
            /\ In({"exit"}, mid, n) \subseteq In({"exit"}, start, n)
        BY <2>1, <3>2, <4>3 DEF In
      <4> HIDE DEF start, late
      <4>6. In({"hit"}, late, n) # {} /\ In({"exit"}, late, n) = {}
        BY <2>1, <4>2, <4>4, <4>5 DEF start
      <4> QED BY <1>2, <3>1, <4>6 DEF Clear, MatchingLines, late
    <3> QED BY <3>3, <3>4
  <2> QED BY <2>1, <2>2, <2>3
<1> QED BY <1>1, <1>2 DEF Clear

\* Two quiet intervals make up a quiet one.
LEMMA QuietJoins ==
  ASSUME NEW call \in Call, NEW from \in Nat, NEW mid \in Nat, NEW to \in Nat,
         from <= mid, mid <= to, Quiet(call, from, mid), Quiet(call, mid, to)
  PROVE  Quiet(call, from, to)
<1>1. Clear(call, from, to)
  BY ClearJoins DEF Quiet
<1>2. ASSUME call.match PROVE In({"hit"}, Consumed(from, to), to) = {}
  <2>1. CASE In({"nl"}, mid, to) # {}
    BY <1>2, <2>1, ConsumedJoins DEF Quiet
  <2>2. CASE In({"nl"}, mid, to) = {}
    <3>1. Consumed(from, to) = Consumed(from, mid) /\ Consumed(mid, to) = mid
      <4>1. Consumed(mid, to) \in {mid}
        BY <2>2, ConsumedIs
      <4> QED BY <2>2, <4>1, ConsumedJoins
    <3>2. In({"hit"}, Consumed(from, mid), mid) = {} /\ In({"hit"}, mid, to) = {}
      BY <1>2, <3>1 DEF Quiet
    <3>3. Consumed(from, mid) \in Nat
      BY ConsumedIs
    <3>4. In({"hit"}, Consumed(from, mid), to)
            \subseteq In({"hit"}, Consumed(from, mid), mid) \cup In({"hit"}, mid, to)
      BY <3>3 DEF In
    <3> QED BY <3>1, <3>2, <3>4
  <2> QED BY <2>1, <2>2
<1> QED BY <1>1, <1>2 DEF Quiet

\* An empty interval is quiet.
LEMMA EmptyQuiet == ASSUME NEW call \in Call, NEW from \in Nat PROVE Quiet(call, from, from)
<1>1. \A kinds : In(kinds, from, from) = {}
  BY DEF In
<1>2. Consumed(from, from) = from
  BY <1>1, ConsumedIs
<1> QED BY <1>1, <1>2 DEF Quiet, Clear, CommandEnds, MatchingLines

\* At the end of a complete line, the lines to be matched are the complete ones.
LEMMA MatchesAreLines ==
  ASSUME NEW from \in Nat, NEW to \in Nat, from <= to
  PROVE  Matches(from, Consumed(from, to)) \subseteq MatchingLines(from, to)
<1> DEFINE m == Consumed(from, to)
<1>1. m \in Nat /\ from <= m /\ m \in {from} \cup In({"nl"}, from, to)
  BY ConsumedIs
<1>2. m <= to
  BY <1>1 DEF In
<1> HIDE DEF m
<1>3. m \in {from} \cup In({"nl"}, from, m)
  BY <1>1 DEF In
<1>4. \A n \in In({"nl"}, from, m) : n <= m /\ n \in In({"nl"}, from, to)
  BY <1>1, <1>2 DEF In
<1>5. Consumed(from, m) = m
  BY <1>1, <1>3, <1>4, ConsumedUnique
<1>6. ~Partial(from, m)
  BY <1>1, <1>5 DEF Partial, In
<1> QED BY <1>4, <1>6 DEF Matches, Candidates, MatchingLines, m

-----------------------------------------------------------------------------
(* What a read adds to it *)

\* The piece that a read examines.
LEMMA ReadTo ==
  ASSUME TypeOK, PanelAssumption, NEW offset \in Offsets, offset <= Size
  PROVE  LET to == Min({Size, offset + ReadLimit}) IN
         /\ to \in Nat /\ offset <= to /\ to <= Size
         /\ to < Size => to = offset + ReadLimit
<1>1. Size \in Nat /\ offset \in Nat /\ ReadLimit \in Nat /\ offset + ReadLimit \in Nat
  BY DEF TypeOK, PanelAssumption, Size, Offsets
<1>2. {Size, offset + ReadLimit} \subseteq Nat
  BY <1>1
<1> DEFINE to == Min({Size, offset + ReadLimit})
<1>3. to \in {Size, offset + ReadLimit} /\ to <= Size /\ to <= offset + ReadLimit
  BY <1>2, MinOf
<1> HIDE DEF to
<1> QED BY <1>1, <1>3 DEF to

\* A read that finds nothing has examined a quiet piece.
LEMMA ScanQuiet ==
  ASSUME TypeOK, PanelAssumption, NEW call \in Call, call.offset <= Size,
         scanOutput(call.offset, call.match, call.after).kind = "none"
  PROVE  LET scan == scanOutput(call.offset, call.match, call.after) IN
         /\ call.offset <= scan.next /\ scan.next <= Size /\ scan.next \in Nat /\ scan.end = 0
         /\ Quiet(call, call.offset, scan.next)
<1> DEFINE o == call.offset
           to == Min({Size, o + ReadLimit})
           matches == IF call.match THEN Matches(o, to) ELSE {}
           stops == CommandEnds(o, to, call.after)
           scan == scanOutput(o, call.match, call.after)
           n == Consumed(o, to)
<1>1. o \in Offsets /\ o \in Nat /\ Size \in Nat
  BY DEF Call, Offsets, PanelAssumption, TypeOK, Size
<1>2. to \in Nat /\ o <= to /\ to <= Size
  BY <1>1, ReadTo
<1>3. matches = {} /\ stops = {} /\ scan.end = 0 /\ scan.next = ChunkNext(o, to)
  BY DEF scanOutput, Found
<1> HIDE DEF to, scan
<1>4. /\ n \in Nat /\ o <= n /\ n \in {o} \cup In({"nl"}, o, to)
      /\ \A m \in In({"nl"}, o, to) : m <= n
  BY <1>1, <1>2, ConsumedIs
<1>5. n <= to
  BY <1>1, <1>2, <1>4 DEF In
<1>6. CASE scan.next = to /\ n = o /\ Partial(o, to)
  <2>1. In({"nl"}, o, to) = {}
    <3>1. \A m \in In({"nl"}, o, to) : m <= o
      BY <1>4, <1>6
    <3> QED BY <1>1, <3>1 DEF In
  <2>2. In({"hit"}, o, to) = {} \/ ~call.match
    <3> SUFFICES ASSUME call.match PROVE In({"hit"}, o, to) = {}
      OBVIOUS
    <3>1. to \in Candidates(o, to) /\ to \notin Matches(o, to)
      BY <1>3, <1>6 DEF Candidates
    <3>2. In({"hit"}, LineStart(o, to), to) = {}
      BY <3>1 DEF Matches
    <3>3. to # o
      BY <1>1, <1>6 DEF Partial, In
    <3>4. to - 1 \in Nat /\ In({"nl"}, o, to - 1) = {}
      BY <1>1, <1>2, <2>1, <3>3 DEF In
    <3>5. LineStart(o, to) = o
      BY <1>1, <3>4, ConsumedIs DEF LineStart
    <3> QED BY <3>2, <3>5
  <2>3. MatchingLines(o, to) = {}
    BY <2>1 DEF MatchingLines
  <2>4. Quiet(call, o, to)
    BY <1>3, <1>6, <2>2, <2>3 DEF Quiet, Clear
  <2> QED BY <1>2, <1>3, <1>6, <2>4 DEF scan
<1>7. CASE scan.next = n
  <2>1. CommandEnds(o, n, call.after) = {}
    BY <1>1, <1>2, <1>3, <1>4, <1>5 DEF CommandEnds, In
  <2>2. call.match => MatchingLines(o, n) = {}
    <3>1. call.match => Matches(o, to) = {}
      BY <1>3
    <3>2. MatchingLines(o, n) \subseteq Matches(o, to)
      BY <1>1, <1>2, <1>4, <1>5 DEF MatchingLines, Matches, Candidates, In
    <3> QED BY <3>1, <3>2
  <2>3. In({"hit"}, Consumed(o, n), n) = {}
    <3>1. n \in {o} \cup In({"nl"}, o, n)
      BY <1>4 DEF In
    <3>2. \A m \in In({"nl"}, o, n) : m <= n
      BY <1>1, <1>4 DEF In
    <3>3. Consumed(o, n) = n
      BY <1>1, <1>4, <3>1, <3>2, ConsumedUnique
    <3> QED BY <1>4, <3>3 DEF In
  <2>4. Quiet(call, o, n)
    BY <2>1, <2>2, <2>3 DEF Quiet, Clear
  <2>5. n <= Size
    <3> HIDE DEF n
    <3> QED BY <1>1, <1>2, <1>4, <1>5
  <2>6. /\ o <= scan.next /\ scan.next <= Size /\ scan.next \in Nat /\ scan.end = 0
        /\ Quiet(call, o, scan.next)
    <3> HIDE DEF n
    <3> QED BY <1>3, <1>4, <1>7, <2>4, <2>5
  <2> QED BY <2>6 DEF scan
<1> QED BY <1>3, <1>6, <1>7 DEF ChunkNext

\* A read that stops has examined nothing else up to where it stops.
LEMMA ScanStops ==
  ASSUME TypeOK, PanelAssumption, NEW call \in Call, call.offset <= Size,
         scanOutput(call.offset, call.match, call.after).kind # "none"
  PROVE  LET scan == scanOutput(call.offset, call.match, call.after) IN
         /\ scan.end \in Nat /\ call.offset < scan.end /\ scan.end <= Size
         /\ Clear(call, call.offset, scan.end - 1)
         /\ scan.kind = "prompt" => scan.end \in CommandEnds(call.offset, Size, call.after)
<1> DEFINE o == call.offset
           to == Min({Size, o + ReadLimit})
           matches == IF call.match THEN Matches(o, to) ELSE {}
           stops == CommandEnds(o, to, call.after)
           found == matches \cup stops
           scan == scanOutput(o, call.match, call.after)
           e == Min(found)
<1>1. o \in Offsets /\ o \in Nat /\ Size \in Nat
  BY DEF Call, Offsets, PanelAssumption, TypeOK, Size
<1>2. to \in Nat /\ o <= to /\ to <= Size
  BY <1>1, ReadTo
<1>3. found # {} /\ scan.end = e /\ (scan.kind = "prompt" => e \notin matches)
  BY DEF scanOutput, Found
<1> HIDE DEF to, scan
<1>4. \A m \in found : m \in Nat /\ o < m /\ m <= to
  <2>1. \A m \in stops : m \in Nat /\ o < m /\ m <= to
    BY <1>1 DEF CommandEnds, In
  <2>2. \A m \in Matches(o, to) : m \in Nat /\ o < m /\ m <= to
    <3> SUFFICES ASSUME NEW m \in Candidates(o, to) PROVE m \in Nat /\ o < m /\ m <= to
      BY DEF Matches
    <3>1. CASE m \in In({"nl"}, o, to)
      BY <1>1, <3>1 DEF In
    <3>2. CASE m = to /\ Partial(o, to)
      <4>1. o < to
        <5>1. Consumed(o, to) \in Nat /\ o <= Consumed(o, to)
          BY <1>1, <1>2, ConsumedIs
        <5> QED BY <1>1, <1>2, <3>2, <5>1 DEF Partial, In
      <4> QED BY <1>2, <3>2, <4>1
    <3> QED BY <3>1, <3>2 DEF Candidates
  <2> QED BY <2>1, <2>2
<1>5. e \in found /\ \A m \in found : e <= m
  <2> HIDE DEF found
  <2> QED BY <1>3, <1>4, MinOf
<1> HIDE DEF e
<1>6. e \in Nat /\ o < e /\ e <= to
  BY <1>4, <1>5
<1>7. e - 1 \in Nat /\ o <= e - 1 /\ e - 1 < e /\ e - 1 <= to
  BY <1>1, <1>2, <1>6
<1>8. CommandEnds(o, e - 1, call.after) = {}
  <2>1. CommandEnds(o, e - 1, call.after) \subseteq stops
    BY <1>1, <1>2, <1>7 DEF CommandEnds, In
  <2>2. \A m \in CommandEnds(o, e - 1, call.after) : m <= e - 1 /\ m \in Nat
    BY <1>1, <1>7 DEF CommandEnds, In
  <2> QED BY <1>5, <1>6, <1>7, <2>1, <2>2
<1>9. call.match => MatchingLines(o, e - 1) = {}
  <2> SUFFICES ASSUME call.match PROVE MatchingLines(o, e - 1) = {}
    OBVIOUS
  <2>1. MatchingLines(o, e - 1) \subseteq matches
    BY <1>1, <1>2, <1>7 DEF MatchingLines, Matches, Candidates, In
  <2>2. \A m \in MatchingLines(o, e - 1) : m <= e - 1 /\ m \in Nat
    BY <1>1, <1>7 DEF MatchingLines, In
  <2> QED BY <1>5, <1>6, <1>7, <2>1, <2>2
<1>10. scan.kind = "prompt" => e \in CommandEnds(o, Size, call.after)
  <2>1. scan.kind = "prompt" => e \in stops
    BY <1>3, <1>5
  <2> QED BY <1>1, <1>2, <2>1 DEF CommandEnds, In
<1> QED BY <1>1, <1>2, <1>3, <1>6, <1>8, <1>9, <1>10 DEF Clear, scan

-----------------------------------------------------------------------------
(* What a wait has examined stays quiet *)

\* The log keeps what it holds.
Grown == Size <= Size' /\ Size' \in Nat /\ \A i \in 1..Size : log'[i] = log[i]

\* The interval that a wait has examined.
ExaminedBy(call) ==
  call.from <= call.offset /\ call.offset <= Size /\ Quiet(call, call.from, call.offset)

\* Writing adds to the log.
LEMMA WriteGrows ==
  ASSUME TypeOK, PanelAssumption, NEW atoms \in Seq(Atoms), Write(atoms)
  PROVE  Grown
<1>1. log \in Seq(Atoms) /\ log' = log \o atoms
  BY DEF TypeOK, Write
<1>2. \A i \in 1..Len(log) : (log \o atoms)[i] = log[i]
  BY <1>1
<1> QED BY <1>1, <1>2, WriteType DEF Grown, Size

\* A call writes nothing to the log and does nothing in the shell but type.
LEMMA CallLeavesPanel ==
  ASSUME NEW c \in Calls, WaitCall(c) \/ SendCall(c) \/ Abort(c) \/ Step(c) \/ Expires(c)
  PROVE  UNCHANGED <<log, surface, shell, read>>
<1> USE DEF Fails, EndWith, EndSend, ReadsOn, Sleeps, panelVars
<1>1. CASE WaitCall(c)
  BY <1>1, Zenon DEF WaitCall
<1>2. CASE SendCall(c)
  BY <1>2 DEF SendCall
<1>3. CASE Abort(c)
  BY <1>3 DEF Abort
<1>4. CASE WaitBegins(c)
  BY <1>4 DEF WaitBegins
<1>5. CASE WaitPolls(c)
  BY <1>5 DEF WaitPolls
<1>6. CASE WaitLearns(c)
  BY <1>6 DEF WaitLearns
<1>7. CASE SendBegins(c)
  BY <1>7, Zenon DEF SendBegins
<1>8. CASE SendTypes(c)
  BY <1>8 DEF SendTypes
<1>9. CASE SendFollows(c)
  BY <1>9 DEF SendFollows
<1>10. CASE WaitTimesOut(c)
  BY <1>10 DEF WaitTimesOut
<1>11. CASE SendGivesUp(c)
  BY <1>11 DEF SendGivesUp
<1> QED BY <1>1, <1>2, <1>3, <1>4, <1>5, <1>6, <1>7, <1>8, <1>9, <1>10, <1>11 DEF Step, Expires

\* No step takes anything from the log.
LEMMA LogGrows ==
  ASSUME TypeOK, PanelAssumption, [Next]_vars
  PROVE  Grown
<1>1. ASSUME UNCHANGED log PROVE Grown
  BY <1>1 DEF Grown, Size, TypeOK
<1>2. \A atom \in Atoms : <<atom>> \in Seq(Atoms)
  OBVIOUS
<1>4. Banner \cup Output \cup Background \subseteq Atoms
  BY DEF PanelAssumption, Atoms
<1>5. CASE ShowPrompt
  <2>1. <<"A">> \in Seq(Atoms) /\ <<>> \in Seq(Atoms)
    BY DEF Atoms
  <2> QED BY <1>5, <2>1, WriteGrows DEF ShowPrompt
<1>6. CASE StartCommand
  <2>1. <<"nl">> \in Seq(Atoms) /\ <<"nl", "C">> \in Seq(Atoms)
    BY DEF Atoms
  <2> QED BY <1>6, <2>1, WriteGrows DEF StartCommand
<1>7. CASE ProgramWrites
  <2>1. PICK atom \in Banner \cup Output \cup Background : Write(<<atom>>)
    BY <1>7 DEF ProgramWrites
  <2> QED BY <1>2, <1>4, <2>1, WriteGrows
<1>9. CASE PanelExits
  <2>1. <<"nl", "exit", "nl">> \in Seq(Atoms)
    BY DEF Atoms
  <2> QED BY <1>1, <1>9, <2>1, WriteGrows DEF PanelExits
<1>10. CASE CommandReads \/ PanelVanishes \/ UNCHANGED vars
  BY <1>1, <1>10 DEF CommandReads, PanelVanishes, vars, panelVars
<1>11. ASSUME NEW c \in Calls, WaitCall(c) \/ SendCall(c) \/ Abort(c) \/ Step(c) \/ Expires(c)
       PROVE  UNCHANGED log
  BY <1>11, CallLeavesPanel
<1> QED BY <1>1, <1>5, <1>6, <1>7, <1>9, <1>10, <1>11 DEF Next, Panel

\* What lies between two offsets is not written again.
LEMMA InStays ==
  ASSUME TypeOK, Grown, NEW from \in Nat, NEW to \in Int, to <= Size
  PROVE  /\ \A kinds : In(kinds, from, to)' = In(kinds, from, to)
         /\ Consumed(from, to)' = Consumed(from, to)
<1>1. \A i \in from + 1 .. to : i \in 1..Size
  BY DEF TypeOK, Size
<1>2. \A kinds : In(kinds, from, to)' = In(kinds, from, to)
  BY <1>1 DEF In, Grown
<1> QED BY <1>2 DEF Consumed

\* An interval that is quiet stays so.
LEMMA QuietStays ==
  ASSUME TypeOK, Grown, NEW call \in Call, NEW from \in Nat, NEW to \in Nat, to <= Size
  PROVE  Quiet(call, from, to)' = Quiet(call, from, to)
<1>1. Size \in Nat
  BY DEF TypeOK, Size
<1>2. CommandEnds(from, to, call.after)' = CommandEnds(from, to, call.after)
  BY InStays DEF CommandEnds
<1>3. MatchingLines(from, to)' = MatchingLines(from, to)
  <2>1. In({"nl"}, from, to)' = In({"nl"}, from, to)
    BY InStays
  <2>2. ASSUME NEW n \in In({"nl"}, from, to)
        PROVE  /\ LineStart(from, n)' = LineStart(from, n)
               /\ \A kinds : In(kinds, LineStart(from, n), n)' = In(kinds, LineStart(from, n), n)
    <3>1. n \in Nat /\ n - 1 \in Nat /\ n <= Size /\ n - 1 <= Size
      BY <1>1 DEF In
    <3>2. LineStart(from, n)' = LineStart(from, n)
      BY <3>1, InStays DEF LineStart
    <3> DEFINE start == LineStart(from, n)
    <3>3. start \in Nat
      BY <3>1, ConsumedIs DEF LineStart
    <3>4. start' = start
      BY <3>2
    <3> HIDE DEF start
    <3>5. \A kinds : In(kinds, start, n)' = In(kinds, start, n)
      BY <3>1, <3>3, <3>4, InStays
    <3> QED BY <3>2, <3>5 DEF start
  <2> QED BY <2>1, <2>2 DEF MatchingLines
<1>4. In({"hit"}, Consumed(from, to), to)' = In({"hit"}, Consumed(from, to), to)
  <2> DEFINE last == Consumed(from, to)
  <2>1. last \in Nat /\ last' = last
    <3>1. last \in Nat
      BY ConsumedIs
    <3>2. last' = last
      BY InStays
    <3> QED BY <3>1, <3>2
  <2> HIDE DEF last
  <2>2. In({"hit"}, last, to)' = In({"hit"}, last, to)
    BY <2>1, InStays
  <2> QED BY <2>2 DEF last
<1> QED BY <1>2, <1>3, <1>4 DEF Quiet, Clear

\* What was examined stays examined.
LEMMA ExaminedKept ==
  ASSUME TypeOK, Grown, NEW call \in Call, NEW later \in Call, ExaminedBy(call),
         later.from = call.from, later.offset = call.offset,
         later.after = call.after, later.match = call.match
  PROVE  ExaminedBy(later)'
<1>1. call.from \in Nat /\ call.offset \in Nat /\ Size \in Nat
  BY DEF Call, Offsets, TypeOK, Size
<1>2. call.offset <= Size' /\ Quiet(call, call.from, call.offset)'
  BY <1>1, QuietStays DEF ExaminedBy, Grown
<1>3. Quiet(later, call.from, call.offset)'
  BY <1>2 DEF Quiet, Clear
<1> QED BY <1>1, <1>2, <1>3 DEF ExaminedBy

\* A read that finds nothing adds the piece that it has examined.
LEMMA ExaminedOn ==
  ASSUME TypeOK, PanelAssumption, NEW call \in Call, NEW later \in Call, ExaminedBy(call),
         scanOutput(call.offset, call.match, call.after).kind = "none",
         later.offset = scanOutput(call.offset, call.match, call.after).next,
         later.from = call.from, later.after = call.after, later.match = call.match
  PROVE  ExaminedBy(later)
<1> DEFINE next == scanOutput(call.offset, call.match, call.after).next
<1>1. /\ call.offset <= next /\ next <= Size /\ next \in Nat
      /\ Quiet(call, call.offset, next)
  BY ScanQuiet DEF ExaminedBy
<1>2. later.offset = next
  OBVIOUS
<1> HIDE DEF next
<1>3. call.from \in Nat /\ call.offset \in Nat /\ call.from <= call.offset
  BY DEF Call, Offsets, ExaminedBy
<1>4. Quiet(call, call.from, next)
  BY <1>1, <1>3, QuietJoins DEF ExaminedBy
<1>5. Quiet(later, call.from, next)
  BY <1>4 DEF Quiet, Clear
<1> QED BY <1>1, <1>2, <1>3, <1>5 DEF ExaminedBy


\* Every step leaves a wait that goes on with a quiet interval.
LEMMA StepExamined ==
  ASSUME IInv, PanelAssumption, Examined, [Next]_vars
  PROVE  Examined'
<1>1. TypeOK /\ Grown /\ IInv'
  BY StepHolds, LogGrows DEF IInv
<1>2. SUFFICES ASSUME NEW c \in Calls, Reading(c)' PROVE ExaminedBy(calls[c])'
  BY DEF Examined, ExaminedBy
<1>3. calls[c] \in Call /\ calls'[c] \in Call /\ calls \in [Calls -> Call]
  BY <1>1 DEF IInv, TypeOK
<1>4. Reading(c) => ExaminedBy(calls[c])
  BY DEF Examined, ExaminedBy
<1>5. ASSUME Reading(c), calls'[c].from = calls[c].from, calls'[c].offset = calls[c].offset,
             calls'[c].after = calls[c].after, calls'[c].match = calls[c].match
      PROVE  ExaminedBy(calls[c])'
  BY <1>1, <1>3, <1>4, <1>5, ExaminedKept
<1>6. ASSUME UNCHANGED calls PROVE ExaminedBy(calls[c])'
  BY <1>2, <1>5, <1>6 DEF Reading
<1>7. ASSUME NEW d \in Calls, NEW call, Becomes(d, call), call.at \notin {"loop", "polling"}
      PROVE  ExaminedBy(calls[c])'
  <2>1. c # d /\ calls'[c] = calls[c]
    BY <1>2, <1>3, <1>7 DEF Becomes, Reading
  <2> QED BY <1>2, <1>5, <2>1 DEF Reading
<1>8. ASSUME NEW d \in Calls, NEW outcome, NEW end, Becomes(d, Ended(d, outcome, end))
      PROVE  ExaminedBy(calls[c])'
  <2>1. Ended(d, outcome, end).at = "done"
    BY DEF Ended, NewCall
  <2> QED BY <1>7, <1>8, <2>1
<1>9. CASE UNCHANGED vars \/ Panel
  BY <1>6, <1>9 DEF vars, Panel, ShowPrompt, StartCommand, ProgramWrites, CommandReads,
     PanelExits, PanelVanishes, toolsUnchanged
<1>10. ASSUME NEW d \in Calls,
              WaitCall(d) \/ SendCall(d) \/ Abort(d) \/ Step(d) \/ Expires(d)
       PROVE  ExaminedBy(calls[c])'
  <2>1. CASE WaitCall(d)
    <3>1. PICK match \in BOOLEAN : Becomes(d, [NewCall EXCEPT !.at = "asking", !.match = match])
      BY <2>1, Zenon DEF WaitCall
    <3>2. [NewCall EXCEPT !.at = "asking", !.match = match].at = "asking"
      BY DEF NewCall
    <3> QED BY <1>7, <3>1, <3>2
  <2>2. CASE SendCall(d)
    <3>1. [NewCall EXCEPT !.at = "checking"].at = "checking"
      BY DEF NewCall
    <3> QED BY <1>7, <2>2, <3>1 DEF SendCall
  <2>3. CASE Abort(d)
    BY <1>8, <2>3 DEF Abort
  <2>4. CASE WaitBegins(d)
    <3> DEFINE offset == IF cursor.cursor <= Size THEN cursor.cursor ELSE 0
               begun == [calls[d] EXCEPT !.at = "loop", !.from = offset, !.offset = offset,
                                         !.after = Size, !.input = sent]
    <3>1. CASE Becomes(d, begun) /\ UNCHANGED log
      <4>1. CASE c # d
        <5>1. calls'[c] = calls[c]
          BY <3>1, <4>1 DEF Becomes
        <5> QED BY <1>2, <1>5, <5>1 DEF Reading
      <4>2. CASE c = d
        <5>1. calls'[c] = begun
          BY <1>3, <3>1, <4>2 DEF Becomes
        <5>2. begun.from = offset /\ begun.offset = offset
          BY <1>3, <4>2 DEF Call
        <5>3. offset \in Nat /\ offset <= Size
          BY <1>1 DEF TypeOK, Offsets, Size
        <5> HIDE DEF begun, offset
        <5>4. Quiet(begun, offset, offset)
          BY <1>3, <5>1, <5>3, EmptyQuiet
        <5>5. begun \in Call /\ ExaminedBy(begun)
          BY <1>3, <5>1, <5>2, <5>3, <5>4 DEF ExaminedBy
        <5>6. \E call \in Call : ExaminedBy(call) /\ call = calls'[c]
          BY <5>1, <5>5
        <5> QED BY <1>1, <1>3, <5>6, ExaminedKept
      <4> QED BY <4>1, <4>2
    <3>2. CASE \E outcome, end : Becomes(d, Ended(d, outcome, end))
      BY <1>8, <3>2
    <3> HIDE DEF begun
    <3> QED BY <2>4, <3>1, <3>2 DEF WaitBegins, EndWith, Fails, begun, panelVars
  <2>5. ASSUME NEW at, calls[d].at \in {"loop", "following"},
               \/ ReadsOn(d, Scan(d)) /\ at = calls[d].at
               \/ Sleeps(d, Scan(d), at) /\ (at \in {"loop", "polling"} => calls[d].at = "loop")
        PROVE  ExaminedBy(calls[c])'
    <3> DEFINE later == [calls[d] EXCEPT !.offset = Scan(d).next, !.at = at]
    <3>1. calls[d] \in Call
      BY <1>3
    <3>2. Becomes(d, later) /\ Scan(d).kind = "none" /\ (at \in {"loop", "polling"} => calls[d].at = "loop")
      <4>1. CASE ReadsOn(d, Scan(d)) /\ at = calls[d].at
        <5>1. [calls[d] EXCEPT !.offset = Scan(d).next] = later
          BY <3>1, <4>1 DEF Call
        <5> QED BY <2>5, <4>1, <5>1 DEF ReadsOn
      <4>2. CASE Sleeps(d, Scan(d), at) /\ (at \in {"loop", "polling"} => calls[d].at = "loop")
        BY <4>2 DEF Sleeps, CaughtUp
      <4> QED BY <2>5, <4>1, <4>2
    <3>3. CASE c # d
      <4>1. calls'[c] = calls[c]
        BY <3>2, <3>3 DEF Becomes
      <4> QED BY <1>2, <1>5, <4>1 DEF Reading
    <3>4. CASE c = d
      <4>1. calls'[c] = later
        BY <1>3, <3>2, <3>4 DEF Becomes
      <4>2. /\ later.at = at /\ later.offset = Scan(d).next /\ later.from = calls[c].from
            /\ later.after = calls[c].after /\ later.match = calls[c].match
        BY <3>1, <3>4 DEF Call
      <4> HIDE DEF later
      <4>3. Reading(c) /\ ExaminedBy(calls[c])
        BY <1>2, <1>4, <3>2, <3>4, <4>1, <4>2 DEF Reading
      <4>4. later \in Call /\ Scan(d).kind = "none"
        BY <1>3, <3>2, <4>1
      <4>5. ExaminedBy(later)
        BY <1>1, <1>3, <3>4, <4>2, <4>3, <4>4, ExaminedOn DEF Scan
      <4>6. \E call \in Call : ExaminedBy(call) /\ call = calls'[c]
        BY <4>1, <4>4, <4>5
      <4> QED BY <1>1, <1>3, <4>6, ExaminedKept
    <3> QED BY <3>3, <3>4
  <2>6. CASE WaitPolls(d)
    <3>1. calls[d].at = "loop"
      BY <2>6 DEF WaitPolls, May
    <3>2. CASE \E outcome, end : Becomes(d, Ended(d, outcome, end))
      BY <1>8, <3>2
    <3>3. CASE ReadsOn(d, Scan(d)) \/ Sleeps(d, Scan(d), "loop") \/ Sleeps(d, Scan(d), "polling")
      BY <2>5, <3>1, <3>3
    <3> QED BY <2>6, <3>2, <3>3 DEF WaitPolls, EndWith
  <2>7. CASE WaitLearns(d)
    <3> DEFINE on == [calls[d] EXCEPT !.at = "loop"]
    <3>1. CASE \E outcome, end : Becomes(d, Ended(d, outcome, end))
      BY <1>8, <3>1
    <3>2. CASE Becomes(d, on)
      <4>1. calls[d].at = "polling"
        BY <2>7 DEF WaitLearns, May
      <4>2. /\ on.from = calls[d].from /\ on.offset = calls[d].offset
            /\ on.after = calls[d].after /\ on.match = calls[d].match
        BY <1>3 DEF Call
      <4>3. calls'[c] = IF c = d THEN on ELSE calls[c]
        BY <1>3, <3>2 DEF Becomes
      <4> HIDE DEF on
      <4> QED BY <1>2, <1>5, <4>1, <4>2, <4>3 DEF Reading
    <3> HIDE DEF on
    <3> QED BY <2>7, <3>1, <3>2 DEF WaitLearns, EndWith, Fails, on
  <2>8. CASE SendBegins(d)
    <3>1. CASE Fails(d)
      BY <1>8, <3>1 DEF Fails
    <3>2. CASE surface = "running"
      <4> DEFINE begun(atPrompt, alone, ready) ==
            [NewCall EXCEPT !.at = "sending", !.atPrompt = atPrompt, !.offset = Size,
                            !.after = Size, !.alone = alone, !.ready = ready]
          alone == typed = <<>> /\ \A e \in Calls : calls[e].at # "sending"
          ready == shell = "prompt"
          stay(call) == [call EXCEPT !.alone = FALSE]
      <4>1. calls' = [e \in Calls |-> IF e = d THEN begun(AtPrompt, alone, ready) ELSE stay(calls[e])]
        BY <2>8, <3>2, Zenon DEF SendBegins
      <4>2. begun(AtPrompt, alone, ready).at = "sending"
        BY DEF NewCall
      <4>3. /\ stay(calls[c]).at = calls[c].at /\ stay(calls[c]).from = calls[c].from
            /\ stay(calls[c]).offset = calls[c].offset /\ stay(calls[c]).after = calls[c].after
            /\ stay(calls[c]).match = calls[c].match
        BY <1>3 DEF Call
      <4> HIDE DEF begun, alone, ready, stay
      <4>4. calls'[c] = IF c = d THEN begun(AtPrompt, alone, ready) ELSE stay(calls[c])
        BY <4>1
      <4> QED BY <1>2, <1>5, <4>2, <4>3, <4>4 DEF Reading
    <3> QED BY <2>8, <3>1, <3>2, Zenon DEF SendBegins
  <2>9. CASE SendTypes(d)
    <3>1. CASE \E outcome, end : Becomes(d, Ended(d, outcome, end))
      BY <1>8, <3>1
    <3>2. CASE Becomes(d, [calls[d] EXCEPT !.at = "following"])
      <4>1. [calls[d] EXCEPT !.at = "following"].at = "following"
        BY <1>3 DEF Call
      <4> QED BY <1>7, <3>2, <4>1
    <3> QED BY <2>9, <3>1, <3>2 DEF SendTypes, Fails
  <2>10. CASE SendFollows(d)
    <3>1. calls[d].at = "following"
      BY <2>10 DEF SendFollows, May
    <3>2. CASE \E outcome, end : Becomes(d, Ended(d, outcome, end))
      BY <1>8, <3>2
    <3>3. CASE ReadsOn(d, Scan(d)) \/ Sleeps(d, Scan(d), "following")
      BY <2>5, <3>1, <3>3
    <3> QED BY <2>10, <3>2, <3>3 DEF SendFollows, EndWith, EndSend
  <2>11. CASE Expires(d)
    <3>1. \E outcome, end : Becomes(d, Ended(d, outcome, end))
      BY <2>11 DEF Expires, WaitTimesOut, SendGivesUp, EndWith, EndSend
    <3> QED BY <1>8, <3>1
  <2> QED BY <1>10, <2>1, <2>2, <2>3, <2>4, <2>6, <2>7, <2>8, <2>9, <2>10, <2>11 DEF Step
<1> QED BY <1>9, <1>10 DEF Next

\* What a wait has examined is quiet in every state.
LEMMA ExaminedAlways == Spec => []Examined
<1>1. Init => Examined
  BY DEF Init, Examined, Reading, NewCall
<1>2. IInv /\ Examined /\ [Next]_vars => Examined'
  BY StepExamined, PanelAssumption
<1> QED BY <1>1, <1>2, Invariant, PTL DEF Spec


\* A wait that ends has examined a clear interval up to what it reports.
LEMMA AnswerFirst ==
  ASSUME IInv, PanelAssumption, Examined, Next, NEW c \in Calls,
         Tells(c, {"matched", "prompt", "timeout", "exited"}), calls[c].at \in {"loop", "polling"}
  PROVE  LET stop == IF calls'[c].end > 0 THEN calls'[c].end - 1 ELSE cursor'.cursor IN
         /\ calls[c].match => Matches(calls[c].from, Consumed(calls[c].from, stop)) = {}
         /\ CommandEnds(calls[c].from, stop, calls[c].after) = {}
<1> DEFINE call == calls[c]
           scan == scanOutput(call.offset, call.match, call.after)
           stop == IF calls'[c].end > 0 THEN calls'[c].end - 1 ELSE cursor'.cursor
<1>1. /\ call \in Call /\ TypeOK /\ call.from \in Nat /\ call.offset \in Nat
      /\ call.from <= call.offset /\ call.offset <= Size /\ Quiet(call, call.from, call.offset)
  <2>1. calls[c] \in Call /\ TypeOK
    BY DEF IInv, TypeOK
  <2>2. /\ calls[c].from <= calls[c].offset /\ calls[c].offset <= Size
        /\ Quiet(calls[c], calls[c].from, calls[c].offset)
    BY DEF Examined, Reading
  <2>3. calls[c].from \in Nat /\ calls[c].offset \in Nat
    BY <2>1 DEF Call, Offsets
  <2> QED BY <2>1, <2>2, <2>3
<1>2. \/ scan.kind # "none" /\ calls'[c].end = scan.end
      \/ /\ calls'[c].end = 0
         /\ \/ scan.kind = "none" /\ cursor'.cursor = scan.next
            \/ cursor'.cursor = call.offset
  <2>1. Tells(c, Answers)
    BY DEF Tells, Answers
  <2> QED BY <2>1, TellsCases DEF Scan
<1>3. SUFFICES stop \in Nat /\ call.from <= stop /\ Clear(call, call.from, stop)
  <2> HIDE DEF stop
  <2>1. call.match => Matches(call.from, Consumed(call.from, stop)) = {}
    BY <1>1, <1>3, MatchesAreLines DEF Clear
  <2>2. CommandEnds(call.from, stop, call.after) = {}
    BY <1>3 DEF Clear
  <2> QED BY <2>1, <2>2 DEF stop
<1>4. CASE scan.kind # "none" /\ calls'[c].end = scan.end
  <2>1. /\ scan.end \in Nat /\ call.offset < scan.end /\ Clear(call, call.offset, scan.end - 1)
    BY <1>1, <1>4, ScanStops
  <2>2. stop = scan.end - 1
    BY <1>1, <1>4, <2>1
  <2> HIDE DEF stop, scan, call
  <2>3. stop \in Nat /\ call.offset <= stop /\ call.from <= stop
    BY <1>1, <2>1, <2>2
  <2> QED BY <1>1, <2>1, <2>2, <2>3, ClearJoins
<1>5. CASE calls'[c].end = 0 /\ scan.kind = "none" /\ cursor'.cursor = scan.next
  <2>1. /\ scan.next \in Nat /\ call.offset <= scan.next /\ Quiet(call, call.offset, scan.next)
    BY <1>1, <1>5, ScanQuiet
  <2>2. stop = scan.next
    BY <1>5
  <2> HIDE DEF stop, scan, call
  <2>3. stop \in Nat /\ call.offset <= stop /\ call.from <= stop
    BY <1>1, <2>1, <2>2
  <2> QED BY <1>1, <2>1, <2>2, <2>3, QuietJoins DEF Quiet
<1>6. CASE calls'[c].end = 0 /\ cursor'.cursor = call.offset
  BY <1>1, <1>6 DEF Quiet
<1> QED BY <1>2, <1>4, <1>5, <1>6

\* A wait that reads the log ends at the first thing it waits for: between the offset where it
\* began and what it reports, or what it has examined when it gives up, no complete line matches
\* and no command ends, wherever the reads have cut the output (scanOutput of panel-output.ts:235
\* and the loop of wait.ts:157).  One that answers without a read (wait.ts:150-151) leaves the
\* cursor, so that the lines before its prompt stay for the next wait.
THEOREM AnswerIsFirstHolds == Spec => AnswerIsFirst
<1>1. ASSUME IInv, Next, NEW c \in Calls, Tells(c, {"matched", "prompt", "timeout", "exited"}),
             calls[c].at = "asking"
      PROVE  cursor'.cursor \in {0, cursor.cursor}
  <2>1. Tells(c, Answers)
    BY <1>1 DEF Tells, Answers
  <2> QED BY <1>1, <2>1, TellsCases, PanelAssumption
<1>2. IInv /\ Examined /\ [Next]_vars =>
        [\A c \in Calls :
           Tells(c, {"matched", "prompt", "timeout", "exited"}) =>
             /\ calls[c].at \in {"loop", "polling"} =>
                  LET stop == IF calls'[c].end > 0 THEN calls'[c].end - 1 ELSE cursor'.cursor IN
                  /\ calls[c].match => Matches(calls[c].from, Consumed(calls[c].from, stop)) = {}
                  /\ CommandEnds(calls[c].from, stop, calls[c].after) = {}
             /\ calls[c].at = "asking" => cursor'.cursor \in {0, cursor.cursor}]_vars
  BY <1>1, AnswerFirst, PanelAssumption
<1> QED BY <1>2, Invariant, ExaminedAlways, PTL DEF Spec, AnswerIsFirst

-----------------------------------------------------------------------------
(* That a loop which goes on at once gets ahead *)

\* A read that leaves output ends after the last newline in what it examined, or takes it whole
\* when there is none but text.
LEMMA ReadAdvances ==
  ASSUME TypeOK, PanelAssumption, NEW c \in Calls, Scan(c).kind = "none", Scan(c).more,
         In({"nl", "hit", "other"}, calls[c].offset, calls[c].offset + ReadLimit) # {}
  PROVE  Scan(c).next > calls[c].offset
<1> DEFINE o == calls[c].offset
           to == Min({Size, o + ReadLimit})
           n == Consumed(o, to)
<1>1. o \in Nat /\ Size \in Nat /\ ReadLimit \in Nat /\ to \in Nat
  <2>1. calls[c] \in Call
    BY DEF TypeOK
  <2>2. o \in Nat /\ Size \in Nat /\ ReadLimit \in Nat
    BY <2>1 DEF TypeOK, Call, Offsets, Size, PanelAssumption
  <2>3. {Size, o + ReadLimit} \subseteq Nat
    BY <2>2
  <2>4. to \in {Size, o + ReadLimit}
    BY <2>3, MinOf
  <2> QED BY <2>2, <2>3, <2>4
<1>2. to = o + ReadLimit /\ to < Size
  <2>1. {Size, o + ReadLimit} \subseteq Nat
    BY <1>1
  <2>2. to \in {Size, o + ReadLimit}
    BY <2>1, MinOf
  <2>3. to < Size
    BY DEF Scan, scanOutput
  <2> QED BY <1>1, <2>2, <2>3
<1>3. Scan(c).next = ChunkNext(o, to)
  BY DEF Scan, scanOutput
<1> HIDE DEF to
<1>4. PICK i \in o + 1 .. to : log[i] \in {"nl", "hit", "other"}
  BY <1>1, <1>2 DEF In
<1>5. /\ n \in Nat /\ o <= n /\ n \in {o} \cup In({"nl"}, o, to)
      /\ \A m \in In({"nl"}, o, to) : m <= n
  BY <1>1, ConsumedIs
<1> HIDE DEF n
<1>6. CASE n = o
  <2>1. i \in Nat /\ o < i
    BY <1>1, <1>2
  <2>2. log[i] # "nl"
    BY <1>4, <1>5, <1>6, <2>1 DEF In
  <2>3. Partial(o, to)
    BY <1>4, <1>6, <2>2 DEF Partial, In, n
  <2>4. ChunkNext(o, to) = to
    BY <1>2, <1>6, <2>3 DEF ChunkNext, n
  <2> QED BY <1>1, <1>2, <1>3, <2>4
<1>7. CASE n # o
  <2>1. ChunkNext(o, to) = n
    BY <1>7 DEF ChunkNext, n
  <2> QED BY <1>1, <1>3, <1>5, <1>7, <2>1
<1> QED BY <1>6, <1>7

\* A read that leaves output to be read at once gets ahead when it examined a newline or text:
\* the loop of a wait or a panel-send then catches up with the log (scanOutput of
\* panel-output.ts:235 and its callers at wait.ts:157, panels.ts:72).
THEOREM ReadsAdvanceHolds == Spec => []ReadsAdvance
<1>1. IInv => ReadsAdvance
  BY ReadAdvances, PanelAssumption DEF ReadsAdvance, IInv
<1> QED BY <1>1, Invariant, PTL

-----------------------------------------------------------------------------
(***************************************************************************)
(* Whose command end it is.  A panel-send has examined no command end      *)
(* after its input until it answers with one.  When its line is the only   *)
(* one and finds a program at its prompt, the line is first typed and then *)
(* read by that program, and only what has read it can write a mark.       *)
(***************************************************************************)

EndMarks(c) == In({"A", "D"}, calls[c].after, Size)

\* How far the line of a call is: to be typed, typed, or read after no command end.
Course(c) ==
  \/ calls[c].at = "sending" /\ typed = <<>> /\ shell = "prompt" /\ EndMarks(c) = {}
  \/ calls[c].at = "following" /\ typed = <<c>> /\ shell = "prompt" /\ EndMarks(c) = {}
  \/ /\ calls[c].at = "following" /\ typed = <<>>
     /\ read[c] \in Nat /\ read[c] <= Size /\ In({"A", "D"}, calls[c].after, read[c]) = {}

Sends(c) == calls[c].at \in {"sending", "following"}
Alone(c) == Sends(c) /\ calls[c].alone /\ calls[c].ready

\* A panel-send has examined no command end after its input.
Unread(c) ==
  /\ calls[c].after <= calls[c].offset /\ calls[c].offset <= Size
  /\ In({"A", "D"}, calls[c].after, calls[c].offset) = {}

\* No other line is on its way, and this one takes its course.
Lone(c) == (\A e \in Calls \ {c} : calls[e].at # "sending") /\ Course(c)

Own == \A c \in Calls : Sends(c) => Unread(c) /\ (Alone(c) => Lone(c))

\* No command end is written.
LEMMA NoEndWritten ==
  ASSUME TypeOK, PanelAssumption, NEW atoms \in Seq(Atoms), Write(atoms), NEW from \in Nat,
         \A j \in 1..Len(atoms) : atoms[j] \notin {"A", "D"}
  PROVE  In({"A", "D"}, from, Size)' = In({"A", "D"}, from, Size)
<1>1. log \in Seq(Atoms) /\ log' = log \o atoms /\ Len(log') = Len(log) + Len(atoms)
  BY DEF TypeOK, Write
<1>2. \A i \in 1..Len(log) : log'[i] = log[i]
  BY <1>1
<1>3. \A i \in Len(log) + 1 .. Len(log') : log'[i] \notin {"A", "D"}
  <2> SUFFICES ASSUME NEW i \in Len(log) + 1 .. Len(log') PROVE log'[i] \notin {"A", "D"}
    OBVIOUS
  <2>1. i - Len(log) \in 1..Len(atoms)
    BY <1>1
  <2>2. log'[i] = atoms[i - Len(log)]
    BY <1>1, <2>1
  <2> QED BY <2>1, <2>2
<1>4. Len(log) \in Nat /\ Len(atoms) \in Nat
  BY <1>1
<1> HIDE DEF Write
<1>5. \A i \in Nat : i > 0 /\ i <= Len(log') /\ log'[i] \in {"A", "D"} => i <= Len(log)
  BY <1>1, <1>3, <1>4
<1> QED BY <1>1, <1>2, <1>4, <1>5 DEF In, Size

\* The panel's steps keep the course of the line.
LEMMA PanelCourse ==
  ASSUME TypeOK, PanelAssumption, Grown, Panel, NEW c \in Calls, Course(c)
  PROVE  Course(c)'
<1>1. UNCHANGED calls /\ calls[c].after \in Nat /\ Size \in Nat
  <2>1. calls[c] \in Call /\ Size \in Nat
    BY DEF TypeOK, Size
  <2>2. calls[c].after \in Nat
    BY <2>1 DEF Call, Offsets
  <2> QED BY <2>1, <2>2 DEF Panel, ShowPrompt, StartCommand, ProgramWrites, CommandReads,
     PanelExits, PanelVanishes, toolsUnchanged
<1>2. ASSUME UNCHANGED log PROVE EndMarks(c)' = EndMarks(c)
  BY <1>1, <1>2 DEF EndMarks, In, Size
<1>3. ASSUME NEW atoms \in Seq(Atoms), Write(atoms),
             \A j \in 1..Len(atoms) : atoms[j] \notin {"A", "D"}
      PROVE  EndMarks(c)' = EndMarks(c)
  BY <1>1, <1>3, NoEndWritten DEF EndMarks
<1>4. CASE typed = <<>> /\ read[c] \in Nat /\ calls[c].at = "following" /\ read[c] <= Size
           /\ In({"A", "D"}, calls[c].after, read[c]) = {}
  <2>1. UNCHANGED <<read, typed>>
    BY <1>4 DEF Panel, ShowPrompt, StartCommand, ProgramWrites, CommandReads, PanelExits,
       PanelVanishes
  <2> DEFINE after == calls[c].after
             at == read[c]
  <2>2. after \in Nat /\ after' = after /\ at \in Nat /\ at' = at /\ at <= Size
        /\ In({"A", "D"}, after, at) = {}
    BY <1>1, <1>4, <2>1
  <2> HIDE DEF after, at
  <2>3. In({"A", "D"}, after, at)' = {}
    BY <2>2, InStays
  <2>4. at <= Size'
    BY <1>1, <2>2 DEF Grown
  <2> QED BY <1>1, <1>4, <2>1, <2>2, <2>3, <2>4 DEF Course, after, at
<1>5. CASE ~(typed = <<>> /\ read[c] \in Nat /\ calls[c].at = "following" /\ read[c] <= Size
             /\ In({"A", "D"}, calls[c].after, read[c]) = {})
  <2>1. /\ shell = "prompt" /\ EndMarks(c) = {}
        /\ \/ calls[c].at = "sending" /\ typed = <<>>
           \/ calls[c].at = "following" /\ typed = <<c>>
    BY <1>5 DEF Course
  <2>2. ASSUME EndMarks(c)' = {}, UNCHANGED <<shell, typed>> PROVE Course(c)'
    BY <1>1, <2>1, <2>2 DEF Course
  <2>3. ~ShowPrompt /\ ~CommandReads
    BY <2>1 DEF ShowPrompt, CommandReads
  <2>4. CASE StartCommand
    <3>1. calls[c].at = "following" /\ typed = <<c>>
      BY <2>1, <2>4 DEF StartCommand
    <3>2. typed' = <<>> /\ read'[c] = Size
      BY <1>1, <2>4, <3>1 DEF StartCommand, TypeOK
    <3>3. Size <= Size' /\ Size' \in Nat
      BY DEF Grown
    <3> DEFINE after == calls[c].after
               size == Size
    <3>4. after \in Nat /\ after' = after /\ size \in Nat /\ size <= Size /\ In({"A", "D"}, after, size) = {}
      BY <1>1, <2>1 DEF EndMarks
    <3>5. read'[c] = size
      BY <3>2
    <3> HIDE DEF after, size
    <3>6. \A n : n = size => In({"A", "D"}, after, n)' = {}
      <4> SUFFICES \A i \in after + 1 .. size : log'[i] \notin {"A", "D"}
        BY <3>4 DEF In
      <4>1. \A i \in after + 1 .. size : i \in 1..Size /\ log[i] \notin {"A", "D"}
        BY <1>1, <3>4 DEF In
      <4> QED BY <4>1 DEF Grown
    <3>7. In({"A", "D"}, calls[c].after, read[c])' = {}
      BY <3>4, <3>5, <3>6 DEF after, In
    <3> QED BY <1>1, <3>1, <3>2, <3>3, <3>7 DEF Course
  <2>5. CASE ProgramWrites
    <3>1. PICK atom \in Background : Write(<<atom>>)
      BY <2>1, <2>5 DEF ProgramWrites
    <3>2. <<atom>> \in Seq(Atoms) /\ \A j \in 1..Len(<<atom>>) : <<atom>>[j] \notin {"A", "D"}
      <4>1. atom \in Atoms /\ atom \notin {"A", "D"}
        BY DEF PanelAssumption, Atoms
      <4> QED BY <4>1
    <3>3. EndMarks(c)' = {}
      BY <1>3, <2>1, <3>1, <3>2
    <3> QED BY <2>2, <2>5, <3>3 DEF ProgramWrites
  <2>6. CASE PanelExits
    <3>1. <<"nl", "exit", "nl">> \in Seq(Atoms)
      BY DEF Atoms
    <3>2. \A j \in 1..Len(<<"nl", "exit", "nl">>) : <<"nl", "exit", "nl">>[j] \notin {"A", "D"}
      OBVIOUS
    <3>3. EndMarks(c)' = {}
      BY <1>2, <1>3, <2>1, <2>6, <3>1, <3>2 DEF PanelExits
    <3> QED BY <2>2, <2>6, <3>3 DEF PanelExits
  <2>7. CASE PanelVanishes
    BY <1>2, <2>1, <2>2, <2>7 DEF PanelVanishes
  <2> QED BY <2>3, <2>4, <2>5, <2>6, <2>7 DEF Panel
<1> QED BY <1>4, <1>5

\* A panel-send that only stays where it is keeps its course while another call does anything
\* but send.
LEMMA OwnKept ==
  ASSUME TypeOK, Own, NEW c \in Calls, Sends(c), UNCHANGED <<log, shell, typed, read>>,
         calls'[c].at = calls[c].at, calls'[c].after = calls[c].after,
         calls'[c].offset = calls[c].offset,
         Alone(c)' => Alone(c) /\ \A e \in Calls \ {c} : calls'[e].at # "sending"
  PROVE  Unread(c)' /\ (Alone(c)' => Lone(c)')
<1>1. Unread(c) /\ (Alone(c) => Lone(c))
  BY DEF Own
<1>2. UNCHANGED Size
  BY DEF Size
<1>3. EndMarks(c)' = EndMarks(c)
  BY <1>2 DEF EndMarks, In
<1>4. Unread(c)'
  BY <1>1, <1>2 DEF Unread, In
<1>5. ASSUME Alone(c)' PROVE Lone(c)'
  <2>1. Course(c)
    BY <1>1, <1>5 DEF Lone
  <2>2. In({"A", "D"}, calls[c].after, read[c])' = In({"A", "D"}, calls[c].after, read[c])
    BY DEF In
  <2>3. Course(c)'
    BY <1>2, <1>3, <2>1, <2>2 DEF Course
  <2> QED BY <1>5, <2>3 DEF Lone
<1> QED BY <1>4, <1>5

\* A read that finds nothing has examined no command end.
LEMMA OwnReads ==
  ASSUME TypeOK, PanelAssumption, Own, NEW c \in Calls, Sends(c), Scan(c).kind = "none"
  PROVE  /\ Scan(c).next \in Nat /\ calls[c].after <= Scan(c).next /\ Scan(c).next <= Size
         /\ In({"A", "D"}, calls[c].after, Scan(c).next) = {}
<1> DEFINE call == calls[c]
           next == scanOutput(call.offset, call.match, call.after).next
<1>1. /\ call \in Call /\ call.after <= call.offset /\ call.offset <= Size
      /\ In({"A", "D"}, call.after, call.offset) = {}
  BY DEF TypeOK, Own, Unread
<1>2. call.after \in Nat /\ call.offset \in Nat
  BY <1>1 DEF Call, Offsets
<1>3. /\ call.offset <= next /\ next <= Size /\ next \in Nat
      /\ CommandEnds(call.offset, next, call.after) = {}
  BY <1>1, ScanQuiet DEF Scan, Quiet, Clear
<1> HIDE DEF call, next
<1>4. In({"A", "D"}, call.after, next) = {}
  BY <1>1, <1>2, <1>3 DEF In, CommandEnds
<1>5. Size \in Nat
  BY DEF TypeOK, Size
<1> QED BY <1>1, <1>2, <1>3, <1>4, <1>5 DEF Scan, call, next

LEMMA StepOwn ==
  ASSUME IInv, PanelAssumption, Own, [Next]_vars
  PROVE  Own'
<1>1. TypeOK /\ TypeOK' /\ Grown /\ calls \in [Calls -> Call] /\ Size \in Nat
  BY StepHolds, LogGrows DEF IInv, TypeOK, Size
<1>2. SUFFICES ASSUME NEW c \in Calls, Sends(c)'
               PROVE  Unread(c)' /\ (Alone(c)' => Lone(c)')
  BY DEF Own
<1> DEFINE Goal == Unread(c)' /\ (Alone(c)' => Lone(c)')
<1> SUFFICES Goal
  OBVIOUS
<1>3. calls[c] \in Call /\ calls'[c] \in Call
  BY <1>1 DEF TypeOK
<1>4. Sends(c) => Unread(c) /\ (Alone(c) => Lone(c))
  BY DEF Own
<1>5. ASSUME UNCHANGED <<log, shell, typed, read>>,
             calls'[c].at = calls[c].at, calls'[c].after = calls[c].after,
             calls'[c].offset = calls[c].offset, calls'[c].ready = calls[c].ready,
             calls'[c].alone =>
               /\ calls[c].alone
               /\ \A e \in Calls \ {c} : calls'[e].at \in {calls[e].at} \cup {"idle", "done", "asking",
                                           "checking", "loop", "polling", "following"}
      PROVE  Goal
  <2>1. Sends(c)
    BY <1>2, <1>5 DEF Sends
  <2>2. ASSUME Alone(c)' PROVE Alone(c) /\ \A e \in Calls \ {c} : calls'[e].at # "sending"
    <3>1. Alone(c) /\ Lone(c)
      BY <1>4, <1>5, <2>1, <2>2 DEF Alone
    <3> QED BY <1>5, <2>2, <3>1 DEF Alone, Lone
  <2> QED BY <1>1, <1>5, <2>1, <2>2, OwnKept
<1>6. ASSUME NEW d \in Calls, NEW call, Becomes(d, call),
             UNCHANGED <<log, shell, typed, read>>,
             call.at \in {"idle", "done", "asking", "checking", "loop", "polling"}
      PROVE  Goal
  <2>1. d # c
    BY <1>1, <1>2, <1>6 DEF Becomes, Sends
  <2>2. \A e \in Calls : calls'[e] = IF e = d THEN call ELSE calls[e]
    BY <1>1, <1>6 DEF Becomes
  <2> QED BY <1>5, <1>6, <2>1, <2>2
<1>7. ASSUME NEW d \in Calls, NEW outcome, NEW end, Becomes(d, Ended(d, outcome, end)),
             UNCHANGED panelVars
      PROVE  Goal
  <2>1. Ended(d, outcome, end).at = "done"
    BY DEF Ended, NewCall
  <2> QED BY <1>6, <1>7, <2>1 DEF panelVars
<1>8. CASE UNCHANGED vars
  BY <1>5, <1>8 DEF vars, panelVars
<1>9. CASE Panel
  <2>1. UNCHANGED calls
    BY <1>9 DEF Panel, ShowPrompt, StartCommand, ProgramWrites, CommandReads, PanelExits,
       PanelVanishes, toolsUnchanged
  <2>2. Sends(c) /\ calls[c].after \in Nat /\ calls[c].offset \in Nat
    BY <1>2, <1>3, <2>1 DEF Sends, Call, Offsets
  <2>3. Unread(c)'
    <3> DEFINE after == calls[c].after
               offset == calls[c].offset
    <3>1. after \in Nat /\ offset \in Nat /\ offset <= Size /\ after' = after /\ offset' = offset
          /\ after <= offset /\ In({"A", "D"}, after, offset) = {}
      BY <1>4, <2>1, <2>2 DEF Unread
    <3> HIDE DEF after, offset
    <3>2. In({"A", "D"}, after, offset)' = {}
      BY <1>1, <3>1, InStays
    <3>3. offset <= Size'
      BY <1>1, <3>1 DEF Grown
    <3> QED BY <3>1, <3>2, <3>3 DEF Unread, after, offset
  <2>4. Alone(c)' => Lone(c)'
    <3> SUFFICES ASSUME Alone(c)' PROVE Lone(c)'
      OBVIOUS
    <3>1. Lone(c)
      BY <1>4, <2>1, <2>2 DEF Alone, Sends
    <3>2. Course(c)'
      BY <1>1, <1>9, <3>1, PanelCourse DEF Lone
    <3> QED BY <2>1, <3>1, <3>2 DEF Lone
  <2> QED BY <2>3, <2>4
<1>10. ASSUME NEW d \in Calls,
              WaitCall(d) \/ SendCall(d) \/ Abort(d) \/ Step(d) \/ Expires(d)
       PROVE  Goal
  <2> HIDE DEF Goal
  <2>1. CASE WaitCall(d)
    <3>1. PICK match \in BOOLEAN : Becomes(d, [NewCall EXCEPT !.at = "asking", !.match = match])
      BY <2>1, Zenon DEF WaitCall
    <3>2. [NewCall EXCEPT !.at = "asking", !.match = match].at = "asking"
      BY DEF NewCall
    <3>3. UNCHANGED panelVars
      BY <2>1, Zenon DEF WaitCall
    <3> QED BY <1>6, <3>1, <3>2, <3>3 DEF panelVars
  <2>2. CASE SendCall(d)
    <3>1. [NewCall EXCEPT !.at = "checking"].at = "checking"
      BY DEF NewCall
    <3> QED BY <1>6, <2>2, <3>1 DEF SendCall, panelVars
  <2>3. CASE Abort(d)
    BY <1>7, <2>3 DEF Abort
  <2>4. CASE WaitBegins(d)
    <3> DEFINE offset == IF cursor.cursor <= Size THEN cursor.cursor ELSE 0
               begun == [calls[d] EXCEPT !.at = "loop", !.from = offset, !.offset = offset,
                                         !.after = Size, !.input = sent]
    <3>1. CASE Becomes(d, begun) /\ UNCHANGED panelVars
      <4>1. begun.at = "loop"
        BY <1>1 DEF Call
      <4> HIDE DEF begun
      <4> QED BY <1>6, <3>1, <4>1 DEF panelVars
    <3>2. CASE UNCHANGED panelVars /\ \E outcome, end : Becomes(d, Ended(d, outcome, end))
      BY <1>7, <3>2
    <3> HIDE DEF begun
    <3> QED BY <2>4, <3>1, <3>2 DEF WaitBegins, EndWith, Fails, begun
  <2>5. ASSUME NEW at \in {"loop", "polling", "following"}, UNCHANGED panelVars,
               Scan(d).kind = "none",
               Becomes(d, [calls[d] EXCEPT !.offset = Scan(d).next, !.at = at]),
               at = "following" => calls[d].at = "following"
        PROVE  Goal
    <3> DEFINE call == [calls[d] EXCEPT !.offset = Scan(d).next, !.at = at]
    <3>1. /\ call.at = at /\ call.offset = Scan(d).next /\ call.after = calls[d].after
          /\ call.alone = calls[d].alone /\ call.ready = calls[d].ready
      BY <1>1 DEF Call
    <3>2. Becomes(d, call)
      BY <2>5
    <3> HIDE DEF call
    <3>3. \A e \in Calls : calls'[e] = IF e = d THEN call ELSE calls[e]
      BY <1>1, <3>2 DEF Becomes
    <3>4. CASE c # d
      BY <1>5, <2>5, <3>1, <3>3, <3>4 DEF panelVars
    <3>5. CASE c = d
      <4>1. /\ at = "following" /\ calls[c].at = "following" /\ calls'[c].at = "following"
            /\ calls'[c].offset = Scan(c).next /\ calls'[c].after = calls[c].after
            /\ calls'[c].alone = calls[c].alone /\ calls'[c].ready = calls[c].ready /\ Sends(c)
        BY <1>2, <2>5, <3>1, <3>3, <3>5 DEF Sends
      <4>2. /\ calls[c].after <= Scan(c).next /\ Scan(c).next <= Size
            /\ In({"A", "D"}, calls[c].after, Scan(c).next) = {}
        BY <1>1, <2>5, <3>5, <4>1, OwnReads
      <4>3. UNCHANGED <<log, Size, EndMarks(c), shell, typed, read>>
        BY <2>5, <4>1 DEF Size, EndMarks, In, panelVars
      <4>4. Unread(c)'
        BY <4>1, <4>2, <4>3 DEF Unread, In
      <4>5. ASSUME Alone(c)' PROVE Lone(c)'
        <5>1. Lone(c)
          BY <1>4, <4>1, <4>5 DEF Alone, Sends
        <5>2. In({"A", "D"}, calls[c].after, read[c])' = In({"A", "D"}, calls[c].after, read[c])
          BY <4>1, <4>3 DEF In
        <5>3. Course(c)'
          BY <4>1, <4>3, <5>1, <5>2 DEF Course, Lone
        <5>4. \A e \in Calls \ {c} : calls'[e].at # "sending"
          BY <3>3, <3>5, <5>1 DEF Lone
        <5> QED BY <5>3, <5>4 DEF Lone
      <4> QED BY <4>4, <4>5 DEF Goal
    <3> QED BY <3>4, <3>5
  <2>6. ASSUME ReadsOn(d, Scan(d)), calls[d].at \in {"loop", "following"}
        PROVE  Goal
    <3>1. [calls[d] EXCEPT !.offset = Scan(d).next]
            = [calls[d] EXCEPT !.offset = Scan(d).next, !.at = calls[d].at]
      BY <1>1 DEF Call
    <3> QED BY <2>5, <2>6, <3>1 DEF ReadsOn
  <2>7. ASSUME NEW at \in {"loop", "polling", "following"}, Sleeps(d, Scan(d), at),
               at = "following" => calls[d].at = "following"
        PROVE  Goal
    BY <2>5, <2>7 DEF Sleeps, CaughtUp
  <2>8. CASE WaitPolls(d)
    <3>1. calls[d].at = "loop"
      BY <2>8 DEF WaitPolls, May
    <3>2. CASE UNCHANGED panelVars /\ \E outcome, end : Becomes(d, Ended(d, outcome, end))
      BY <1>7, <3>2
    <3>3. CASE ReadsOn(d, Scan(d))
      BY <2>6, <3>1, <3>3
    <3>4. CASE Sleeps(d, Scan(d), "loop") \/ Sleeps(d, Scan(d), "polling")
      BY <2>7, <3>4
    <3> QED BY <2>8, <3>2, <3>3, <3>4 DEF WaitPolls, EndWith
  <2>9. CASE WaitLearns(d)
    <3> DEFINE on == [calls[d] EXCEPT !.at = "loop"]
    <3>1. CASE UNCHANGED panelVars /\ \E outcome, end : Becomes(d, Ended(d, outcome, end))
      BY <1>7, <3>1
    <3>2. CASE Becomes(d, on) /\ UNCHANGED panelVars
      <4>1. on.at = "loop"
        BY <1>1 DEF Call
      <4> HIDE DEF on
      <4> QED BY <1>6, <3>2, <4>1 DEF panelVars
    <3> HIDE DEF on
    <3> QED BY <2>9, <3>1, <3>2 DEF WaitLearns, EndWith, Fails, on
  <2>10. CASE SendBegins(d)
    <3>1. CASE Fails(d)
      BY <1>7, <3>1 DEF Fails
    <3>2. CASE surface = "running"
      <4> DEFINE begun(atPrompt, alone, ready) ==
            [NewCall EXCEPT !.at = "sending", !.atPrompt = atPrompt, !.offset = Size,
                            !.after = Size, !.alone = alone, !.ready = ready]
          alone == typed = <<>> /\ \A e \in Calls : calls[e].at # "sending"
          ready == shell = "prompt"
          stay(call) == [call EXCEPT !.alone = FALSE]
      <4>1. /\ calls' = [e \in Calls |-> IF e = d THEN begun(AtPrompt, alone, ready) ELSE stay(calls[e])]
            /\ UNCHANGED panelVars
        BY <2>10, <3>2, Zenon DEF SendBegins
      <4>2. LET call == begun(AtPrompt, alone, ready) IN
            /\ call.at = "sending" /\ call.offset = Size /\ call.after = Size
            /\ call.alone = alone /\ call.ready = ready
        BY DEF NewCall
      <4>3. \A e \in Calls : /\ stay(calls[e]).alone = FALSE /\ stay(calls[e]).at = calls[e].at
                             /\ stay(calls[e]).after = calls[e].after
                             /\ stay(calls[e]).offset = calls[e].offset
                             /\ stay(calls[e]).ready = calls[e].ready
        BY <1>1 DEF Call
      <4> HIDE DEF begun, stay
      <4>4. \A e \in Calls : calls'[e] = IF e = d THEN begun(AtPrompt, alone, ready) ELSE stay(calls[e])
        BY <4>1
      <4>5. UNCHANGED <<log, shell, typed, read, Size>>
        BY <4>1 DEF panelVars, Size
      <4>6. CASE c # d
        BY <1>5, <4>3, <4>4, <4>5, <4>6
      <4>7. CASE c = d
        <5>1. /\ calls'[c].at = "sending" /\ calls'[c].offset = Size /\ calls'[c].after = Size
              /\ calls'[c].alone = alone /\ calls'[c].ready = ready
          BY <4>2, <4>4, <4>7
        <5>2. In({"A", "D"}, calls[c].after, calls[c].offset)' = {} /\ EndMarks(c)' = {}
          BY <1>1, <4>5, <5>1 DEF EndMarks, In
        <5>3. Unread(c)'
          BY <1>1, <4>5, <5>1, <5>2 DEF Unread
        <5>4. ASSUME Alone(c)' PROVE Lone(c)'
          <6>1. alone /\ ready
            BY <5>1, <5>4 DEF Alone
          <6>2. typed' = <<>> /\ shell' = "prompt"
            BY <4>5, <6>1
          <6>3. \A e \in Calls \ {c} : calls'[e].at # "sending"
            BY <4>3, <4>4, <4>7, <6>1
          <6> HIDE DEF alone, ready
          <6> QED BY <5>1, <5>2, <6>2, <6>3 DEF Lone, Course
        <5> QED BY <5>3, <5>4 DEF Goal
      <4> QED BY <4>6, <4>7
    <3> QED BY <2>10, <3>1, <3>2, Zenon DEF SendBegins
  <2>11. CASE SendTypes(d)
    <3> DEFINE followed == [calls[d] EXCEPT !.at = "following"]
    <3>1. calls[d].at = "sending" /\ Ended(d, "screen", 0).at = "done"
      BY <2>11 DEF SendTypes, May, Ended, NewCall
    <3>2. CASE Fails(d)
      BY <1>7, <3>2 DEF Fails
    <3>3. CASE /\ typed' = Append(typed, d)
               /\ Becomes(d, followed) \/ Becomes(d, Ended(d, "screen", 0))
               /\ UNCHANGED <<log, surface, shell, read>>
      <4>1. UNCHANGED <<Size, log, shell, read>>
        BY <3>3 DEF Size
      <4>2. CASE c # d
        <5>1. calls'[c] = calls[c]
          BY <1>1, <3>3, <4>2 DEF Becomes
        <5>2. Sends(c) /\ (Alone(c)' => Alone(c))
          BY <1>2, <5>1 DEF Sends, Alone
        <5>3. ~Alone(c)
          BY <1>4, <3>1, <4>2, <5>2 DEF Lone
        <5>4. Unread(c)'
          BY <1>4, <4>1, <5>1, <5>2 DEF Unread, In
        <5> QED BY <5>2, <5>3, <5>4 DEF Goal
      <4>3. CASE c = d
        <5>1. /\ followed.at = "following" /\ followed.offset = calls[c].offset
              /\ followed.after = calls[c].after /\ followed.alone = calls[c].alone
              /\ followed.ready = calls[c].ready
          BY <1>1, <4>3 DEF Call
        <5> HIDE DEF followed
        <5>2. calls'[c] = followed /\ \A e \in Calls \ {c} : calls'[e] = calls[e]
          <6>1. ~Becomes(d, Ended(d, "screen", 0))
            BY <1>1, <1>2, <3>1, <4>3 DEF Becomes, Sends
          <6> QED BY <1>1, <3>3, <4>3, <6>1 DEF Becomes
        <5>3. Sends(c)
          BY <3>1, <4>3 DEF Sends
        <5>4. EndMarks(c)' = EndMarks(c)
          BY <4>1, <5>1, <5>2 DEF EndMarks, In
        <5>5. Unread(c)'
          BY <1>4, <4>1, <5>1, <5>2, <5>3 DEF Unread, In
        <5>6. ASSUME Alone(c)' PROVE Lone(c)'
          <6>1. Lone(c)
            BY <1>4, <5>1, <5>2, <5>3, <5>6 DEF Alone
          <6>2. typed = <<>> /\ shell = "prompt" /\ EndMarks(c) = {}
            BY <3>1, <4>3, <6>1 DEF Lone, Course
          <6>3. typed' = <<c>>
            BY <3>3, <4>3, <6>2
          <6> QED BY <4>1, <5>1, <5>2, <5>4, <6>1, <6>2, <6>3 DEF Lone, Course
        <5> QED BY <5>5, <5>6 DEF Goal
      <4> QED BY <4>2, <4>3
    <3> HIDE DEF followed
    <3> QED BY <2>11, <3>2, <3>3 DEF SendTypes, followed
  <2>12. CASE SendFollows(d)
    <3>1. calls[d].at = "following"
      BY <2>12 DEF SendFollows, May
    <3>2. CASE UNCHANGED panelVars /\ \E outcome, end : Becomes(d, Ended(d, outcome, end))
      BY <1>7, <3>2
    <3>3. CASE ReadsOn(d, Scan(d)) \/ Sleeps(d, Scan(d), "following")
      BY <2>6, <2>7, <3>1, <3>3
    <3> QED BY <2>12, <3>2, <3>3 DEF SendFollows, EndWith, EndSend
  <2>13. CASE Expires(d)
    <3>1. UNCHANGED panelVars /\ \E outcome, end : Becomes(d, Ended(d, outcome, end))
      BY <2>13 DEF Expires, WaitTimesOut, SendGivesUp, EndWith, EndSend
    <3> QED BY <1>7, <3>1
  <2> QED BY <1>10, <2>1, <2>2, <2>3, <2>4, <2>8, <2>9, <2>10, <2>11, <2>12, <2>13 DEF Step
<1> QED BY <1>8, <1>9, <1>10 DEF Next

\* The command end that a panel-send answers with is the first after its input.
LEMMA FinishedOwn ==
  ASSUME IInv, PanelAssumption, Own, Next, NEW c \in Calls, Tells(c, {"finished"})
  PROVE  /\ In({"A", "D"}, calls[c].after, calls'[c].end) = {calls'[c].end}
         /\ calls[c].alone /\ calls[c].ready => AfterReading(c)
<1> DEFINE call == calls[c]
           end == Scan(c).end
<1>1. call \in Call /\ TypeOK
  BY DEF IInv, TypeOK
<1>2. calls[c].at = "following" /\ Scan(c).kind = "prompt" /\ calls'[c].end = end /\ UNCHANGED panelVars
  <2>1. Tells(c, Answers) /\ calls'[c].outcome = "finished"
    BY DEF Tells, Answers
  <2>2. Scan(c).kind # "finished"
    BY <1>1, CallScan
  <2> QED BY <2>1, <2>2, TellsCases
<1>3. /\ call.after <= call.offset /\ call.offset <= Size
      /\ In({"A", "D"}, call.after, call.offset) = {}
  BY <1>2 DEF Own, Sends, Unread
<1>4. /\ end \in Nat /\ call.offset < end
      /\ CommandEnds(call.offset, end - 1, call.after) = {}
      /\ end \in CommandEnds(call.offset, Size, call.after)
  BY <1>1, <1>2, <1>3, ScanStops DEF Scan, Clear
<1>5. call.after \in Nat /\ call.offset \in Nat /\ Size \in Nat
  BY <1>1 DEF Call, Offsets, TypeOK, Size
<1>6. Alone(c) => Course(c)
  BY <1>2 DEF Own, Alone, Lone
<1> HIDE DEF call, end
<1>7. In({"A", "D"}, call.after, end) = {end}
  BY <1>3, <1>4, <1>5 DEF CommandEnds, In
<1>8. ASSUME calls[c].alone, calls[c].ready PROVE AfterReading(c)
  <2>1. Course(c)
    BY <1>2, <1>6, <1>8 DEF Alone, Sends
  <2>2. end \in EndMarks(c)
    BY <1>3, <1>4, <1>5 DEF EndMarks, CommandEnds, In, call
  <2>3. read[c] \in Nat /\ In({"A", "D"}, call.after, read[c]) = {}
    BY <1>2, <2>1, <2>2 DEF Course, call
  <2>4. end > read[c]
    BY <1>3, <1>4, <1>5, <1>7, <2>3 DEF In
  <2>5. read[c] # NoInput
    BY <2>3 DEF NoInput
  <2> QED BY <1>2, <2>4, <2>5 DEF AfterReading
<1> QED BY <1>2, <1>7, <1>8 DEF call

\* The command end with which a panel-send answers is the first one after the input that it
\* recorded (followCommand of panels.ts:72, recordInput of panels.ts:220).  It comes after its
\* line was read, too, whatever shells the line starts or leaves, when that line was the only one
\* and found a program at its prompt.
THEOREM FinishedIsOwnHolds == Spec => FinishedIsOwn
<1>1. Init => Own
  BY DEF Init, Own, Sends, NewCall
<1>2. IInv /\ Own /\ [Next]_vars => Own'
  BY StepOwn, PanelAssumption
<1>3. IInv /\ Own /\ [Next]_vars =>
        [\A c \in Calls :
           Tells(c, {"finished"}) =>
             /\ In({"A", "D"}, calls[c].after, calls'[c].end) = {calls'[c].end}
             /\ calls[c].alone /\ calls[c].ready => AfterReading(c)]_vars
  BY FinishedOwn, PanelAssumption
<1> QED BY <1>1, <1>2, <1>3, Invariant, PTL DEF Spec, FinishedIsOwn
=============================================================================
