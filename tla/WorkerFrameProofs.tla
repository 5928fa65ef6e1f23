-------------------------- MODULE WorkerFrameProofs --------------------------
(***************************************************************************)
(* Theorems about WorkerFrame, for every set of replies, texts and tool    *)
(* calls and every number of typed messages.                               *)
(***************************************************************************)
EXTENDS WorkerFrame, TLAPS

\* The variables a handler's effect (Keep, Report, Complete, ...) fixes.
OutOK ==
  /\ process \in {"up", "closing", "exiting", "gone"}
  /\ allowed \in BOOLEAN
  /\ request \in Request
  /\ resultFile \in Result \cup {NoResult}
  /\ statusFile \in Status

\* Whatever a handler makes of the request, status.json can express it.
LEMMA StatusOfType == ASSUME NEW r \in Request PROVE StatusOf(r) \in Status
BY DEF StatusOf, Status, Request

\* The null values have the types of the files and records they stand in for.
LEMMA NullTypes ==
  /\ NoRequest \in Request /\ NoStatus \in Status /\ Closed \in Status
  /\ RivalResult \in Result /\ RivalStatus \in Status /\ NoHandback \in Handback
BY DEF NoRequest, Request, NoStatus, Closed, Status, RivalResult, RivalStatus, NoResult, Result,
       NoHandback, Handback

\* What result.json says of a request is a result.
LEMMA PayloadType ==
  ASSUME NEW r \in Request, NEW v \in Replies \cup Texts \cup {"error", None},
         NEW e \in BOOLEAN, NEW k \in {"none", "text", "unavailable"}
  PROVE  Payload(r, v, e, k) \in Result
BY DEF Payload, Result, Request

\* The effects of a handler preserve the types of the variables they fix.
LEMMA KeepOut ==
  ASSUME OutOK, NEW r \in Request, Keep(r) \/ Report(r) PROVE OutOK'
BY StatusOfType DEF OutOK, Keep, Report

\* So does the completion of a request,
LEMMA CompleteOut ==
  ASSUME OutOK, NEW r \in Request, NEW v \in Replies \cup Texts \cup {"error", None},
         NEW e \in BOOLEAN, NEW k \in {"none", "text", "unavailable"}, Complete(r, v, e, k)
  PROVE  OutOK'
BY PayloadType, NullTypes DEF OutOK, Complete, Keep

\* the start of its retrospective
LEMMA BeginOut ==
  ASSUME OutOK, NEW r \in Request, NEW v \in Replies, BeginRetrospective(r, v) PROVE OutOK'
<1> DEFINE s == [r EXCEPT !.main = v, !.phase = "retrospective", !.retryAt = FALSE]
<1>1. s \in Request
  BY DEF Request
<1>2. StatusOf(s) \in Status
  BY <1>1, StatusOfType
<1> QED
  BY <1>1, <1>2 DEF OutOK, BeginRetrospective

\* and the settling of a failure.
LEMMA SettleOut ==
  ASSUME OutOK, NEW r \in Request, SettleFailure(r) PROVE OutOK'
<1>1. CASE Keep(r)
  BY <1>1, KeepOut
<1>2. CASE Complete([r EXCEPT !.failed = FALSE], r.main, FALSE, "unavailable")
  <2>1. [r EXCEPT !.failed = FALSE] \in Request /\ r.main \in Replies \cup {None}
    BY DEF Request
  <2> QED
    BY <1>2, <2>1, CompleteOut
<1>3. CASE Report([r EXCEPT !.failed = FALSE, !.waiting = TRUE])
  <2>1. [r EXCEPT !.failed = FALSE, !.waiting = TRUE] \in Request
    BY DEF Request
  <2> QED
    BY <1>3, <2>1, KeepOut
<1> QED
  BY <1>1, <1>2, <1>3 DEF SettleFailure

-----------------------------------------------------------------------------
(* Type correctness *)

\* The variables that Pi and the two extensions keep beside the request.
RestOK ==
  /\ run \in {"idle", "running", "ended"}
  /\ prompt \in {"none", "typed", "sent"}
  /\ last \in Message \cup {NoMessage}
  /\ quota \in BOOLEAN /\ starting \in BOOLEAN
  /\ handback \in Handback
  /\ handoff \in [state : {"none", "pending", "compacting"}, call : Calls \cup {None}]
  /\ heard \in 0..MaxInputs

\* TypeOK is these two parts.
LEMMA TypeParts == (TypeOK <=> OutOK /\ RestOK) /\ (TypeOK' <=> OutOK' /\ RestOK')
BY DEF TypeOK, OutOK, RestOK

\* The fields of the latest message are texts, calls or absent.
LEMMA LastType == ASSUME RestOK PROVE last.text \in Replies \cup {None} /\ last.call \in Calls \cup {None}
BY DEF RestOK, Message, NoMessage

\* The bound on typed messages leaves room for none and for the next one.
LEMMA InputBound ==
  0 \in 0..MaxInputs /\ \A n \in 0..MaxInputs : n \in Nat /\ (n < MaxInputs => n + 1 \in 0..MaxInputs)
<1>1. MaxInputs \in Nat
  BY FrameAssumption
<1> QED
  BY <1>1

\* A worker process starts with well-formed state.
LEMMA InitType == Init => TypeOK
<1>1. Init => OutOK
  BY NullTypes DEF Init, OutOK
<1>2. Init => RestOK
  <2>1. Init => last \in Message \cup {NoMessage}
    BY DEF Init
  <2>2. Init => heard \in 0..MaxInputs
    BY InputBound DEF Init
  <2>3. Init => handback \in Handback
    BY NullTypes DEF Init
  <2>4. Init => handoff \in [state : {"none", "pending", "compacting"}, call : Calls \cup {None}]
    BY DEF Init, NoHandoff
  <2>5. Init => run = "idle" /\ prompt = "none" /\ quota = FALSE /\ starting = FALSE
    BY DEF Init
  <2> QED
    BY <2>1, <2>2, <2>3, <2>4, <2>5 DEF RestOK
<1> QED
  BY <1>1, <1>2, TypeParts

\* Every handler, command and process event preserves the types.
LEMMA StepType == TypeOK /\ [Next]_vars => TypeOK'
<1> SUFFICES ASSUME OutOK, RestOK, [Next]_vars PROVE OutOK' /\ RestOK'
  BY TypeParts
<1> USE NullTypes
<1>1. CASE WorkerRun
  <2>1. [NoRequest EXCEPT !.phase = "result"] \in Request
    BY DEF Request, NoRequest
  <2> QED
    BY <1>1, <2>1, InputBound DEF WorkerRun, OutOK, RestOK, piVars
<1>2. ASSUME NEW available \in BOOLEAN, ModelSelected(available) PROVE OutOK' /\ RestOK'
  <2>1. OutOK'
    <3>1. CASE Complete(request, "error", TRUE, "none")
      BY <3>1, CompleteOut DEF OutOK
    <3>2. CASE statusFile' = StatusOf(request) /\ allowed' = (request.phase # "retrospective")
               /\ UNCHANGED <<process, request, resultFile>>
      BY <3>2, StatusOfType DEF OutOK
    <3>3. CASE UNCHANGED outVars
      BY <3>3 DEF OutOK, outVars
    <3> QED
      BY <1>2, <3>1, <3>2, <3>3 DEF ModelSelected
  <2> QED
    BY <1>2, <2>1 DEF ModelSelected, RestOK, outVars
<1>3. ASSUME NEW text \in Texts \cup {None}, WorkerReturn(text) PROVE OutOK' /\ RestOK'
  <2>1. [request EXCEPT !.returning = TRUE] \in Request
    BY DEF OutOK, Request
  <2>2. [state |-> "held", result |-> ReturnValue(text), text |-> text] \in Handback
    BY DEF ReturnValue, Handback, OutOK, Request
  <2> QED
    BY <1>3, <2>1, <2>2, KeepOut DEF WorkerReturn, RestOK, piVars
<1>4. CASE ReturnIdle
  <2>1. CASE Active
    <3> DEFINE r == [request EXCEPT !.early = (request.main = None)]
               k == IF request.main # None /\ handback.text # None THEN "text" ELSE "none"
    <3>1. r \in Request /\ k \in {"none", "text", "unavailable"}
          /\ handback.result \in Replies \cup Texts \cup {"error", None}
      BY DEF OutOK, RestOK, Request, Handback
    <3>2. Complete(r, handback.result, FALSE, k)
      BY <1>4, <2>1 DEF ReturnIdle
    <3> HIDE DEF r, k
    <3>3. OutOK'
      BY <3>1, <3>2, CompleteOut
    <3> QED
      BY <1>4, <3>3 DEF ReturnIdle, RestOK, piVars
  <2>2. CASE ~Active
    BY <1>4, <2>2 DEF ReturnIdle, RestOK, OutOK, piVars, outVars
  <2> QED
    BY <2>1, <2>2
<1>5. CASE ReturnFails
  <2>1. [request EXCEPT !.returning = FALSE] \in Request
    BY DEF OutOK, Request
  <2> QED
    BY <1>5, <2>1, KeepOut DEF ReturnFails, RestOK, NoHandback, Handback, piVars
<1>6. CASE Input
  <2>1. request \in Request /\ request.guidance + 1 \in Nat
    BY DEF OutOK, Request
  <2>2. [request EXCEPT !.guidance = @ + 1] \in Request
    BY <2>1 DEF Request
  <2>3. OutOK'
    BY <1>6, <2>2, KeepOut DEF Input
  <2> QED
    BY <1>6, <2>3, InputBound DEF Input, RestOK
<1>7. CASE PromptRejected
  BY <1>7 DEF PromptRejected, OutOK, RestOK, outVars
<1>8. CASE AgentStart
  <2>1. request \in Request /\ [request EXCEPT !.waiting = FALSE] \in Request
    BY DEF OutOK, Request
  <2> QED
    BY <1>8, <2>1, KeepOut DEF AgentStart, RestOK
<1>9. ASSUME NEW m \in Message, MessageEnd(m) PROVE OutOK' /\ RestOK'
  <2>1. request \in Request /\ [request EXCEPT !.latest = m.text] \in Request
    BY DEF OutOK, Request, Message
  <2> QED
    BY <1>9, <2>1, KeepOut DEF MessageEnd, RestOK
<1>10. CASE TurnEnd
  <2>1. request \in Request
    BY DEF OutOK
  <2> QED
    BY <1>10, <2>1, KeepOut DEF TurnEnd, RestOK, piVars
<1>11. CASE SelfCompact
  <2>1. request \in Request /\ [request EXCEPT !.compaction = last.call] \in Request
    BY LastType DEF OutOK, Request
  <2>2. handoff' \in [state : {"none", "pending", "compacting"}, call : Calls \cup {None}]
    BY <1>11, LastType DEF SelfCompact
  <2> QED
    BY <1>11, <2>1, <2>2, KeepOut DEF SelfCompact, RestOK, piVars
<1>12. ASSUME NEW waits \in BOOLEAN, RecoveryStatus(waits) PROVE OutOK' /\ RestOK'
  <2>1. request \in Request /\ [request EXCEPT !.retryAt = waits] \in Request
    BY DEF OutOK, Request
  <2> QED
    BY <1>12, <2>1, KeepOut DEF RecoveryStatus, Recovery, RestOK
<1>13. ASSUME NEW toolOk \in BOOLEAN, AgentEnd(toolOk) PROVE OutOK' /\ RestOK'
  <2> DEFINE r == [request EXCEPT !.compaction = None, !.failed = FALSE]
             k == IF last.stop = "stop" /\ last.text # None THEN "text" ELSE "unavailable"
  <2>1. r \in Request /\ [request EXCEPT !.failed = FALSE] \in Request
        /\ [r EXCEPT !.failed = TRUE] \in Request /\ r.main \in Replies \cup {None}
    BY DEF OutOK, Request
  <2>2. \/ UNCHANGED outVars
        \/ Keep([request EXCEPT !.failed = FALSE])
        \/ Keep([r EXCEPT !.failed = TRUE])
        \/ Complete(r, r.main, FALSE, k)
        \/ last.text # None /\ BeginRetrospective(r, last.text)
        \/ Complete(r, "error", TRUE, "none")
    BY <1>13 DEF AgentEnd
  <2>3. k \in {"none", "text", "unavailable"}
    OBVIOUS
  <2> HIDE DEF r, k
  <2>4. OutOK'
    <3>1. CASE Complete(r, r.main, FALSE, k)
      BY <2>1, <2>3, <3>1, CompleteOut
    <3>2. CASE Complete(r, "error", TRUE, "none")
      BY <2>1, <3>2, CompleteOut
    <3>3. CASE last.text # None /\ BeginRetrospective(r, last.text)
      BY <2>1, <3>3, BeginOut, LastType
    <3>4. CASE UNCHANGED outVars
      BY <3>4 DEF OutOK, outVars
    <3> QED
      BY <2>1, <2>2, <3>1, <3>2, <3>3, <3>4, KeepOut
  <2> QED
    BY <1>13, <2>4 DEF AgentEnd, RestOK
<1>14. ASSUME NEW drop \in BOOLEAN, AgentSettled(drop) PROVE OutOK' /\ RestOK'
  <2>1. request \in Request /\ HandoffFailed(request) \in Request
    BY DEF OutOK, Request, HandoffFailed
  <2>2. OutOK'
    BY <1>14, <2>1, SettleOut DEF AgentSettled
  <2> QED
    BY <1>14, <2>2 DEF AgentSettled, RestOK, NoHandoff
<1>15. ASSUME NEW resumed \in BOOLEAN, CompactionEnd(resumed) PROVE OutOK' /\ RestOK'
  <2>1. request \in Request /\ HandoffFailed(request) \in Request
        /\ [request EXCEPT !.compaction = None] \in Request
    BY DEF OutOK, Request, HandoffFailed
  <2>2. OutOK'
    BY <1>15, <2>1, SettleOut, KeepOut DEF CompactionEnd
  <2> QED
    BY <1>15, <2>2 DEF CompactionEnd, RestOK, NoHandoff
<1>16. ASSUME NEW quits \in BOOLEAN, NEW told \in BOOLEAN, SessionShutdown(quits, told)
       PROVE OutOK' /\ RestOK'
  <2> DEFINE r == [request EXCEPT !.retryAt = FALSE,
                     !.waiting = @ \/ (told /\ HandoffMatches(request)
                                       /\ ~request.returning /\ resultFile = NoResult)]
  <2>1. r \in Request /\ request \in Request /\ request.main \in Replies \cup {None}
    BY DEF OutOK, Request
  <2>2. StatusOf(r) \in Status
    BY <2>1, StatusOfType
  <2>3. \/ Complete(request, request.main, FALSE, "unavailable")
        \/ /\ request' = NoRequest /\ allowed' = TRUE
           /\ statusFile' = (IF ~Active THEN statusFile ELSE StatusOf(r))
           /\ process' = (IF quits THEN "gone" ELSE "up")
           /\ UNCHANGED resultFile
    BY <1>16 DEF SessionShutdown
  <2> HIDE DEF r
  <2>4. OutOK'
    BY <2>1, <2>2, <2>3, CompleteOut DEF OutOK
  <2> QED
    BY <1>16, <2>4 DEF SessionShutdown, RestOK, NoHandoff
<1>17. CASE CloseStatus \/ Exit \/ Crash \/ RivalCompletes \/ RivalReports
  <2>1. OutOK'
    BY <1>17 DEF CloseStatus, Exit, Crash, RivalCompletes, RivalReports, OutOK
  <2>2. RestOK'
    BY <1>17 DEF CloseStatus, Exit, Crash, RivalCompletes, RivalReports, RestOK, piVars
  <2> QED
    BY <2>1, <2>2
<1>18. CASE UNCHANGED vars
  BY <1>18 DEF vars, OutOK, RestOK
<1> QED
  BY <1>1, <1>2, <1>3, <1>4, <1>5, <1>6, <1>7, <1>8, <1>9, <1>10, <1>11, <1>12, <1>13, <1>14,
     <1>15, <1>16, <1>17, <1>18 DEF Next, PiNext, CommandNext, ProcessNext

\* The worker's state keeps its shape through every handler, command and crash.
THEOREM TypeCorrect == Spec => []TypeOK
BY InitType, StepType, PTL DEF Spec

-----------------------------------------------------------------------------
(***************************************************************************)
(* The inductive invariant.  What is published depends on the request as   *)
(* it was saved many events earlier, so the invariant ties the parts of    *)
(* the request to each other, to the hand-back a human asked for and to    *)
(* what has been published.                                                *)
(***************************************************************************)

\* A request has a main result exactly in its retrospective, counts every typed message, and
\* is an early hand-back only at the moment that publishes it.
RequestOK(r) ==
  /\ r.phase = "none" => r = NoRequest
  /\ r.main # None <=> r.phase = "retrospective"
  /\ r.phase # "none" => r.guidance = heard
  /\ resultFile = NoResult => ~r.early

\* A hand-back in progress holds its request, and holds the saved main result if there is one.
HandbackOK ==
  process = "up" /\ handback.state = "held" =>
    /\ request.returning
    /\ request.main # None => handback.result = request.main

\* A worker that published its result is on its way out.
PublishedOK ==
  /\ resultFile.by = "self" => process # "up"
  /\ process \in {"closing", "exiting"} => resultFile # NoResult

Safe == RequestOK(request) /\ PublishedOK /\ GuidanceComplete /\ PolicyFollowsPhase

IInv == TypeOK /\ Safe /\ HandbackOK

\* A handler that changes neither the phase nor the saved result keeps Safe.
LEMMA KeepSafe ==
  ASSUME TypeOK, Safe, UNCHANGED heard, NEW r \in Request, RequestOK(r),
         r.phase = request.phase, Keep(r) \/ Report(r)
  PROVE  Safe'
BY DEF Safe, RequestOK, PublishedOK, GuidanceComplete, PolicyFollowsPhase, Keep, Report

\* Completing a request publishes the guidance it has counted, or leaves the request alone.
LEMMA CompleteSafe ==
  ASSUME TypeOK, Safe, UNCHANGED heard, NEW r \in Request, NEW v, NEW e, NEW k,
         r.phase = request.phase, r.main = request.main, r.phase # "none",
         r.guidance = heard, process = "up", Complete(r, v, e, k)
  PROVE  Safe'
<1> USE DEF Safe, RequestOK, PublishedOK, GuidanceComplete, PolicyFollowsPhase
<1>1. CASE resultFile = NoResult
  <2>1. resultFile' = Payload(r, v, e, k) /\ request' = NoRequest /\ allowed' = TRUE
        /\ process' = "closing"
    BY <1>1 DEF Complete
  <2>2. resultFile'.by = "self" /\ resultFile'.guidance = r.guidance /\ resultFile' # NoResult
    BY <2>1 DEF Payload, NoResult
  <2> QED
    BY <2>1, <2>2 DEF NoRequest
<1>2. CASE resultFile # NoResult
  BY <1>2 DEF Complete, Keep
<1> QED
  BY <1>1, <1>2

\* Saving the main result moves the request and the recovery policy together.
LEMMA BeginSafe ==
  ASSUME TypeOK, Safe, UNCHANGED heard, NEW r \in Request, RequestOK(r), r.phase = "result",
         request.phase = "result", NEW v \in Replies, BeginRetrospective(r, v)
  PROVE  Safe'
BY FrameAssumption
   DEF Safe, RequestOK, PublishedOK, GuidanceComplete, PolicyFollowsPhase, BeginRetrospective, Request

\* A failure that settles waits for a human or completes the retrospective.
LEMMA SettleSafe ==
  ASSUME TypeOK, Safe, UNCHANGED heard, process = "up", NEW r \in Request, RequestOK(r),
         r.phase = request.phase, r.main = request.main, SettleFailure(r)
  PROVE  Safe'
<1>1. CASE Keep(r)
  BY <1>1, KeepSafe
<1>2. CASE r.phase = "retrospective"
           /\ Complete([r EXCEPT !.failed = FALSE], r.main, FALSE, "unavailable")
  <2>1. [r EXCEPT !.failed = FALSE] \in Request
    BY DEF Request
  <2>2. [r EXCEPT !.failed = FALSE].phase = r.phase /\ [r EXCEPT !.failed = FALSE].main = r.main
        /\ [r EXCEPT !.failed = FALSE].guidance = r.guidance
    BY DEF Request
  <2> QED
    BY <1>2, <2>1, <2>2, CompleteSafe DEF RequestOK
<1>3. CASE r.failed /\ Report([r EXCEPT !.failed = FALSE, !.waiting = TRUE])
  <2> DEFINE s == [r EXCEPT !.failed = FALSE, !.waiting = TRUE]
  <2>1. r.phase # "none"
    BY <1>3 DEF RequestOK, NoRequest
  <2>2. s \in Request /\ s.phase = r.phase /\ s.main = r.main /\ s.guidance = r.guidance
        /\ s.early = r.early
    BY DEF Request
  <2>3. RequestOK(s)
    BY <2>1, <2>2 DEF RequestOK
  <2> QED
    BY <1>3, <2>2, <2>3, KeepSafe
<1> QED
  BY <1>1, <1>2, <1>3 DEF SettleFailure

\* The invariant without the types and without the hand-back, which every step keeps alike
\* unless it touches them.
LEMMA StepSafe == IInv /\ [Next]_vars => Safe'
<1> SUFFICES ASSUME TypeOK, Safe, HandbackOK, [Next]_vars PROVE Safe'
  BY DEF IInv
<1>0. request \in Request /\ RequestOK(request)
  BY DEF TypeOK, Safe
<1>1. CASE WorkerRun
  BY <1>1 DEF WorkerRun, Safe, RequestOK, PublishedOK, GuidanceComplete, PolicyFollowsPhase,
              NoRequest, NoResult, Active
<1>2. ASSUME NEW available \in BOOLEAN, ModelSelected(available) PROVE Safe'
  <2>1. CASE Complete(request, "error", TRUE, "none") /\ Active
    BY <1>0, <1>2, <2>1, CompleteSafe DEF ModelSelected, Active, RequestOK
  <2>2. CASE allowed' = (request.phase # "retrospective") /\ UNCHANGED <<process, request, resultFile>>
    BY <1>2, <2>2 DEF ModelSelected, Safe, RequestOK, PublishedOK, GuidanceComplete, PolicyFollowsPhase
  <2>3. CASE UNCHANGED outVars
    BY <1>2, <2>3 DEF ModelSelected, Safe, RequestOK, PublishedOK, GuidanceComplete,
                      PolicyFollowsPhase, outVars
  <2> QED
    BY <1>2, <2>1, <2>2, <2>3 DEF ModelSelected
<1>3. ASSUME NEW text \in Texts \cup {None}, WorkerReturn(text) PROVE Safe'
  <2> DEFINE r == [request EXCEPT !.returning = TRUE]
  <2>1. r \in Request /\ r.phase = request.phase /\ r.main = request.main
        /\ r.guidance = request.guidance /\ r.early = request.early
    BY <1>0 DEF Request
  <2>2. RequestOK(r)
    BY <1>0, <1>3, <2>1 DEF RequestOK, WorkerReturn, Active
  <2> QED
    BY <1>3, <2>1, <2>2, KeepSafe DEF WorkerReturn
<1>4. CASE ReturnIdle
  <2>1. CASE Active
    <3> DEFINE r == [request EXCEPT !.early = (request.main = None)]
               k == IF request.main # None /\ handback.text # None THEN "text" ELSE "none"
    <3>1. r \in Request /\ r.phase = request.phase /\ r.main = request.main
          /\ r.guidance = request.guidance
      BY <1>0 DEF Request
    <3>2. r.phase # "none" /\ r.guidance = heard
      BY <1>0, <2>1, <3>1 DEF RequestOK, Active
    <3>3. Complete(r, handback.result, FALSE, k) /\ process = "up" /\ UNCHANGED heard
      BY <1>4, <2>1 DEF ReturnIdle
    <3> HIDE DEF r, k
    <3> QED
      BY <3>1, <3>2, <3>3, CompleteSafe
  <2>2. CASE ~Active
    BY <1>4, <2>2 DEF ReturnIdle, Safe, RequestOK, PublishedOK, GuidanceComplete,
                      PolicyFollowsPhase, outVars
  <2> QED
    BY <2>1, <2>2
<1>5. CASE ReturnFails
  <2> DEFINE r == [request EXCEPT !.returning = FALSE]
  <2>1. r \in Request /\ r.phase = request.phase /\ r.main = request.main
        /\ r.guidance = request.guidance /\ r.early = request.early
    BY <1>0 DEF Request
  <2>2. RequestOK(r)
    <3>1. request.returning
      BY <1>5 DEF ReturnFails, HandbackOK
    <3>2. request.phase # "none"
      BY <1>0, <3>1 DEF RequestOK, NoRequest
    <3> QED
      BY <1>0, <2>1, <3>2 DEF RequestOK
  <2> QED
    BY <1>5, <2>1, <2>2, KeepSafe DEF ReturnFails
<1>6. CASE Input
  <2> DEFINE r == [request EXCEPT !.guidance = @ + 1]
  <2>1. r.phase = request.phase /\ r.main = request.main
        /\ r.guidance = request.guidance + 1 /\ r.early = request.early
    BY <1>0 DEF Request
  <2>2. request' = r /\ heard' = heard + 1 /\ UNCHANGED <<process, allowed, resultFile>>
        /\ process = "up" /\ request.phase # "none"
    BY <1>6 DEF Input, Keep, Active
  <2> HIDE DEF r
  <2> QED
    BY <1>0, <2>1, <2>2 DEF Safe, RequestOK, PublishedOK, GuidanceComplete, PolicyFollowsPhase
<1>7. CASE AgentStart
  <2> DEFINE r == [request EXCEPT !.waiting = FALSE]
  <2>1. r \in Request /\ r.phase = request.phase /\ r.main = request.main
        /\ r.guidance = request.guidance /\ r.early = request.early
    BY <1>0 DEF Request
  <2>2. request.waiting => RequestOK(r)
    BY <1>0, <2>1 DEF RequestOK, NoRequest
  <2> QED
    BY <1>0, <1>7, <2>1, <2>2, KeepSafe DEF AgentStart
<1>8. ASSUME NEW m \in Message, MessageEnd(m) PROVE Safe'
  <2> DEFINE r == [request EXCEPT !.latest = m.text]
  <2>1. r \in Request /\ r.phase = request.phase /\ r.main = request.main
        /\ r.guidance = request.guidance /\ r.early = request.early
    BY <1>0 DEF Request, Message
  <2>2. Active => RequestOK(r)
    BY <1>0, <2>1 DEF RequestOK, Active
  <2> QED
    BY <1>0, <1>8, <2>1, <2>2, KeepSafe DEF MessageEnd
<1>9. CASE TurnEnd
  BY <1>0, <1>9, KeepSafe DEF TurnEnd
<1>10. CASE SelfCompact
  <2> DEFINE r == [request EXCEPT !.compaction = last.call]
  <2>1. last.call \in Calls \cup {None}
    BY LastType, TypeParts
  <2>2. r \in Request /\ r.phase = request.phase /\ r.main = request.main
        /\ r.guidance = request.guidance /\ r.early = request.early
    BY <1>0, <2>1 DEF Request
  <2>3. Active => RequestOK(r)
    BY <1>0, <2>2 DEF RequestOK, Active
  <2> QED
    BY <1>0, <1>10, <2>2, <2>3, KeepSafe DEF SelfCompact
<1>11. ASSUME NEW waits \in BOOLEAN, RecoveryStatus(waits) PROVE Safe'
  <2> DEFINE r == [request EXCEPT !.retryAt = waits]
  <2>1. r \in Request /\ r.phase = request.phase /\ r.main = request.main
        /\ r.guidance = request.guidance /\ r.early = request.early
    BY <1>0 DEF Request
  <2>2. request.phase = "result" => RequestOK(r)
    BY <1>0, <2>1 DEF RequestOK
  <2> QED
    BY <1>0, <1>11, <2>1, <2>2, KeepSafe DEF RecoveryStatus, Recovery
<1>12. ASSUME NEW toolOk \in BOOLEAN, AgentEnd(toolOk) PROVE Safe'
  <2>1. CASE UNCHANGED outVars
    BY <1>12, <2>1 DEF AgentEnd, Safe, RequestOK, PublishedOK, GuidanceComplete,
                       PolicyFollowsPhase, outVars
  <2>2. CASE Active /\ ~UNCHANGED outVars
    <3> DEFINE k == [request EXCEPT !.failed = FALSE]
               r == [request EXCEPT !.compaction = None, !.failed = FALSE]
               f == [r EXCEPT !.failed = TRUE]
    <3>1. \A q \in {k, r, f} : /\ q \in Request /\ q.phase = request.phase
                               /\ q.main = request.main /\ q.guidance = request.guidance
                               /\ q.early = request.early
      BY <1>0 DEF Request
    <3>2. \A q \in {k, r, f} : RequestOK(q) /\ q.phase # "none" /\ q.guidance = heard
      BY <1>0, <2>2, <3>1 DEF RequestOK, Active
    <3>3. process = "up" /\ UNCHANGED heard
      BY <1>12 DEF AgentEnd
    <3>4. \/ Keep(k) \/ Keep(f)
          \/ \E e \in {"text", "unavailable"} : Complete(r, r.main, FALSE, e)
          \/ Complete(r, "error", TRUE, "none")
          \/ last.text # None /\ request.phase = "result" /\ BeginRetrospective(r, last.text)
      BY <1>12, <2>2 DEF AgentEnd
    <3>5. last.text \in Replies \cup {None}
      BY LastType, TypeParts
    <3> HIDE DEF k, r, f
    <3>6. CASE Keep(k) \/ Keep(f)
      BY <3>1, <3>2, <3>3, <3>6, KeepSafe
    <3>7. CASE \E e \in {"text", "unavailable"} : Complete(r, r.main, FALSE, e)
      BY <3>1, <3>2, <3>3, <3>7, CompleteSafe
    <3>8. CASE Complete(r, "error", TRUE, "none")
      BY <3>1, <3>2, <3>3, <3>8, CompleteSafe
    <3>9. CASE last.text # None /\ request.phase = "result" /\ BeginRetrospective(r, last.text)
      BY <3>1, <3>2, <3>3, <3>5, <3>9, BeginSafe
    <3> QED
      BY <3>4, <3>6, <3>7, <3>8, <3>9
  <2> QED
    BY <1>12, <2>1, <2>2 DEF AgentEnd
<1>13. RequestOK(HandoffFailed(request)) /\ HandoffFailed(request) \in Request
       /\ HandoffFailed(request).phase = request.phase /\ HandoffFailed(request).main = request.main
  <2>1. CASE HandoffMatches(request)
    <3> DEFINE r == [request EXCEPT !.compaction = None, !.failed = TRUE]
    <3>1. r \in Request /\ r.phase = request.phase /\ r.main = request.main
          /\ r.guidance = request.guidance /\ r.early = request.early
      BY <1>0 DEF Request
    <3>2. request.phase # "none"
      BY <1>0, <2>1 DEF HandoffMatches, RequestOK, NoRequest
    <3>3. RequestOK(r)
      BY <1>0, <3>1, <3>2 DEF RequestOK
    <3> QED
      BY <2>1, <3>1, <3>3 DEF HandoffFailed
  <2> QED
    BY <1>0, <2>1 DEF HandoffFailed
<1>14. ASSUME NEW drop \in BOOLEAN, AgentSettled(drop) PROVE Safe'
  BY <1>0, <1>13, <1>14, SettleSafe DEF AgentSettled
<1>15. ASSUME NEW resumed \in BOOLEAN, CompactionEnd(resumed) PROVE Safe'
  <2> DEFINE r == [request EXCEPT !.compaction = None]
  <2>1. r \in Request /\ r.phase = request.phase /\ r.main = request.main
        /\ r.guidance = request.guidance /\ r.early = request.early
    BY <1>0 DEF Request
  <2>2. HandoffMatches(request) => RequestOK(r)
    <3>1. HandoffMatches(request) => request.phase # "none"
      BY <1>0 DEF HandoffMatches, RequestOK, NoRequest
    <3> QED
      BY <1>0, <2>1, <3>1 DEF RequestOK
  <2>3. CASE resumed
    BY <1>0, <1>15, <2>1, <2>2, <2>3, KeepSafe DEF CompactionEnd
  <2>4. CASE ~resumed
    BY <1>13, <1>15, <2>4, SettleSafe DEF CompactionEnd
  <2> QED
    BY <2>3, <2>4
<1>16. ASSUME NEW quits \in BOOLEAN, NEW told \in BOOLEAN, SessionShutdown(quits, told)
       PROVE Safe'
  <2>1. CASE request.phase = "retrospective" /\ Complete(request, request.main, FALSE, "unavailable")
    BY <1>0, <1>16, <2>1, CompleteSafe DEF SessionShutdown, RequestOK
  <2>2. CASE request' = NoRequest /\ allowed' = TRUE /\ process' \in {"gone", "up"}
             /\ UNCHANGED resultFile
    BY <1>16, <2>2 DEF SessionShutdown, Safe, RequestOK, PublishedOK, GuidanceComplete,
                       PolicyFollowsPhase, NoRequest
  <2> QED
    BY <1>16, <2>1, <2>2 DEF SessionShutdown
<1>17. CASE CloseStatus \/ Exit \/ Crash \/ RivalCompletes \/ RivalReports \/ PromptRejected \/ UNCHANGED vars
  BY <1>17 DEF CloseStatus, Exit, Crash, RivalCompletes, RivalReports, PromptRejected, vars, outVars, Safe,
               RequestOK, PublishedOK, GuidanceComplete, PolicyFollowsPhase, RivalResult, NoResult
<1> QED
  BY <1>1, <1>2, <1>3, <1>4, <1>5, <1>6, <1>7, <1>8, <1>9, <1>10, <1>11, <1>12, <1>14,
     <1>15, <1>16, <1>17 DEF Next, PiNext, CommandNext, ProcessNext

\* A hand-back in progress keeps its request, and what that request has saved, as they are.
LEMMA StepHandback == IInv /\ [Next]_vars => HandbackOK'
<1> SUFFICES ASSUME TypeOK, Safe, HandbackOK, [Next]_vars PROVE HandbackOK'
  BY DEF IInv
<1>0. request \in Request /\ RequestOK(request)
  BY DEF TypeOK, Safe
<1>1. CASE WorkerRun
  <2>1. request = NoRequest
    BY <1>0, <1>1 DEF WorkerRun, Active, RequestOK
  <2> QED
    BY <1>1, <2>1 DEF WorkerRun, HandbackOK, NoRequest
<1>2. ASSUME NEW available \in BOOLEAN, ModelSelected(available) PROVE HandbackOK'
  BY <1>2 DEF ModelSelected, Complete, Keep, HandbackOK, outVars
<1>3. ASSUME NEW text \in Texts \cup {None}, WorkerReturn(text) PROVE HandbackOK'
  <2>1. request'.returning /\ request'.main = request.main
    BY <1>0, <1>3 DEF WorkerReturn, Keep, Request
  <2> QED
    BY <1>3, <2>1 DEF WorkerReturn, ReturnValue, HandbackOK
<1>4. CASE ReturnIdle \/ ReturnFails
  <2>1. handback' \in {NoHandback, [NoHandback EXCEPT !.state = "lost"]}
    BY <1>4 DEF ReturnIdle, ReturnFails
  <2>2. handback'.state # "held"
    BY <2>1 DEF NoHandback
  <2> QED
    BY <2>2 DEF HandbackOK
<1>5. CASE Input
  <2>1. request'.returning = request.returning /\ request'.main = request.main
    BY <1>0, <1>5 DEF Input, Keep, Request
  <2> QED
    BY <1>5, <2>1 DEF Input, Keep, HandbackOK
<1>6. CASE AgentStart
  <2>1. request'.returning = request.returning /\ request'.main = request.main
    BY <1>0, <1>6 DEF AgentStart, Report, Keep, Request
  <2> QED
    BY <1>6, <2>1 DEF AgentStart, Report, Keep, HandbackOK
<1>7. ASSUME NEW m \in Message, MessageEnd(m) PROVE HandbackOK'
  <2>1. request'.returning = request.returning /\ request'.main = request.main
    BY <1>0, <1>7 DEF MessageEnd, Keep, Request
  <2> QED
    BY <1>7, <2>1 DEF MessageEnd, Keep, HandbackOK
<1>8. CASE TurnEnd
  BY <1>8 DEF TurnEnd, Report, HandbackOK
<1>9. CASE SelfCompact
  <2>1. request'.returning = request.returning /\ request'.main = request.main
    BY <1>0, <1>9 DEF SelfCompact, Keep, Request
  <2> QED
    BY <1>9, <2>1 DEF SelfCompact, Keep, HandbackOK
<1>10. ASSUME NEW waits \in BOOLEAN, RecoveryStatus(waits) PROVE HandbackOK'
  <2>1. request'.returning = request.returning /\ request'.main = request.main
    BY <1>0, <1>10 DEF RecoveryStatus, Recovery, Report, Keep, Request
  <2> QED
    BY <1>10, <2>1 DEF RecoveryStatus, Recovery, Report, Keep, HandbackOK
<1>11. ASSUME NEW toolOk \in BOOLEAN, AgentEnd(toolOk) PROVE HandbackOK'
  BY <1>11 DEF AgentEnd, HandbackOK, outVars
<1>12. ASSUME NEW drop \in BOOLEAN, AgentSettled(drop) PROVE HandbackOK'
  <2>1. request.returning => /\ HandoffFailed(request).returning
                             /\ HandoffFailed(request).main = request.main
    BY <1>0 DEF HandoffFailed, Request
  <2> QED
    BY <1>12, <2>1 DEF AgentSettled, SettleFailure, Keep, HandbackOK
<1>13. ASSUME NEW resumed \in BOOLEAN, CompactionEnd(resumed) PROVE HandbackOK'
  <2> DEFINE r == [request EXCEPT !.compaction = None]
  <2>1. /\ request.returning => HandoffFailed(request).returning /\ r.returning
        /\ HandoffFailed(request).main = request.main /\ r.main = request.main
    BY <1>0 DEF HandoffFailed, Request
  <2> QED
    BY <1>13, <2>1 DEF CompactionEnd, SettleFailure, Keep, HandbackOK
<1>14. ASSUME NEW quits \in BOOLEAN, NEW told \in BOOLEAN, SessionShutdown(quits, told)
       PROVE HandbackOK'
  BY <1>14 DEF SessionShutdown, NoHandback, HandbackOK
<1>15. CASE CloseStatus \/ Exit \/ Crash \/ RivalCompletes \/ RivalReports \/ PromptRejected \/ UNCHANGED vars
  BY <1>15 DEF CloseStatus, Exit, Crash, RivalCompletes, RivalReports, PromptRejected, vars, outVars, HandbackOK
<1> QED
  BY <1>1, <1>2, <1>3, <1>4, <1>5, <1>6, <1>7, <1>8, <1>9, <1>10, <1>11, <1>12, <1>13,
     <1>14, <1>15 DEF Next, PiNext, CommandNext, ProcessNext

\* A worker process starts without a request, a hand-back or a result.
LEMMA InitIInv == Init => IInv
BY InitType DEF Init, IInv, Safe, HandbackOK, RequestOK, PublishedOK, GuidanceComplete,
                PolicyFollowsPhase, NoRequest, NoResult, NoHandback

\* The invariant holds in every state of a worker.
LEMMA Invariant == Spec => []IInv
<1>1. IInv /\ [Next]_vars => IInv'
  BY StepType, StepSafe, StepHandback DEF IInv
<1> QED
  BY <1>1, InitIInv, PTL DEF Spec

\* writeFinalResult reports every message a human typed while the request was active.
THEOREM GuidanceReported == Spec => []GuidanceComplete
BY Invariant, PTL DEF IInv, Safe

\* publishRecoveryPolicy and the phase of the request never disagree between two handlers.
THEOREM PolicyCurrent == Spec => []PolicyFollowsPhase
BY Invariant, PTL DEF IInv, Safe

-----------------------------------------------------------------------------
(* What a completion publishes *)

\* A completion that changes result.json writes exactly what it was given.
LEMMA CompletePayload ==
  ASSUME NEW r, NEW v, NEW e, NEW k, Complete(r, v, e, k), resultFile' # resultFile
  PROVE  resultFile' = Payload(r, v, e, k) /\ resultFile = NoResult /\ request' = NoRequest
BY DEF Complete, Keep

\* What this process publishes, whichever handler does: once /worker-run is over, an error
\* before a main result is saved, the main result after, or what a human handed back early.
Published ==
  /\ ~resultFile'.isError => (resultFile'.early <=> request.main = None)
  /\ request.main # None /\ ~starting => resultFile'.result = request.main /\ ~resultFile'.isError

\* The completion of request r with an unchanged early flag.
LEMMA OwnCompletion ==
  ASSUME IInv, NEW r, NEW v, NEW e \in BOOLEAN, NEW k, Complete(r, v, e, k),
         resultFile' # resultFile, r.early = request.early,
         ~e => v = request.main /\ request.main # None, e => request.main = None \/ starting
  PROVE  Published
<1>1. resultFile' = Payload(r, v, e, k) /\ resultFile = NoResult
  BY CompletePayload
<1>2. ~request.early
  BY <1>1 DEF IInv, Safe, RequestOK
<1> QED
  BY <1>1, <1>2 DEF Payload, Published

\* Every step that publishes does so as Published says.
LEMMA StepPublished ==
  ASSUME IInv, [Next]_vars, resultFile' # resultFile, resultFile'.by = "self"
  PROVE  Published
<1>0. request \in Request /\ RequestOK(request)
  BY DEF IInv, TypeOK, Safe
<1>1. ASSUME NEW available \in BOOLEAN, ModelSelected(available) PROVE Published
  <2>1. Complete(request, "error", TRUE, "none") /\ starting
    BY <1>1 DEF ModelSelected, outVars
  <2> QED
    BY <2>1, OwnCompletion
<1>2. CASE ReturnIdle
  <2> DEFINE r == [request EXCEPT !.early = (request.main = None)]
             k == IF request.main # None /\ handback.text # None THEN "text" ELSE "none"
  <2>1. Complete(r, handback.result, FALSE, k)
    BY <1>2 DEF ReturnIdle, outVars
  <2>2. r.early = (request.main = None)
    BY <1>0 DEF Request
  <2>3. request.main # None => handback.result = request.main
    BY <1>2 DEF ReturnIdle, IInv, HandbackOK
  <2> HIDE DEF r, k
  <2>4. resultFile' = Payload(r, handback.result, FALSE, k)
    BY <2>1, CompletePayload
  <2>5. resultFile'.isError = FALSE /\ resultFile'.early = r.early /\ resultFile'.result = handback.result
    BY <2>4 DEF Payload
  <2> QED
    BY <2>2, <2>3, <2>5 DEF Published
<1>3. ASSUME NEW toolOk \in BOOLEAN, AgentEnd(toolOk) PROVE Published
  <2> DEFINE r == [request EXCEPT !.compaction = None, !.failed = FALSE]
  <2>1. r.main = request.main /\ r.early = request.early
    BY <1>0 DEF Request
  <2>2. \/ /\ request.phase = "retrospective"
           /\ \E k \in {"text", "unavailable"} : Complete(r, r.main, FALSE, k)
        \/ request.phase = "result" /\ Complete(r, "error", TRUE, "none")
    BY <1>3 DEF AgentEnd, Keep, BeginRetrospective, outVars
  <2> HIDE DEF r
  <2> QED
    BY <1>0, <2>1, <2>2, OwnCompletion DEF RequestOK
<1>4. ASSUME NEW q \in Request, q.main = request.main, q.phase = request.phase,
             q.early = request.early, SettleFailure(q)
      PROVE  Published
  <2> DEFINE r == [q EXCEPT !.failed = FALSE]
  <2>1. r.early = request.early
    BY <1>4 DEF Request
  <2>2. request.phase = "retrospective" /\ Complete(r, q.main, FALSE, "unavailable")
    BY <1>4 DEF SettleFailure, Keep, Report
  <2> HIDE DEF r
  <2> QED
    BY <1>0, <1>4, <2>1, <2>2, OwnCompletion DEF RequestOK
<1>5. /\ HandoffFailed(request) \in Request /\ HandoffFailed(request).main = request.main
      /\ HandoffFailed(request).phase = request.phase /\ HandoffFailed(request).early = request.early
  BY <1>0 DEF HandoffFailed, Request
<1>6. ASSUME NEW drop \in BOOLEAN, AgentSettled(drop) PROVE Published
  BY <1>0, <1>4, <1>5, <1>6 DEF AgentSettled
<1>7. ASSUME NEW resumed \in BOOLEAN, CompactionEnd(resumed) PROVE Published
  BY <1>4, <1>5, <1>7 DEF CompactionEnd, Keep
<1>8. ASSUME NEW quits \in BOOLEAN, NEW told \in BOOLEAN, SessionShutdown(quits, told) PROVE Published
  <2>1. request.phase = "retrospective" /\ Complete(request, request.main, FALSE, "unavailable")
    BY <1>8 DEF SessionShutdown
  <2> QED
    BY <1>0, <2>1, OwnCompletion DEF RequestOK
<1>9. CASE RivalCompletes
  BY <1>9 DEF RivalCompletes, RivalResult, NoResult
<1>10. ASSUME UNCHANGED resultFile PROVE FALSE
  BY <1>10
<1> QED
  <2>1. CASE CommandNext
    BY <2>1, <1>1, <1>2, <1>10 DEF CommandNext, WorkerRun, ReturnFails, WorkerReturn, Keep
  <2>2. CASE ProcessNext
    BY <2>2, <1>8, <1>9, <1>10 DEF ProcessNext, CloseStatus, Exit, Crash, RivalReports
  <2>3. CASE PiNext
    BY <2>3, <1>3, <1>6, <1>7, <1>10 DEF PiNext, Input, PromptRejected, AgentStart, TurnEnd,
       SelfCompact, MessageEnd, RecoveryStatus, Recovery, Keep, Report, outVars
  <2> QED
    BY <2>1, <2>2, <2>3, <1>10 DEF Next, vars

\* A saved main result stays what it is for as long as its request lasts.
LEMMA MainKept ==
  ASSUME IInv, [Next]_vars, request.main # None, request'.main # None
  PROVE  request'.main = request.main
<1>0. request \in Request /\ RequestOK(request) /\ request.phase = "retrospective"
  BY DEF IInv, TypeOK, Safe, RequestOK
<1>1. ASSUME NEW r, NEW v, NEW e, NEW k, Complete(r, v, e, k)
      PROVE  request' \in {r, NoRequest}
  BY <1>1 DEF Complete, Keep
<1>2. NoRequest.main = None
  BY DEF NoRequest
<1>3. ASSUME NEW q \in Request, q.main = request.main, SettleFailure(q)
      PROVE  request'.main = request.main
  <2> DEFINE r == [q EXCEPT !.failed = FALSE]
             w == [q EXCEPT !.failed = FALSE, !.waiting = TRUE]
  <2>1. r.main = q.main /\ w.main = q.main
    BY DEF Request
  <2>2. Keep(q) \/ Complete(r, q.main, FALSE, "unavailable") \/ Report(w)
    BY <1>3 DEF SettleFailure
  <2> HIDE DEF r, w
  <2> QED
    BY <1>1, <1>2, <1>3, <2>1, <2>2 DEF Keep, Report
<1>4. HandoffFailed(request) \in Request /\ HandoffFailed(request).main = request.main
  BY <1>0 DEF HandoffFailed, Request
<1>5. CASE CommandNext
  <2>1. CASE ReturnIdle
    <3> DEFINE r == [request EXCEPT !.early = (request.main = None)]
    <3>1. r.main = request.main
      BY <1>0 DEF Request
    <3>2. UNCHANGED request \/ \E k \in {"text", "none"} : Complete(r, handback.result, FALSE, k)
      BY <2>1 DEF ReturnIdle, outVars
    <3> HIDE DEF r
    <3> QED
      BY <1>1, <1>2, <3>1, <3>2
  <2>2. CASE \E available \in BOOLEAN : ModelSelected(available)
    BY <1>1, <1>2, <2>2 DEF ModelSelected, outVars
  <2>3. CASE WorkerRun \/ ReturnFails \/ \E text \in Texts \cup {None} : WorkerReturn(text)
    BY <1>0, <2>3 DEF WorkerRun, Active, ReturnFails, WorkerReturn, Keep, Request
  <2> QED
    BY <1>5, <2>1, <2>2, <2>3 DEF CommandNext
<1>6. CASE ProcessNext
  BY <1>1, <1>2, <1>6 DEF ProcessNext, SessionShutdown, CloseStatus, Exit, Crash, RivalCompletes, RivalReports
<1>7. ASSUME NEW toolOk \in BOOLEAN, AgentEnd(toolOk) PROVE request'.main = request.main
  <2> DEFINE k == [request EXCEPT !.failed = FALSE]
             r == [request EXCEPT !.compaction = None, !.failed = FALSE]
             f == [r EXCEPT !.failed = TRUE]
  <2>1. r.main = request.main /\ k.main = request.main /\ f.main = request.main
    BY <1>0 DEF Request
  <2>2. UNCHANGED request \/ Keep(k) \/ Keep(f) \/ \E e \in {"text", "unavailable"} : Complete(r, r.main, FALSE, e)
    BY <1>0, <1>7 DEF AgentEnd, outVars
  <2> HIDE DEF k, r, f
  <2> QED
    BY <1>1, <1>2, <2>1, <2>2 DEF Keep
<1>8. ASSUME NEW drop \in BOOLEAN, AgentSettled(drop) PROVE request'.main = request.main
  BY <1>0, <1>3, <1>4, <1>8 DEF AgentSettled
<1>9. ASSUME NEW resumed \in BOOLEAN, CompactionEnd(resumed) PROVE request'.main = request.main
  <2>1. [request EXCEPT !.compaction = None].main = request.main
    BY <1>0 DEF Request
  <2> QED
    BY <1>3, <1>4, <1>9, <2>1 DEF CompactionEnd, Keep
<1>10. CASE Input \/ AgentStart \/ TurnEnd \/ SelfCompact \/ PromptRejected
            \/ (\E m \in Message : MessageEnd(m)) \/ \E waits \in BOOLEAN : RecoveryStatus(waits)
  BY <1>0, <1>10 DEF Input, AgentStart, TurnEnd, SelfCompact, PromptRejected, MessageEnd,
     RecoveryStatus, Recovery, Keep, Report, Request, outVars
<1> QED
  BY <1>5, <1>6, <1>7, <1>8, <1>9, <1>10 DEF Next, PiNext, vars

\* Whatever ends a request after its main result was saved publishes that result as a success.
THEOREM MainDelivered == Spec => MainResultDelivered
<1>1. IInv /\ [Next]_vars =>
        (request.main # None /\ ~starting =>
           /\ request'.main # None => request'.main = request.main
           /\ resultFile' # resultFile /\ resultFile'.by = "self" =>
                resultFile'.result = request.main /\ ~resultFile'.isError)
  BY MainKept, StepPublished DEF Published
<1> QED
  BY <1>1, Invariant, PTL DEF Spec, MainResultDelivered

\* A published success is marked as an early hand-back exactly when no main result was saved.
THEOREM EarlyDisclosed == Spec => EarlyReturnDisclosed
<1>1. IInv /\ [Next]_vars =>
        (resultFile' # resultFile /\ resultFile'.by = "self" /\ ~resultFile'.isError =>
           (resultFile'.early <=> request.main = None))
  BY StepPublished DEF Published
<1> QED
  BY <1>1, Invariant, PTL DEF Spec, EarlyReturnDisclosed

\* What a worker publishes is the main result it saved, and says so when it is not one.
THEOREM ResultIsHonest == Spec => ResultHonest
BY MainDelivered, EarlyDisclosed, PTL DEF ResultHonest

-----------------------------------------------------------------------------
(***************************************************************************)
(* What status.json tells the parent.  A worker stops in the middle of a   *)
(* request for one of four reasons - a failed run, a dropped handoff, a    *)
(* shutdown, a lost hand-back - each noticed by another handler than the   *)
(* one that reports it.  The invariant follows a run from its end over     *)
(* agent_settled to the end of its compaction.                             *)
(***************************************************************************)

\* Only a running agent on its task waits for quota, only one that does not run waits for a human or
\* compacts.
RunOK ==
  /\ quota => run = "running"
  /\ request.retryAt => quota /\ request.phase = "result"
  /\ request.waiting => run # "running"
  /\ handoff.state = "compacting" => run = "idle"

\* The compaction a request counts on is the one self_compact is about to do.
HandoffOK ==
  request.compaction # None => handoff.state # "none" /\ handoff.call = request.compaction

\* The request goes on, and no prompt of an extension is about to take it further.
Pending ==
  /\ process = "up" /\ Active /\ ~starting /\ ~request.returning /\ resultFile = NoResult
  /\ handback.state # "lost" /\ prompt # "sent"

\* A pending request whose run has ended is known to have failed or to be compacting; once
\* the agent has settled, it waits for a human or for that compaction.
StopsOK ==
  Pending => /\ run = "ended" => request.failed \/ HandoffMatches(request)
             /\ run = "idle" => request.waiting \/ HandoffMatches(request)

CourseInv == IInv /\ RunOK /\ HandoffOK /\ StopsOK /\ StatusTruthful

\* A worker without a request is in none of these situations.
LEMMA NoCourse ==
  /\ NoRequest.phase = "none" /\ ~NoRequest.failed /\ ~NoRequest.waiting /\ ~NoRequest.retryAt
  /\ ~NoRequest.returning /\ NoRequest.compaction = None
BY DEF NoRequest

\* A completion ends the request, or another process has already published its result.
LEMMA CompleteCases ==
  ASSUME NEW r, NEW v, NEW e, NEW k, Complete(r, v, e, k)
  PROVE  /\ statusFile' = statusFile
         /\ resultFile' # NoResult
         /\ \/ request' = NoRequest /\ process' = "closing"
            \/ request' = r /\ process' = process /\ resultFile # NoResult
BY DEF Complete, Keep, Payload, NoResult

\* A handler that tells a request of a dropped handoff.
LEMMA FailedFields ==
  ASSUME NEW q \in Request
  PROVE  LET f == HandoffFailed(q) IN
         /\ f \in Request /\ f.phase = q.phase /\ f.waiting = q.waiting /\ f.retryAt = q.retryAt
         /\ f.returning = q.returning
         /\ HandoffMatches(q) => f.failed /\ f.compaction = None
         /\ ~HandoffMatches(q) => f = q
BY DEF HandoffFailed, Request

\* A request whose failure has been reported.
Reported(r) == [r EXCEPT !.failed = FALSE, !.waiting = TRUE]

\* What a settling handler makes of the request it is given.
LEMMA SettleCases ==
  ASSUME NEW r \in Request, SettleFailure(r)
  PROVE  \/ /\ request' = r /\ UNCHANGED <<process, resultFile, statusFile>>
            /\ r.returning \/ ~r.failed \/ resultFile # NoResult
         \/ /\ request' = NoRequest /\ process' = "closing"
            /\ resultFile' # NoResult /\ statusFile' = statusFile
         \/ /\ request' = Reported(r)
            /\ r.failed /\ statusFile' = StatusOf(request') /\ UNCHANGED <<process, resultFile>>
<1> DEFINE s == [r EXCEPT !.failed = FALSE]
<1>1. CASE Keep(r) /\ (r.returning \/ ~r.failed \/ resultFile # NoResult)
  BY <1>1 DEF Keep
<1>2. CASE resultFile = NoResult /\ Complete(s, r.main, FALSE, "unavailable")
  <2> HIDE DEF s
  <2> QED
    BY <1>2, CompleteCases
<1>3. CASE r.failed /\ Report([r EXCEPT !.failed = FALSE, !.waiting = TRUE])
  BY <1>3 DEF Report, Reported
<1> QED
  BY <1>1, <1>2, <1>3 DEF SettleFailure

\* It waits for a human and is otherwise the request it was.
LEMMA ReportedFields ==
  ASSUME NEW r \in Request
  PROVE  /\ Reported(r) \in Request /\ Reported(r).phase = r.phase /\ Reported(r).waiting
         /\ Reported(r).retryAt = r.retryAt /\ Reported(r).returning = r.returning
         /\ Reported(r).compaction = r.compaction
BY DEF Request, Reported

\* Runs, quota waits, waits for a human and compactions take turns.
LEMMA StepRun == CourseInv /\ [Next]_vars => RunOK' /\ HandoffOK'
<1> SUFFICES ASSUME CourseInv, [Next]_vars PROVE RunOK' /\ HandoffOK'
  OBVIOUS
<1> USE NoCourse
<1>0. request \in Request /\ RequestOK(request) /\ RunOK /\ HandoffOK /\ quota \in BOOLEAN
  BY DEF CourseInv, IInv, TypeOK, Safe
<1>1. ASSUME UNCHANGED <<run, quota, handoff>>, request'.retryAt => request.retryAt,
             request'.waiting => request.waiting, request'.compaction \in {request.compaction, None},
             request'.phase = request.phase \/ ~request'.retryAt
      PROVE  RunOK' /\ HandoffOK'
  BY <1>0, <1>1 DEF RunOK, HandoffOK
<1>2. ASSUME NEW r \in Request, NEW v, NEW e, NEW k, Complete(r, v, e, k),
             r.retryAt => request.retryAt, r.waiting => request.waiting,
             r.compaction \in {request.compaction, None}, r.phase = request.phase
      PROVE  /\ request'.retryAt => request.retryAt /\ request'.phase = request.phase
             /\ request'.waiting => request.waiting
             /\ request'.compaction \in {request.compaction, None}
  BY <1>2, CompleteCases
<1>3. CASE WorkerRun
  <2>1. request'.retryAt = FALSE /\ request'.waiting = FALSE /\ request'.compaction = None
    BY <1>3 DEF WorkerRun, NoRequest
  <2> QED
    BY <1>1, <1>3, <2>1 DEF WorkerRun, piVars
<1>4. ASSUME NEW available \in BOOLEAN, ModelSelected(available) PROVE RunOK' /\ HandoffOK'
  BY <1>0, <1>1, <1>2, <1>4 DEF ModelSelected, outVars
<1>5. ASSUME NEW text \in Texts \cup {None}, WorkerReturn(text) PROVE RunOK' /\ HandoffOK'
  <2>1. request'.retryAt = request.retryAt /\ request'.waiting = request.waiting
        /\ request'.compaction = request.compaction /\ request'.phase = request.phase
    BY <1>0, <1>5 DEF WorkerReturn, Keep, Request
  <2> QED
    BY <1>1, <1>5, <2>1 DEF WorkerReturn, piVars
<1>6. CASE ReturnIdle
  <2> DEFINE r == [request EXCEPT !.early = (request.main = None)]
  <2>1. r \in Request /\ r.retryAt = request.retryAt /\ r.waiting = request.waiting
        /\ r.compaction = request.compaction /\ r.phase = request.phase
    BY <1>0 DEF Request
  <2>2. UNCHANGED request \/ \E k \in {"text", "none"} : Complete(r, handback.result, FALSE, k)
    BY <1>6 DEF ReturnIdle, outVars
  <2> HIDE DEF r
  <2> QED
    BY <1>1, <1>2, <1>6, <2>1, <2>2 DEF ReturnIdle, piVars
<1>7. CASE ReturnFails \/ Input
  <2>1. request'.retryAt = request.retryAt /\ request'.waiting = request.waiting
        /\ request'.compaction = request.compaction /\ request'.phase = request.phase
    BY <1>0, <1>7 DEF ReturnFails, Input, Keep, Request
  <2> QED
    BY <1>1, <1>7, <2>1 DEF ReturnFails, Input, piVars
<1>8. CASE AgentStart
  <2>1. request'.retryAt = request.retryAt /\ ~request'.waiting
        /\ request'.compaction = request.compaction /\ request'.phase = request.phase
    BY <1>0, <1>8 DEF AgentStart, Keep, Report, Request
  <2> QED
    BY <1>0, <1>8, <2>1 DEF AgentStart, RunOK, HandoffOK
<1>9. ASSUME NEW m \in Message, MessageEnd(m) PROVE RunOK' /\ HandoffOK'
  <2>1. request'.retryAt = request.retryAt /\ request'.waiting = request.waiting
        /\ request'.compaction = request.compaction /\ request'.phase = request.phase
    BY <1>0, <1>9 DEF MessageEnd, Keep, Request
  <2> QED
    BY <1>1, <1>9, <2>1 DEF MessageEnd
<1>10. CASE SelfCompact
  <2>1. request'.retryAt = request.retryAt /\ request'.waiting = request.waiting
        /\ request'.compaction \in {None, last.call} /\ request'.phase = request.phase
    BY <1>0, <1>10 DEF SelfCompact, Keep, Request, RequestOK, Active, NoRequest
  <2> QED
    BY <1>0, <1>10, <2>1 DEF SelfCompact, piVars, RunOK, HandoffOK
<1>11. ASSUME NEW waits \in BOOLEAN, RecoveryStatus(waits) PROVE RunOK' /\ HandoffOK'
  <2>1. request'.waiting = request.waiting /\ request'.compaction = request.compaction
    BY <1>0, <1>11 DEF RecoveryStatus, Recovery, Keep, Report, Request
  <2>2. request'.retryAt => waits /\ request.phase = "result"
    <3>1. CASE request.phase = "result"
      BY <1>0, <1>11, <3>1 DEF RecoveryStatus, Recovery, Report, Request
    <3>2. CASE request.phase # "result"
      BY <1>0, <1>11, <3>2 DEF RecoveryStatus, Keep, RunOK
    <3> QED
      BY <3>1, <3>2
  <2>3. request'.phase = request.phase
    BY <1>0, <1>11 DEF RecoveryStatus, Recovery, Keep, Report, Request
  <2> QED
    BY <1>0, <1>11, <2>1, <2>2, <2>3 DEF RecoveryStatus, RunOK, HandoffOK
<1>12. ASSUME NEW toolOk \in BOOLEAN, AgentEnd(toolOk) PROVE RunOK' /\ HandoffOK'
  <2> DEFINE r == [request EXCEPT !.compaction = None, !.failed = FALSE]
  <2>1. r \in Request /\ r.retryAt = request.retryAt /\ r.waiting = request.waiting
        /\ r.compaction = None /\ r.phase = request.phase
    BY <1>0 DEF Request
  <2>2. \/ UNCHANGED request
        \/ request' = [request EXCEPT !.failed = FALSE]
        \/ request' = [r EXCEPT !.failed = TRUE]
        \/ \E v, e, k : Complete(r, v, e, k)
        \/ request' = [r EXCEPT !.main = last.text, !.phase = "retrospective", !.retryAt = FALSE]
    BY <1>12 DEF AgentEnd, outVars, Keep, BeginRetrospective
  <2> HIDE DEF r
  <2>3. /\ request'.retryAt => request.retryAt /\ request'.phase = request.phase
        /\ request'.waiting => request.waiting
        /\ request'.compaction \in {request.compaction, None}
    BY <1>0, <1>2, <2>1, <2>2 DEF Request
  <2> QED
    BY <1>0, <1>12, <2>3 DEF AgentEnd, RunOK, HandoffOK
<1>13. ASSUME NEW f \in Request, f.retryAt = request.retryAt, f.waiting = request.waiting,
              SettleFailure(f), quota = FALSE
       PROVE  ~request'.retryAt /\ request'.compaction \in {f.compaction, None}
  <2>1. ~f.retryAt
    BY <1>0, <1>13 DEF RunOK
  <2>2. request' \in {f, NoRequest, Reported(f)}
    BY <1>13, SettleCases
  <2> QED
    BY <2>1, <2>2, ReportedFields
<1>14. ASSUME NEW drop \in BOOLEAN, AgentSettled(drop) PROVE RunOK' /\ HandoffOK'
  <2> DEFINE pending == handoff.state = "pending"
             f == IF pending /\ drop THEN HandoffFailed(request) ELSE request
  <2>1. f \in Request /\ f.retryAt = request.retryAt /\ f.waiting = request.waiting
    BY <1>0, FailedFields
  <2>2. pending /\ drop => f.compaction = None
    BY <1>0, FailedFields DEF HandoffOK, HandoffMatches
  <2>3. quota' = FALSE /\ run' = "idle"
    BY <1>0, <1>14 DEF AgentSettled, RunOK
  <2>4. ~request'.retryAt /\ request'.compaction \in {f.compaction, None}
    BY <1>0, <1>13, <1>14, <2>1 DEF AgentSettled, RunOK
  <2>5. f.compaction # None => f.compaction = request.compaction /\ ~(pending /\ drop)
    BY <2>2
  <2>6. f.compaction # None => handoff'.state # "none" /\ handoff'.call = request.compaction
    <3>1. CASE ~pending
      BY <1>0, <1>14, <2>5, <3>1 DEF AgentSettled, HandoffOK
    <3>2. CASE pending /\ ~drop
      <4>1. handoff \in [state : {"none", "pending", "compacting"}, call : Calls \cup {None}]
        BY DEF CourseInv, IInv, TypeOK
      <4>2. handoff' = [handoff EXCEPT !.state = "compacting"]
        BY <1>14, <3>2 DEF AgentSettled
      <4> QED
        BY <1>0, <2>5, <4>1, <4>2 DEF HandoffOK
    <3> QED
      BY <2>5, <3>1, <3>2
  <2> HIDE DEF f
  <2> QED
    BY <2>3, <2>4, <2>5, <2>6 DEF RunOK, HandoffOK
<1>15. ASSUME NEW resumed \in BOOLEAN, CompactionEnd(resumed) PROVE RunOK' /\ HandoffOK'
  <2>1. run = "idle" /\ quota = FALSE /\ UNCHANGED <<run, quota>> /\ handoff' = NoHandoff
    BY <1>0, <1>15 DEF CompactionEnd, RunOK
  <2>2. request.compaction # None => HandoffMatches(request)
    BY <1>0 DEF HandoffOK, HandoffMatches
  <2>3. CASE resumed
    <3>1. request'.retryAt = request.retryAt /\ request'.compaction = None
      BY <1>0, <1>15, <2>2, <2>3 DEF CompactionEnd, Keep, Request
    <3> QED
      BY <1>0, <2>1, <3>1 DEF RunOK, HandoffOK, NoHandoff
  <2>4. CASE ~resumed
    <3>1. SettleFailure(HandoffFailed(request))
      BY <1>15, <2>4 DEF CompactionEnd
    <3>2. HandoffFailed(request) \in Request /\ HandoffFailed(request).compaction = None
          /\ HandoffFailed(request).retryAt = request.retryAt
          /\ HandoffFailed(request).waiting = request.waiting
      BY <1>0, <2>2, FailedFields
    <3>3. ~request'.retryAt /\ request'.compaction = None
      BY <1>13, <2>1, <3>1, <3>2
    <3> QED
      BY <2>1, <3>3 DEF RunOK, HandoffOK, NoHandoff
  <2> QED
    BY <2>3, <2>4
<1>16. ASSUME NEW quits \in BOOLEAN, NEW told \in BOOLEAN, SessionShutdown(quits, told)
       PROVE  RunOK' /\ HandoffOK'
  <2>1. request' = NoRequest
    BY <1>16 DEF SessionShutdown, Complete
  <2> QED
    BY <1>16, <2>1 DEF SessionShutdown, NoHandoff, RunOK, HandoffOK
<1>17. CASE \/ TurnEnd \/ PromptRejected \/ CloseStatus \/ Exit \/ Crash \/ RivalCompletes \/ RivalReports
            \/ UNCHANGED vars
  BY <1>0, <1>1, <1>17 DEF TurnEnd, Report, PromptRejected, CloseStatus, Exit, Crash, RivalCompletes, RivalReports,
     vars, outVars, piVars
<1> QED
  BY <1>3, <1>4, <1>5, <1>6, <1>7, <1>8, <1>9, <1>10, <1>11, <1>12, <1>14, <1>15, <1>16, <1>17
     DEF Next, PiNext, CommandNext, ProcessNext

\* A step after which the agent runs, or the request is not pending, cannot leave it stopped.
LEMMA NotStopped == run' = "running" \/ ~Pending' => StopsOK'
BY DEF StopsOK

\* A run that ends, settles or compacts leaves behind why its request has stopped.
LEMMA StepStops == CourseInv /\ [Next]_vars => StopsOK'
<1> SUFFICES ASSUME CourseInv, [Next]_vars PROVE StopsOK'
  OBVIOUS
<1> USE NoCourse
<1>0. request \in Request /\ RequestOK(request) /\ RunOK /\ HandoffOK /\ StopsOK
  BY DEF CourseInv, IInv, TypeOK, Safe
<1>1. ASSUME NEW r, NEW v, NEW e, NEW k, Complete(r, v, e, k) PROVE StopsOK'
  BY <1>1, CompleteCases, NotStopped DEF Pending
<1>2. ASSUME UNCHANGED <<process, run, starting, handback, handoff, resultFile>>,
             prompt = "sent" => prompt' = "sent",
             request'.phase = request.phase, request'.failed = request.failed,
             request'.waiting = request.waiting, request'.returning = request.returning,
             request'.compaction = request.compaction
      PROVE  StopsOK'
  <2>1. Pending' => Pending
    BY <1>2 DEF Pending, Active
  <2>2. HandoffMatches(request) => HandoffMatches(request)'
    BY <1>2 DEF HandoffMatches
  <2> QED
    BY <1>0, <1>2, <2>1, <2>2 DEF StopsOK
<1>3. CASE WorkerRun
  BY <1>3, NotStopped DEF WorkerRun, Pending
<1>4. ASSUME NEW available \in BOOLEAN, ModelSelected(available) PROVE StopsOK'
  <2>1. CASE ~Active
    BY <1>4, <2>1, NotStopped DEF ModelSelected, outVars, Pending, Active
  <2>2. CASE Active /\ available
    BY <1>4, <2>2, NotStopped DEF ModelSelected, Pending
  <2>3. CASE Active /\ ~available
    BY <1>1, <1>4, <2>3 DEF ModelSelected
  <2> QED
    BY <2>1, <2>2, <2>3
<1>5. ASSUME NEW text \in Texts \cup {None}, WorkerReturn(text) PROVE StopsOK'
  <2>1. request'.returning
    BY <1>0, <1>5 DEF WorkerReturn, Keep, Request
  <2> QED
    BY <2>1, NotStopped DEF Pending
<1>6. CASE ReturnIdle
  <2>1. CASE Active
    BY <1>1, <1>6, <2>1 DEF ReturnIdle
  <2>2. CASE ~Active
    BY <1>6, <2>2, NotStopped DEF ReturnIdle, outVars, Pending, Active
  <2> QED
    BY <2>1, <2>2
<1>7. CASE ReturnFails
  BY <1>7, NotStopped DEF ReturnFails, NoHandback, Pending
<1>8. CASE Input
  <2>1. /\ request'.phase = request.phase /\ request'.failed = request.failed
        /\ request'.waiting = request.waiting /\ request'.returning = request.returning
        /\ request'.compaction = request.compaction
    BY <1>0, <1>8 DEF Input, Keep, Request
  <2> QED
    BY <1>2, <1>8, <2>1 DEF Input, Keep
<1>9. CASE \/ AgentStart \/ TurnEnd \/ SelfCompact \/ (\E m \in Message : MessageEnd(m))
           \/ \E waits \in BOOLEAN : RecoveryStatus(waits)
  BY <1>9, NotStopped DEF AgentStart, TurnEnd, SelfCompact, MessageEnd, RecoveryStatus, piVars
<1>10. ASSUME NEW toolOk \in BOOLEAN, AgentEnd(toolOk) PROVE StopsOK'
  <2> DEFINE k == [request EXCEPT !.failed = FALSE]
             r == [request EXCEPT !.compaction = None, !.failed = FALSE]
             f == [r EXCEPT !.failed = TRUE]
  <2>1. f.failed /\ k.compaction = request.compaction
    BY <1>0 DEF Request
  <2>2. \/ ~Active \/ request.returning \/ resultFile # NoResult
        \/ request.compaction # None /\ Keep(k)
        \/ Keep(f)
        \/ \E v, e, m : Complete(r, v, e, m)
        \/ prompt' = "sent"
    BY <1>10 DEF AgentEnd
  <2>3. CASE ~Active \/ request.returning \/ resultFile # NoResult
    BY <1>10, <2>3, NotStopped DEF AgentEnd, outVars, Pending, Active
  <2>4. run' = "ended" /\ handoff' = handoff
    BY <1>10 DEF AgentEnd
  <2>5. CASE request.compaction # None /\ Keep(k)
    <3>1. request'.compaction # None /\ request'.compaction = handoff.call
      BY <1>0, <2>1, <2>5 DEF HandoffOK, Keep
    <3> QED
      BY <2>4, <3>1 DEF StopsOK, HandoffMatches
  <2>6. CASE Keep(f)
    BY <2>1, <2>4, <2>6 DEF StopsOK, Keep
  <2>7. CASE prompt' = "sent"
    BY <2>7, NotStopped DEF Pending
  <2> HIDE DEF k, r, f
  <2> QED
    BY <1>1, <2>2, <2>3, <2>5, <2>6, <2>7
<1>11. ASSUME NEW drop \in BOOLEAN, AgentSettled(drop) PROVE StopsOK'
  <2> DEFINE pending == handoff.state = "pending"
             f == IF pending /\ drop THEN HandoffFailed(request) ELSE request
  <2>1. f \in Request /\ f.phase = request.phase /\ f.returning = request.returning
    BY <1>0, FailedFields
  <2>2. SettleFailure(f) /\ process = "up" /\ prompt = "none" /\ run = "ended"
        /\ run' = "idle" /\ UNCHANGED <<prompt, starting, handback>>
    BY <1>11 DEF AgentSettled
  <2>3. Pending => f.failed \/ (HandoffMatches(request) /\ f = request /\ handoff'.call = handoff.call)
    <3>1. CASE pending /\ drop
      BY <1>0, <2>2, <3>1, FailedFields DEF StopsOK
    <3>2. CASE pending /\ ~drop
      <4>1. handoff'.call = handoff.call
        BY <1>11, <3>2 DEF AgentSettled, CourseInv, IInv, TypeOK
      <4> QED
        BY <1>0, <2>2, <3>2, <4>1 DEF StopsOK
    <3>3. CASE ~pending
      BY <1>0, <1>11, <2>2, <3>3 DEF StopsOK, AgentSettled
    <3> QED
      BY <3>1, <3>2, <3>3
  <2> HIDE DEF f
  <2>4. CASE request' = f /\ UNCHANGED resultFile /\ (f.returning \/ ~f.failed \/ resultFile # NoResult)
    <3>1. ~Pending => ~Pending'
      BY <2>1, <2>2, <2>4 DEF Pending, Active
    <3>2. Pending => ~f.failed
      BY <2>1, <2>4 DEF Pending
    <3> QED
      BY <2>3, <2>4, <3>1, <3>2, NotStopped DEF StopsOK, HandoffMatches
  <2>5. CASE request' = Reported(f)
    BY <2>1, <2>2, <2>5, ReportedFields DEF StopsOK
  <2> QED
    BY <2>1, <2>2, <2>4, <2>5, SettleCases, NotStopped DEF Pending
<1>12. ASSUME NEW resumed \in BOOLEAN, CompactionEnd(resumed) PROVE StopsOK'
  <2>1. CASE resumed
    BY <1>12, <2>1, NotStopped DEF CompactionEnd, Pending
  <2>2. CASE ~resumed
    <3> DEFINE f == HandoffFailed(request)
    <3>1. f \in Request /\ f.phase = request.phase /\ f.returning = request.returning
          /\ f.waiting = request.waiting /\ (HandoffMatches(request) => f.failed)
      BY <1>0, FailedFields
    <3>2. SettleFailure(f) /\ process = "up" /\ run = "idle" /\ UNCHANGED <<run, prompt, starting, handback>>
      BY <1>0, <1>12, <2>2 DEF CompactionEnd, RunOK
    <3>3. Pending => f.failed \/ f.waiting
      BY <1>0, <3>1, <3>2 DEF StopsOK
    <3> HIDE DEF f
    <3>4. CASE request' = f /\ UNCHANGED resultFile /\ (f.returning \/ ~f.failed \/ resultFile # NoResult)
      <4>1. ~Pending => ~Pending'
        BY <3>1, <3>2, <3>4 DEF Pending, Active
      <4>2. Pending => ~f.failed
        BY <3>1, <3>4 DEF Pending
      <4> QED
        BY <3>2, <3>3, <3>4, <4>1, <4>2, NotStopped DEF StopsOK
    <3>5. CASE request' = Reported(f)
      BY <3>1, <3>2, <3>5, ReportedFields DEF StopsOK
    <3> QED
      BY <3>1, <3>2, <3>4, <3>5, SettleCases, NotStopped DEF Pending
  <2> QED
    BY <2>1, <2>2
<1>13. ASSUME NEW quits \in BOOLEAN, NEW told \in BOOLEAN, SessionShutdown(quits, told)
       PROVE  StopsOK'
  <2>1. request' = NoRequest
    BY <1>13 DEF SessionShutdown, Complete
  <2> QED
    BY <2>1, NotStopped DEF Pending, Active
<1>14. CASE PromptRejected \/ RivalReports \/ UNCHANGED vars
  BY <1>2, <1>14 DEF PromptRejected, RivalReports, piVars, outVars, vars
<1>15. CASE CloseStatus \/ Exit \/ Crash \/ RivalCompletes
  BY <1>15, NotStopped DEF CloseStatus, Exit, Crash, RivalCompletes, RivalResult, NoResult, Pending
<1> QED
  BY <1>3, <1>4, <1>5, <1>6, <1>7, <1>8, <1>9, <1>10, <1>11, <1>12, <1>13, <1>14, <1>15
     DEF Next, PiNext, CommandNext, ProcessNext

\* status.json after a handler that leaves alone what it reports,
LEMMA KeepTruthful ==
  ASSUME StatusTruthful, UNCHANGED <<starting, statusFile>>,
         process' = "up" => process = "up",
         resultFile' = NoResult => resultFile = NoResult,
         request'.phase = request.phase, request'.waiting = request.waiting,
         request'.retryAt = request.retryAt
  PROVE  StatusTruthful'
BY DEF StatusTruthful, StatusCurrent, QuotaOrWaiting, Active, StatusOf

\* after one that writes it for the request it leaves,
LEMMA WriteTruthful ==
  ASSUME statusFile' = StatusOf(request'), ~(request'.waiting /\ request'.retryAt),
         request'.waiting \in BOOLEAN
  PROVE  StatusTruthful'
<1>1. statusFile'.retry = request'.retryAt /\ (statusFile'.state = "waiting" => request'.waiting)
  BY DEF StatusOf
<1> QED
  BY <1>1 DEF StatusTruthful, StatusCurrent, QuotaOrWaiting

\* and after one that ends the request, or after a write of another process.
LEMMA EndTruthful ==
  ASSUME StatusTruthful, statusFile' \in {statusFile, Closed, RivalStatus},
         \/ resultFile' # NoResult \/ process' # "up" \/ request'.phase = "none" \/ starting'
         \/ statusFile' = RivalStatus
  PROVE  StatusTruthful'
BY DEF StatusTruthful, StatusCurrent, QuotaOrWaiting, Active, Closed, RivalStatus

\* Every handler that changes what status.json reports rewrites it.
LEMMA StepTruthful == CourseInv /\ [Next]_vars => StatusTruthful'
<1> SUFFICES ASSUME CourseInv, [Next]_vars PROVE StatusTruthful'
  OBVIOUS
<1> USE NoCourse
<1>0. /\ request \in Request /\ RunOK /\ StatusTruthful
      /\ ~(request.waiting /\ request.retryAt) /\ request'.waiting \in BOOLEAN
  BY StepType DEF CourseInv, IInv, TypeOK, Request, RunOK
<1>1. ASSUME NEW r, NEW v, NEW e, NEW k, Complete(r, v, e, k) PROVE StatusTruthful'
  BY <1>0, <1>1, CompleteCases, EndTruthful
<1>2. CASE WorkerRun
  BY <1>0, <1>2, EndTruthful DEF WorkerRun
<1>3. ASSUME NEW available \in BOOLEAN, ModelSelected(available) PROVE StatusTruthful'
  <2>1. CASE ~Active
    BY <1>0, <1>3, <2>1, EndTruthful DEF ModelSelected, outVars, Active
  <2>2. CASE Active /\ available
    BY <1>0, <1>3, <2>2, WriteTruthful DEF ModelSelected
  <2>3. CASE Active /\ ~available
    BY <1>1, <1>3, <2>3 DEF ModelSelected
  <2> QED
    BY <2>1, <2>2, <2>3
<1>4. CASE \/ (\E text \in Texts \cup {None} : WorkerReturn(text)) \/ ReturnFails \/ Input
           \/ \E m \in Message : MessageEnd(m)
  <2>1. request'.phase = request.phase /\ request'.waiting = request.waiting
        /\ request'.retryAt = request.retryAt
    BY <1>0, <1>4 DEF WorkerReturn, ReturnFails, Input, MessageEnd, Keep, Request
  <2> QED
    BY <1>0, <1>4, <2>1, KeepTruthful DEF WorkerReturn, ReturnFails, Input, MessageEnd, Keep
<1>5. CASE ReturnIdle
  BY <1>0, <1>1, <1>5, EndTruthful DEF ReturnIdle, outVars, Active
<1>6. CASE AgentStart
  <2>1. CASE request.waiting
    <3>1. request'.waiting = FALSE /\ request'.retryAt = request.retryAt
      BY <1>0, <1>6, <2>1 DEF AgentStart, Report, Request
    <3> QED
      BY <1>0, <1>6, <2>1, <3>1, WriteTruthful DEF AgentStart, Report
  <2>2. CASE ~request.waiting
    BY <1>0, <1>6, <2>2, KeepTruthful DEF AgentStart, Keep
  <2> QED
    BY <2>1, <2>2
<1>7. CASE TurnEnd
  BY <1>0, <1>7, WriteTruthful DEF TurnEnd, Report
<1>8. CASE SelfCompact
  <2>1. request'.phase = request.phase /\ request'.waiting = request.waiting
        /\ request'.retryAt = request.retryAt
    BY <1>0, <1>8 DEF SelfCompact, Keep, Request
  <2> QED
    BY <1>0, <1>8, <2>1, KeepTruthful DEF SelfCompact, Keep
<1>9. ASSUME NEW waits \in BOOLEAN, RecoveryStatus(waits) PROVE StatusTruthful'
  <2>1. CASE request.phase = "result"
    <3>1. request'.waiting = request.waiting /\ request'.retryAt = waits /\ ~request.waiting
          /\ statusFile' = StatusOf(request')
      BY <1>0, <1>9, <2>1 DEF RecoveryStatus, Recovery, Report, Request, RunOK
    <3> QED
      BY <1>0, <3>1, WriteTruthful
  <2>2. CASE request.phase # "result"
    BY <1>0, <1>9, <2>2, KeepTruthful DEF RecoveryStatus, Keep
  <2> QED
    BY <2>1, <2>2
<1>10. ASSUME NEW toolOk \in BOOLEAN, AgentEnd(toolOk) PROVE StatusTruthful'
  <2> DEFINE k == [request EXCEPT !.failed = FALSE]
             r == [request EXCEPT !.compaction = None, !.failed = FALSE]
             f == [r EXCEPT !.failed = TRUE]
             b == [r EXCEPT !.main = last.text, !.phase = "retrospective", !.retryAt = FALSE]
  <2>1. \A q \in {k, f} : q.phase = request.phase /\ q.waiting = request.waiting
                          /\ q.retryAt = request.retryAt
    BY <1>0 DEF Request
  <2>2. b.retryAt = FALSE
    BY <1>0 DEF Request
  <2>3. \/ UNCHANGED outVars \/ Keep(k) \/ Keep(f) \/ \E v, e, m : Complete(r, v, e, m)
        \/ request' = b /\ statusFile' = StatusOf(b)
    BY <1>10 DEF AgentEnd, BeginRetrospective
  <2>4. UNCHANGED starting
    BY <1>10 DEF AgentEnd
  <2> HIDE DEF k, r, f, b
  <2>5. CASE UNCHANGED outVars
    BY <1>0, <2>4, <2>5, KeepTruthful DEF outVars
  <2>6. CASE Keep(k) \/ Keep(f)
    BY <1>0, <2>1, <2>4, <2>6, KeepTruthful DEF Keep
  <2>7. CASE request' = b /\ statusFile' = StatusOf(b)
    BY <1>0, <2>2, <2>7, WriteTruthful
  <2> QED
    BY <1>1, <2>3, <2>5, <2>6, <2>7
<1>11. ASSUME NEW f \in Request, f.phase = request.phase, f.waiting = request.waiting,
              f.retryAt = request.retryAt, SettleFailure(f), UNCHANGED <<starting, quota>>,
              quota = FALSE
       PROVE  StatusTruthful'
  <2>1. CASE request' = f /\ UNCHANGED <<process, resultFile, statusFile>>
    BY <1>0, <1>11, <2>1, KeepTruthful
  <2>2. CASE resultFile' # NoResult /\ statusFile' = statusFile
    BY <1>0, <2>2, EndTruthful
  <2>3. CASE request' = Reported(f) /\ statusFile' = StatusOf(request')
    <3>1. ~request'.retryAt
      BY <1>0, <1>11, <2>3, ReportedFields DEF RunOK
    <3> QED
      BY <1>0, <2>3, <3>1, WriteTruthful
  <2> QED
    BY <1>11, <2>1, <2>2, <2>3, SettleCases
<1>12. ASSUME NEW drop \in BOOLEAN, AgentSettled(drop) PROVE StatusTruthful'
  BY <1>0, <1>11, <1>12, FailedFields DEF AgentSettled, RunOK, CourseInv, IInv, TypeOK
<1>13. ASSUME NEW resumed \in BOOLEAN, CompactionEnd(resumed) PROVE StatusTruthful'
  <2>1. CASE resumed
    <3>1. request'.phase = request.phase /\ request'.waiting = request.waiting
          /\ request'.retryAt = request.retryAt
      BY <1>0, <1>13, <2>1 DEF CompactionEnd, Keep, Request
    <3> QED
      BY <1>0, <1>13, <2>1, <3>1, KeepTruthful DEF CompactionEnd, Keep
  <2>2. CASE ~resumed
    BY <1>0, <1>11, <1>13, <2>2, FailedFields DEF CompactionEnd, RunOK, CourseInv, IInv, TypeOK
  <2> QED
    BY <2>1, <2>2
<1>14. ASSUME NEW quits \in BOOLEAN, NEW told \in BOOLEAN, SessionShutdown(quits, told)
       PROVE  StatusTruthful'
  <2> DEFINE s == [request EXCEPT !.retryAt = FALSE,
                     !.waiting = @ \/ (told /\ HandoffMatches(request)
                                       /\ ~request.returning /\ resultFile = NoResult)]
  <2>1. StatusOf(s).retry = FALSE
    BY <1>0 DEF Request, StatusOf
  <2>2. \/ \E v, e, k : Complete(request, v, e, k)
        \/ request' = NoRequest /\ statusFile' \in {statusFile, StatusOf(s)}
    BY <1>14 DEF SessionShutdown
  <2> HIDE DEF s
  <2>3. CASE request' = NoRequest /\ statusFile' = StatusOf(s)
    BY <2>1, <2>3 DEF StatusTruthful, StatusCurrent, QuotaOrWaiting, Active
  <2> QED
    BY <1>0, <1>1, <2>2, <2>3, EndTruthful
<1>15. CASE CloseStatus \/ Exit \/ Crash \/ RivalCompletes \/ RivalReports
  BY <1>0, <1>15, EndTruthful DEF CloseStatus, Exit, Crash, RivalCompletes, RivalReports, RivalResult, NoResult
<1>16. CASE PromptRejected \/ UNCHANGED vars
  BY <1>0, <1>16, KeepTruthful DEF PromptRejected, outVars, vars
<1> QED
  BY <1>2, <1>3, <1>4, <1>5, <1>6, <1>7, <1>8, <1>9, <1>10, <1>12, <1>13, <1>14, <1>15, <1>16
     DEF Next, PiNext, CommandNext, ProcessNext

\* A worker starts idle, without a request and without a status.
LEMMA InitCourse == Init => CourseInv
BY InitIInv, NoCourse
   DEF Init, CourseInv, RunOK, HandoffOK, StopsOK, Pending, Active, StatusTruthful, StatusCurrent,
       QuotaOrWaiting, NoHandoff, NoStatus

\* The course of a run is accounted for in every state of a worker.
LEMMA CourseInvariant == Spec => []CourseInv
<1>1. CourseInv /\ [Next]_vars => CourseInv'
  BY StepType, StepSafe, StepHandback, StepRun, StepStops, StepTruthful DEF CourseInv, IInv
<1> QED
  BY <1>1, InitCourse, PTL DEF Spec

\* writeStatusUpdate: while a started request is unfinished status.json says what the worker
\* is in, unless another process wrote it last, and never a quota wait and a wait for a human
\* at once.
THEOREM StatusIsTruthful == Spec => []StatusTruthful
BY CourseInvariant, PTL DEF CourseInv

\* A worker that has stopped on an unfinished request, with nothing left to run, is reported
\* as waiting for a human, whatever stopped it but a /worker-return whose abort failed, unless
\* another process has written over that.
THEOREM StopsAreReported == Spec => []StoppedWorkerWaits
<1>1. CourseInv => StoppedWorkerWaits
  <2> SUFFICES ASSUME CourseInv, Stopped, handback.state # "lost" 
               PROVE  statusFile.state \in {"waiting", "rival"}
    BY DEF StoppedWorkerWaits
  <2>1. Pending /\ run = "idle" /\ statusFile \in {StatusOf(request), RivalStatus}
    BY DEF Stopped, Pending, CourseInv, StatusTruthful, StatusCurrent
  <2>2. ~HandoffMatches(request)
    BY DEF Stopped, CourseInv, HandoffOK, HandoffMatches
  <2>3. request.waiting
    BY <2>1, <2>2 DEF CourseInv, StopsOK
  <2> QED
    BY <2>1, <2>3 DEF StatusOf, RivalStatus
<1> QED
  BY <1>1, CourseInvariant, PTL

-----------------------------------------------------------------------------
(* The worker implements WorkerArtifacts *)

ArtifactStep == [Artifacts!ArtifactsNext]_(Artifacts!artifactVars)

\* A step that writes neither file and does not end the process is none the parent can see.
LEMMA QuietStep == UNCHANGED <<process, resultFile, statusFile>> => ArtifactStep
BY DEF ArtifactStep, Artifacts!artifactVars

\* A status written by a request is never "closed".
LEMMA ReportStep ==
  ASSUME process = "up", NEW r, statusFile' = StatusOf(r), UNCHANGED <<process, resultFile>>
  PROVE  ArtifactStep
<1>1. statusFile'.state \notin {"none", "closed", "rival"}
  BY DEF StatusOf
<1>2. Artifacts!WriteStatus
  BY <1>1 DEF Artifacts!WriteStatus
<1> QED
  BY <1>2 DEF ArtifactStep, Artifacts!ArtifactsNext, Artifacts!WorkerStep

\* A completion publishes a success or an error, once.
LEMMA CompleteStep ==
  ASSUME process = "up", NEW r, NEW v, NEW e \in BOOLEAN, NEW k, Complete(r, v, e, k),
         ~e => v \in Replies \cup Texts \cup {None}
  PROVE  ArtifactStep
<1>1. CASE resultFile = NoResult
  <2>1. resultFile' = Payload(r, v, e, k) /\ process' = "closing" /\ statusFile' = statusFile
    BY <1>1 DEF Complete
  <2>2. resultFile' # NoResult /\ resultFile'.isError = e /\ resultFile'.result = v
    BY <2>1 DEF Payload, NoResult
  <2>3. Artifacts!Publish(ArtifactOf(resultFile'))
    BY <1>1, <2>1 DEF Artifacts!Publish, ArtifactOf
  <2>4. ArtifactOf(resultFile') \in Artifacts!Results
    BY <2>2 DEF ArtifactOf, Artifacts!Results
  <2> QED
    BY <2>3, <2>4 DEF ArtifactStep, Artifacts!ArtifactsNext, Artifacts!WorkerStep
<1>2. CASE resultFile # NoResult
  BY <1>2, QuietStep DEF Complete, Keep
<1> QED
  BY <1>1, <1>2

\* A settled failure reports that the worker waits, or completes its retrospective.
LEMMA SettleStep ==
  ASSUME process = "up", NEW r \in Request, SettleFailure(r) PROVE ArtifactStep
<1>1. r.main \in Replies \cup {None}
  BY DEF Request
<1>2. CASE Keep(r)
  BY <1>2, QuietStep DEF Keep
<1>3. CASE Complete([r EXCEPT !.failed = FALSE], r.main, FALSE, "unavailable")
  BY <1>1, <1>3, CompleteStep
<1>4. CASE Report([r EXCEPT !.failed = FALSE, !.waiting = TRUE])
  BY <1>4, ReportStep DEF Report
<1> QED
  BY <1>2, <1>3, <1>4 DEF SettleFailure

\* Every step of the worker is one its parent is prepared for.
LEMMA StepArtifacts == IInv /\ [Next]_vars => ArtifactStep
<1> SUFFICES ASSUME IInv, [Next]_vars PROVE ArtifactStep
  OBVIOUS
<1>0. request \in Request /\ request.main \in Replies \cup {None}
      /\ handback.result \in Replies \cup Texts \cup {None}
  BY DEF IInv, TypeOK, Request, Handback
<1>1. CASE CommandNext
  <2>1. ASSUME NEW available \in BOOLEAN, ModelSelected(available) PROVE ArtifactStep
    <3>1. \/ UNCHANGED <<process, resultFile, statusFile>>
          \/ statusFile' = StatusOf(request) /\ UNCHANGED <<process, resultFile>>
          \/ Complete(request, "error", TRUE, "none")
      BY <2>1 DEF ModelSelected, outVars
    <3>2. process = "up"
      BY <2>1 DEF ModelSelected
    <3> QED
      BY <3>1, <3>2, QuietStep, ReportStep, CompleteStep
  <2>2. CASE ReturnIdle
    <3>1. \/ UNCHANGED <<process, resultFile, statusFile>>
          \/ \E k \in {"text", "none"} :
               Complete([request EXCEPT !.early = (request.main = None)], handback.result, FALSE, k)
      BY <2>2 DEF ReturnIdle, outVars
    <3>2. process = "up"
      BY <2>2 DEF ReturnIdle
    <3> QED
      BY <1>0, <3>1, <3>2, QuietStep, CompleteStep
  <2>3. CASE WorkerRun \/ ReturnFails \/ \E text \in Texts \cup {None} : WorkerReturn(text)
    BY <2>3, QuietStep DEF WorkerRun, ReturnFails, WorkerReturn, Keep
  <2> QED
    BY <1>1, <2>1, <2>2, <2>3 DEF CommandNext
<1>2. ASSUME NEW toolOk \in BOOLEAN, AgentEnd(toolOk) PROVE ArtifactStep
  <2> DEFINE r == [request EXCEPT !.compaction = None, !.failed = FALSE]
  <2>1. r.main \in Replies \cup {None}
    BY <1>0 DEF Request
  <2>2. \/ UNCHANGED <<process, resultFile, statusFile>>
        \/ \E k \in {"text", "unavailable"} : Complete(r, r.main, FALSE, k)
        \/ Complete(r, "error", TRUE, "none")
        \/ BeginRetrospective(r, last.text)
    BY <1>2 DEF AgentEnd, Keep, outVars
  <2>3. process = "up"
    BY <1>2 DEF AgentEnd
  <2> HIDE DEF r
  <2>4. CASE BeginRetrospective(r, last.text)
    BY <2>3, <2>4, ReportStep DEF BeginRetrospective
  <2> QED
    BY <2>1, <2>2, <2>3, <2>4, QuietStep, CompleteStep
<1>3. HandoffFailed(request) \in Request
  BY <1>0 DEF HandoffFailed, Request
<1>4. ASSUME NEW drop \in BOOLEAN, AgentSettled(drop) PROVE ArtifactStep
  BY <1>0, <1>3, <1>4, SettleStep DEF AgentSettled
<1>5. ASSUME NEW resumed \in BOOLEAN, CompactionEnd(resumed) PROVE ArtifactStep
  BY <1>3, <1>5, SettleStep, QuietStep DEF CompactionEnd, Keep
<1>6. CASE Input \/ PromptRejected \/ SelfCompact \/ (\E m \in Message : MessageEnd(m))
  BY <1>6, QuietStep DEF Input, PromptRejected, SelfCompact, MessageEnd, Keep, outVars
<1>7. CASE AgentStart \/ TurnEnd \/ \E waits \in BOOLEAN : RecoveryStatus(waits)
  BY <1>7, QuietStep, ReportStep DEF AgentStart, TurnEnd, RecoveryStatus, Recovery, Keep, Report
<1>8. ASSUME NEW quits \in BOOLEAN, NEW told \in BOOLEAN, SessionShutdown(quits, told)
      PROVE  ArtifactStep
  <2>1. CASE Complete(request, request.main, FALSE, "unavailable")
    BY <1>0, <1>8, <2>1, CompleteStep DEF SessionShutdown
  <2> DEFINE r == [request EXCEPT !.retryAt = FALSE,
                     !.waiting = @ \/ (told /\ HandoffMatches(request)
                                       /\ ~request.returning /\ resultFile = NoResult)]
  <2>2. CASE /\ statusFile' = (IF ~Active THEN statusFile ELSE StatusOf(r))
             /\ process' = (IF quits THEN "gone" ELSE "up")
             /\ UNCHANGED resultFile
    <3>0. process = "up"
      BY <1>8 DEF SessionShutdown
    <3>1. CASE ~quits
      BY <2>2, <3>0, <3>1, QuietStep, ReportStep
    <3>2. CASE quits
      <4>1. statusFile' = statusFile \/ statusFile'.state \notin {"none", "closed", "rival"}
        BY <2>2 DEF StatusOf
      <4>2. Artifacts!Stop
        BY <2>2, <3>0, <3>2, <4>1 DEF Artifacts!Stop
      <4> QED
        BY <4>2 DEF ArtifactStep, Artifacts!ArtifactsNext, Artifacts!WorkerStep
    <3> QED
      BY <3>1, <3>2
  <2> QED
    BY <1>8, <2>1, <2>2 DEF SessionShutdown
<1>9. CASE CloseStatus
  <2>1. resultFile # NoResult
    BY <1>9 DEF CloseStatus, IInv, Safe, PublishedOK
  <2>2. ArtifactOf(resultFile) # "no result"
    BY <2>1, FrameAssumption DEF ArtifactOf, IInv, TypeOK, Result
  <2>3. Artifacts!WriteClosed
    BY <1>9, <2>2 DEF CloseStatus, Closed, Artifacts!WriteClosed
  <2> QED
    BY <2>3 DEF ArtifactStep, Artifacts!ArtifactsNext, Artifacts!WorkerStep
<1>10. CASE Exit \/ Crash
  <2>1. Artifacts!Stop
    BY <1>10 DEF Exit, Crash, Artifacts!Stop
  <2> QED
    BY <2>1 DEF ArtifactStep, Artifacts!ArtifactsNext, Artifacts!WorkerStep
<1>11. CASE RivalCompletes
  <2>1. ArtifactOf(resultFile') = None /\ None \in Artifacts!Results
    BY <1>11 DEF RivalCompletes, ArtifactOf, RivalResult, NoResult, Artifacts!Results
  <2>2. Artifacts!ForeignPublish(None)
    BY <1>11, <2>1 DEF RivalCompletes, ArtifactOf, Artifacts!ForeignPublish
  <2> QED
    BY <2>1, <2>2 DEF ArtifactStep, Artifacts!ArtifactsNext, Artifacts!ForeignStep
<1>12. CASE RivalReports
  <2>1. Artifacts!ForeignWrite
    BY <1>12 DEF RivalReports, RivalStatus, Artifacts!ForeignWrite
  <2> QED
    BY <2>1 DEF ArtifactStep, Artifacts!ArtifactsNext, Artifacts!ForeignStep
<1>13. CASE UNCHANGED vars
  BY <1>13, QuietStep DEF vars
<1> QED
  BY <1>1, <1>2, <1>4, <1>5, <1>6, <1>7, <1>8, <1>9, <1>10, <1>11, <1>12, <1>13
     DEF Next, PiNext, ProcessNext

\* worker-frame.ts keeps every promise that its parent, waitForWorkerResult, relies on.
THEOREM ArtifactsImplemented == Spec => ImplementsArtifacts
<1>1. Init => Artifacts!ArtifactsInit
  BY DEF Init, Artifacts!ArtifactsInit, NoStatus, ArtifactOf
<1> QED
  BY <1>1, StepArtifacts, Invariant, PTL
     DEF Spec, ImplementsArtifacts, Artifacts!ArtifactsSpec, ArtifactStep
=============================================================================
