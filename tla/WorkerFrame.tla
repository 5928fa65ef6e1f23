----------------------------- MODULE WorkerFrame -----------------------------
(***************************************************************************)
(* One worker process: Pi running the worker-frame extension               *)
(* (orchestration/worker-frame.ts) together with self_compact              *)
(* (extensions/self-compact.ts), from `/worker-run` to the end of the      *)
(* process.  A handler of either extension runs to completion, so it is    *)
(* one action here; an `await` inside a handler ends the action and the    *)
(* rest of the handler is another one (ModelSelected, ReturnIdle).         *)
(*                                                                         *)
(* Pi itself is external.  It is modelled by the events the handlers       *)
(* subscribe to: agent_start, message_end, turn_end, agent_end,            *)
(* agent_settled, input and session_shutdown.                              *)
(***************************************************************************)
EXTENDS Naturals

CONSTANTS
  Replies,       \* assistant texts
  Texts,         \* texts a human gives to /worker-return
  Calls,         \* ids of self_compact tool calls
  None,          \* an absent text or id
  MaxInputs      \* bound: messages a human types into one request

ASSUME FrameAssumption ==
  /\ None \notin Replies \cup Texts \cup Calls
  /\ {"error", "no result"} \cap (Replies \cup Texts \cup {None}) = {}
  /\ MaxInputs \in Nat

VARIABLES
  process,    \* "up", "closing" (result.json linked), "exiting" (shutdown asked), "gone"
  run,        \* Pi's agent run: "running", "ended" (before agent_settled), "idle"
  prompt,     \* a prompt Pi has not started yet: "none", "typed" by a human, "sent" by an extension
  last,       \* latest assistant message of the run
  quota,      \* the provider waits for quota inside its request
  allowed,    \* the recovery policy last published to the provider
  request,    \* activeRequest
  starting,   \* /worker-run awaits setModel
  handback,   \* what a /worker-return in progress will publish; "lost" once its abort failed
  handoff,    \* self_compact's pending handoff
  resultFile, \* result.json
  statusFile, \* status.json
  heard       \* history: messages a human has typed since the request became active

piVars == <<run, prompt, last, quota>>
outVars == <<process, allowed, request, resultFile, statusFile>>
vars == <<process, run, prompt, last, quota, allowed, request, starting,
          handback, handoff, resultFile, statusFile, heard>>

Stops == {"toolUse", "stop", "error", "aborted", "length"}
Message == [stop : Stops, text : Replies \cup {None}, call : {None}]
           \cup [stop : {"toolUse"}, text : Replies \cup {None}, call : Calls]
NoMessage == [stop |-> "none", text |-> None, call |-> None]

Request == [phase : {"none", "result", "retrospective"},
            main : Replies \cup {None}, latest : Replies \cup {None},
            failed : BOOLEAN, waiting : BOOLEAN, retryAt : BOOLEAN,
            returning : BOOLEAN, compaction : Calls \cup {None},
            guidance : Nat, early : BOOLEAN]
NoRequest == [phase |-> "none", main |-> None, latest |-> None,
              failed |-> FALSE, waiting |-> FALSE, retryAt |-> FALSE,
              returning |-> FALSE, compaction |-> None,
              guidance |-> 0, early |-> FALSE]
Active == request.phase # "none"

Status == [state : {"none", "running", "waiting", "retrospective", "closed", "rival"},
           retry : BOOLEAN]
NoStatus == [state |-> "none", retry |-> FALSE]
Closed == [state |-> "closed", retry |-> FALSE]
\* Whatever another process writes, with its own PID.
RivalStatus == [state |-> "rival", retry |-> FALSE]
StatusOf(r) ==
  [state |-> IF r.waiting THEN "waiting"
             ELSE IF r.phase = "result" THEN "running" ELSE "retrospective",
   retry |-> r.retryAt]

Result == [by : {"self", "rival"}, result : Replies \cup Texts \cup {"error", None},
           isError : BOOLEAN, retrospective : {"none", "text", "unavailable"},
           guidance : Nat, early : BOOLEAN]
NoResult == [by |-> "none", result |-> None, isError |-> FALSE,
             retrospective |-> "none", guidance |-> 0, early |-> FALSE]
RivalResult == [NoResult EXCEPT !.by = "rival"]

Handback == [state : {"none", "held", "lost"},
             result : Replies \cup Texts \cup {None}, text : Texts \cup {None}]
NoHandback == [state |-> "none", result |-> None, text |-> None]
NoHandoff == [state |-> "none", call |-> None]

-----------------------------------------------------------------------------
(***************************************************************************)
(* What a handler leaves behind.  Each of these fixes the five variables   *)
(* of outVars for the request value r it is given.                         *)
(***************************************************************************)
Keep(r) ==
  /\ request' = r
  /\ UNCHANGED <<process, allowed, resultFile, statusFile>>

\* Wrong: leaves status.json to the next turn_end.
ReportLate(r) == Keep(r)

\* The handler changed what status.json reports and rewrote it.
Report(r) ==
  /\ request' = r
  /\ statusFile' = StatusOf(r)
  /\ UNCHANGED <<process, allowed, resultFile>>

\* Wrong: the provider may still wait for quota in the retrospective.
BeginUnannounced(r, reply) ==
  LET saved == [r EXCEPT !.main = reply, !.phase = "retrospective", !.retryAt = FALSE]
  IN  Report(saved)

\* The first final reply is saved; the reply to the retrospective prompt ends the request.
BeginRetrospective(r, reply) ==
  LET saved == [r EXCEPT !.main = reply, !.phase = "retrospective", !.retryAt = FALSE]
  IN  /\ request' = saved
      /\ allowed' = FALSE
      /\ statusFile' = StatusOf(saved)
      /\ UNCHANGED <<process, resultFile>>

\* Wrong: forgets the messages typed before the retrospective.
PayloadLosingGuidance(r, result, isError, retrospective) ==
  [by |-> "self", result |-> result, isError |-> isError, retrospective |-> retrospective,
   guidance |-> IF r.main = None THEN r.guidance ELSE 0, early |-> r.early]

Payload(r, result, isError, retrospective) ==
  [by |-> "self", result |-> result, isError |-> isError,
   retrospective |-> retrospective, guidance |-> r.guidance, early |-> r.early]

\* Wrong: renames over a result another process has published.
CompleteReplacing(r, result, isError, retrospective) ==
  /\ resultFile' = Payload(r, result, isError, retrospective)
  /\ request' = NoRequest /\ allowed' = TRUE /\ process' = "closing"
  /\ UNCHANGED statusFile

\* result.json is linked under its final name and never replaces a file: if one is
\* there the handler throws and the request stays as it is.
Complete(r, result, isError, retrospective) ==
  IF resultFile = NoResult
  THEN /\ resultFile' = Payload(r, result, isError, retrospective)
       /\ request' = NoRequest
       /\ allowed' = TRUE
       /\ process' = "closing"
       /\ UNCHANGED statusFile
  ELSE Keep(r)

\* A main run that failed waits for a human; a failed retrospective ends the request.
SettleFailure(r) ==
  IF r.returning \/ ~r.failed \/ resultFile # NoResult THEN Keep(r)
  ELSE IF r.phase = "retrospective"
       THEN Complete([r EXCEPT !.failed = FALSE], r.main, FALSE, "unavailable")
       ELSE Report([r EXCEPT !.failed = FALSE, !.waiting = TRUE])

HandoffMatches(r) == r.compaction # None /\ r.compaction = handoff.call

\* Wrong: a dropped handoff is no failure of the run.
HandoffForgotten(r) == IF HandoffMatches(r) THEN [r EXCEPT !.compaction = None] ELSE r

\* The event of a handoff that was dropped, seen by the request that waits for it.
HandoffFailed(r) ==
  IF HandoffMatches(r) THEN [r EXCEPT !.compaction = None, !.failed = TRUE] ELSE r

-----------------------------------------------------------------------------
(* Commands *)

WorkerRun ==
  /\ process = "up" /\ run = "idle"
  /\ ~Active /\ resultFile = NoResult
  /\ request' = [NoRequest EXCEPT !.phase = "result"]
  /\ starting' = TRUE
  /\ heard' = 0
  /\ UNCHANGED <<process, piVars, allowed, handback, handoff, resultFile, statusFile>>

\* setModel has answered.  A request completed meanwhile is not started.
ModelSelected(available) ==
  /\ process = "up" /\ starting
  /\ starting' = FALSE
  /\ IF ~Active THEN UNCHANGED <<outVars, prompt>>
     ELSE IF available
          THEN /\ allowed' = (request.phase # "retrospective")
               /\ statusFile' = StatusOf(request)
               /\ prompt' = IF run = "running" THEN prompt ELSE "sent"
               /\ UNCHANGED <<process, request, resultFile>>
          ELSE Complete(request, "error", TRUE, "none") /\ UNCHANGED prompt
  /\ UNCHANGED <<run, last, quota, handback, handoff, heard>>

\* Wrong: the human's text replaces a main result that was saved.
ReturnText(text) == IF text # None THEN text ELSE request.latest

\* /worker-return: the result is chosen before the abort, the request is held until it settles.
ReturnValue(text) ==
  IF request.main # None THEN request.main
  ELSE IF text # None THEN text ELSE request.latest

WorkerReturn(text) ==
  /\ process = "up"
  /\ Active /\ ~request.returning
  /\ ReturnValue(text) # None
  /\ handback' = [state |-> "held", result |-> ReturnValue(text), text |-> text]
  /\ Keep([request EXCEPT !.returning = TRUE])
  /\ UNCHANGED <<piVars, starting, handoff, heard>>

\* Pi is idle: the held request is published, unless it is no longer the active one.
ReturnIdle ==
  /\ process = "up" /\ run # "running"
  /\ handback.state = "held"
  /\ handback' = NoHandback
  /\ IF ~Active THEN UNCHANGED outVars
     ELSE Complete([request EXCEPT !.early = (request.main = None)], handback.result, FALSE,
                   IF request.main # None /\ handback.text # None THEN "text" ELSE "none")
  /\ UNCHANGED <<piVars, starting, handoff, heard>>

\* abort() or waitForIdle() rejects: the request is released.
ReturnFails ==
  /\ process = "up" /\ handback.state = "held"
  /\ handback' = [NoHandback EXCEPT !.state = "lost"]
  /\ Keep([request EXCEPT !.returning = FALSE])
  /\ UNCHANGED <<piVars, starting, handoff, heard>>

-----------------------------------------------------------------------------
(* Pi's events *)

\* A human types a message.  Pi refuses it, before the event, while it compacts.
Input ==
  /\ process = "up" /\ Active
  /\ handoff.state # "compacting"
  /\ heard < MaxInputs
  /\ heard' = heard + 1
  /\ Keep([request EXCEPT !.guidance = @ + 1])
  /\ prompt' = IF run = "running" \/ prompt # "none" THEN prompt ELSE "typed"
  /\ UNCHANGED <<run, last, quota, starting, handback, handoff>>

\* Pi rejects a typed prompt after the input event (no credentials, for instance).
PromptRejected ==
  /\ process = "up" /\ run = "idle" /\ prompt = "typed"
  /\ prompt' = "none"
  /\ UNCHANGED <<outVars, run, last, quota, starting, handback, handoff, heard>>

\* A run starts on a prompt, or Pi retries a run that ended with an error.
AgentStart ==
  /\ process = "up" /\ run # "running"
  /\ handoff.state # "compacting"
  /\ prompt # "none" \/ (run = "ended" /\ last.stop = "error")
  /\ run' = "running"
  /\ prompt' = "none"
  /\ last' = NoMessage
  /\ IF request.waiting THEN Report([request EXCEPT !.waiting = FALSE]) ELSE Keep(request)
  /\ UNCHANGED <<quota, starting, handback, handoff, heard>>

MessageEnd(m) ==
  /\ process = "up" /\ run = "running" /\ ~quota
  /\ last' = m
  /\ Keep(IF Active /\ m.text # None THEN [request EXCEPT !.latest = m.text] ELSE request)
  /\ UNCHANGED <<run, prompt, quota, starting, handback, handoff, heard>>

TurnEnd ==
  /\ process = "up" /\ run = "running"
  /\ Active
  /\ Report(request)
  /\ UNCHANGED <<piVars, starting, handback, handoff, heard>>

\* self_compact executes: the note is kept and the request is told before the run ends.
SelfCompact ==
  /\ process = "up" /\ run = "running"
  /\ last.call # None /\ handoff.call # last.call
  /\ handoff' = [state |-> "pending", call |-> last.call]
  /\ Keep(IF Active THEN [request EXCEPT !.compaction = last.call] ELSE request)
  /\ UNCHANGED <<piVars, starting, handback, heard>>

\* What the request knows of the provider's waiting.
Recovery(waits) == [request EXCEPT !.retryAt = waits]

\* The provider reports that it starts, or stops, waiting for quota.
RecoveryStatus(waits) ==
  /\ process = "up" /\ run = "running"
  /\ quota # waits
  /\ waits => allowed
  /\ quota' = waits
  /\ IF request.phase = "result" THEN Report(Recovery(waits)) ELSE Keep(request)
  /\ UNCHANGED <<run, prompt, last, starting, handback, handoff, heard>>

\* agent_end; toolOk: the handoff's tool result is in the run and is no error.
AgentEnd(toolOk) ==
  LET kept == toolOk /\ request.compaction # None /\ last.call = request.compaction
      r == [request EXCEPT !.compaction = None, !.failed = FALSE]
  IN  /\ process = "up" /\ run = "running" /\ ~quota
      /\ run' = "ended"
      /\ IF ~Active \/ request.returning \/ resultFile # NoResult
         THEN UNCHANGED <<outVars, prompt>>
         ELSE \/ /\ kept
                 /\ Keep([request EXCEPT !.failed = FALSE])
                 /\ UNCHANGED prompt
              \/ /\ ~kept /\ last.stop \in {"none", "toolUse", "error", "aborted"}
                 /\ Keep([r EXCEPT !.failed = TRUE])
                 /\ UNCHANGED prompt
              \/ /\ last.stop \in {"stop", "length"} /\ request.phase = "retrospective"
                 /\ Complete(r, r.main, FALSE,
                             IF last.stop = "stop" /\ last.text # None THEN "text" ELSE "unavailable")
                 /\ UNCHANGED prompt
              \/ /\ last.stop = "stop" /\ last.text # None /\ request.phase = "result"
                 /\ BeginRetrospective(r, last.text)
                 /\ prompt' = "sent"
              \/ /\ last.stop \in {"stop", "length"} /\ request.phase = "result"
                 /\ last.stop = "stop" => last.text = None
                 /\ Complete(r, "error", TRUE, "none")
                 /\ UNCHANGED prompt
      /\ UNCHANGED <<last, quota, starting, handback, handoff, heard>>

\* agent_settled, for both extensions: a pending handoff starts compacting or, when it
\* was cancelled or the conversation moved on, is dropped.
AgentSettled(drop) ==
  LET pending == handoff.state = "pending"
  IN  /\ process = "up" /\ run = "ended" /\ prompt = "none"
      /\ run' = "idle"
      /\ handoff' = IF ~pending THEN handoff
                    ELSE IF drop THEN NoHandoff ELSE [handoff EXCEPT !.state = "compacting"]
      /\ SettleFailure(IF pending /\ drop THEN HandoffFailed(request) ELSE request)
      /\ UNCHANGED <<prompt, last, quota, starting, handback, heard>>

\* Native compaction answers, after agent_settled.
CompactionEnd(resumed) ==
  /\ process = "up" /\ handoff.state = "compacting"
  /\ handoff' = NoHandoff
  /\ IF resumed
     THEN /\ prompt' = "sent"
          /\ Keep(IF HandoffMatches(request) THEN [request EXCEPT !.compaction = None] ELSE request)
     ELSE SettleFailure(HandoffFailed(request)) /\ UNCHANGED prompt
  /\ UNCHANGED <<run, last, quota, starting, handback, heard>>

\* session_shutdown: the process quits, or reloads its extensions when idle.  self_compact
\* drops its handoff before (told) or after the worker frame has stopped listening.
SessionShutdown(quits, told) ==
  LET failing == told /\ HandoffMatches(request) /\ ~request.returning /\ resultFile = NoResult
  IN  /\ process = "up"
      /\ quits \/ run = "idle"
      /\ IF failing /\ request.phase = "retrospective"
         THEN Complete(request, request.main, FALSE, "unavailable")
         ELSE /\ request' = NoRequest
              /\ allowed' = TRUE
              /\ statusFile' = IF ~Active THEN statusFile
                               ELSE StatusOf([request EXCEPT !.retryAt = FALSE,
                                                             !.waiting = @ \/ failing])
              /\ process' = IF quits THEN "gone" ELSE "up"
              /\ UNCHANGED resultFile
      /\ run' = "idle" /\ prompt' = "none" /\ last' = NoMessage /\ quota' = FALSE
      /\ starting' = FALSE /\ handback' = NoHandback /\ handoff' = NoHandoff
      /\ UNCHANGED heard

-----------------------------------------------------------------------------
(* The end of the process, and another process *)

\* The rest of completeWorkerRequest: status.json says closed and Pi is asked to quit.
CloseStatus ==
  /\ process = "closing"
  /\ statusFile' = Closed
  /\ process' = "exiting"
  /\ UNCHANGED <<piVars, allowed, request, starting, handback, handoff, resultFile, heard>>

Exit ==
  /\ process = "exiting"
  /\ process' = "gone"
  /\ UNCHANGED <<piVars, allowed, request, starting, handback, handoff,
                 resultFile, statusFile, heard>>

Crash ==
  /\ process # "gone"
  /\ process' = "gone"
  /\ UNCHANGED <<piVars, allowed, request, starting, handback, handoff,
                 resultFile, statusFile, heard>>

\* A second Pi process in which a human ran /worker-run on the same request file: it
\* publishes a result, ...
RivalCompletes ==
  /\ resultFile = NoResult
  /\ resultFile' = RivalResult
  /\ UNCHANGED <<process, piVars, allowed, request, starting, handback, handoff, statusFile, heard>>

\* ... and writes status.json when it starts, at the end of each turn, and when it is done.
RivalReports ==
  /\ statusFile' = RivalStatus
  /\ UNCHANGED <<process, piVars, allowed, request, starting, handback, handoff, resultFile, heard>>

-----------------------------------------------------------------------------
Init ==
  /\ process = "up" /\ run = "idle" /\ prompt = "none"
  /\ last = NoMessage /\ quota = FALSE /\ allowed = TRUE
  /\ request = NoRequest /\ starting = FALSE
  /\ handback = NoHandback /\ handoff = NoHandoff
  /\ resultFile = NoResult /\ statusFile = NoStatus
  /\ heard = 0

PiNext ==
  \/ Input \/ PromptRejected \/ AgentStart \/ TurnEnd \/ SelfCompact
  \/ \E m \in Message : MessageEnd(m)
  \/ \E waits \in BOOLEAN : RecoveryStatus(waits)
  \/ \E toolOk \in BOOLEAN : AgentEnd(toolOk)
  \/ \E drop \in BOOLEAN : AgentSettled(drop)
  \/ \E resumed \in BOOLEAN : CompactionEnd(resumed)

CommandNext ==
  \/ WorkerRun \/ ReturnIdle \/ ReturnFails
  \/ \E available \in BOOLEAN : ModelSelected(available)
  \/ \E text \in Texts \cup {None} : WorkerReturn(text)

ProcessNext ==
  \/ \E quits, told \in BOOLEAN : SessionShutdown(quits, told)
  \/ CloseStatus \/ Exit \/ Crash \/ RivalCompletes \/ RivalReports

Next == PiNext \/ CommandNext \/ ProcessNext

Spec == Init /\ [][Next]_vars

-----------------------------------------------------------------------------
\* Every variable keeps its type.
TypeOK ==
  /\ process \in {"up", "closing", "exiting", "gone"}
  /\ run \in {"idle", "running", "ended"}
  /\ prompt \in {"none", "typed", "sent"}
  /\ last \in Message \cup {NoMessage}
  /\ quota \in BOOLEAN /\ allowed \in BOOLEAN /\ starting \in BOOLEAN
  /\ request \in Request
  /\ handback \in Handback
  /\ handoff \in [state : {"none", "pending", "compacting"}, call : Calls \cup {None}]
  /\ resultFile \in Result \cup {NoResult}
  /\ statusFile \in Status
  /\ heard \in 0..MaxInputs

(***************************************************************************)
(* Safety.  The hazard each property is about is a handler running at a    *)
(* moment another one did not expect: between the capture and the          *)
(* completion of a /worker-return, after a saved main result, after        *)
(* agent_settled, or with another process on the same request.             *)
(***************************************************************************)

\* Once the task has been handed to the model, whatever ends the request - retrospective,
\* failure of the retrospective, /worker-return, dropped handoff - publishes the main result
\* that was saved, as a success; and the saved result does not change before that.
MainResultDelivered ==
  [][request.main # None /\ ~starting =>
       /\ request'.main # None => request'.main = request.main
       /\ resultFile' # resultFile /\ resultFile'.by = "self" =>
            resultFile'.result = request.main /\ ~resultFile'.isError]_vars

\* A success that is not the worker's own final reply says so: the parent can tell an
\* early hand-back from a finished task.
EarlyReturnDisclosed ==
  [][resultFile' # resultFile /\ resultFile'.by = "self" /\ ~resultFile'.isError =>
       (resultFile'.early <=> request.main = None)]_vars

\* Both halves of what the parent reads of the result: it is the task's, and it says so
\* when it is not.
ResultHonest == MainResultDelivered /\ EarlyReturnDisclosed

\* Every message a human typed while the request was active is in the published guidance.
GuidanceComplete == resultFile.by = "self" => resultFile.guidance = heard

\* While the worker runs a started request, status.json says what the worker is in, unless
\* another process was the last to write it.
StatusCurrent ==
  process = "up" /\ Active /\ ~starting /\ resultFile = NoResult
    => statusFile \in {StatusOf(request), RivalStatus}

\* The parent is never told of a quota wait and of a wait for a human at once.
QuotaOrWaiting == ~(statusFile.state = "waiting" /\ statusFile.retry)

\* What status.json tells the parent is current, and is one thing at a time.
StatusTruthful == StatusCurrent /\ QuotaOrWaiting

\* The provider may wait for quota except in a retrospective, whatever ended the last one.
PolicyFollowsPhase == process = "up" => (allowed <=> request.phase # "retrospective")

\* Nothing runs, nothing is about to run, and the request is unfinished.
Stopped ==
  /\ process = "up" /\ Active /\ ~starting /\ ~request.returning /\ resultFile = NoResult
  /\ run = "idle" /\ prompt = "none" /\ handoff.state = "none"

\* A worker that has stopped on an unfinished request tells the parent that it waits for a
\* human, whatever stopped it but a /worker-return whose abort failed, unless another process
\* has written over that.
StoppedWorkerWaits ==
  Stopped /\ handback.state # "lost" => statusFile.state \in {"waiting", "rival"}

\* The same of every stop.
EveryStopReported == Stopped => statusFile.state \in {"waiting", "rival"}

\* The worker keeps to what its parent relies on.
ArtifactOf(r) == IF r = NoResult THEN "no result" ELSE IF r.isError THEN "error" ELSE r.result
Artifacts == INSTANCE WorkerArtifacts WITH
  Successes <- Replies \cup Texts \cup {None},
  Failures <- {"error"},
  NoResult <- "no result",
  alive <- process # "gone",
  status <- CASE statusFile.state \in {"none", "closed"} -> statusFile.state
              [] statusFile.state = "rival" -> "foreign"
              [] OTHER -> "open",
  result <- ArtifactOf(resultFile)
ImplementsArtifacts == Artifacts!ArtifactsSpec
=============================================================================
