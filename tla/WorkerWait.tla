------------------------------ MODULE WorkerWait ------------------------------
(***************************************************************************)
(* The parent of one ephemeral worker: runEphemeralWorker and              *)
(* waitForWorkerResult of orchestration/workers.ts, composed with the      *)
(* worker's files as WorkerArtifacts describes them, whoever writes them.  *)
(* A step of the parent is what it does between two awaits; the worker,    *)
(* another process with the same request, the user's cancellation and the  *)
(* other users of the name interleave with it.                             *)
(*                                                                         *)
(* The host (tmux, Herdr, Emacs, web) is external.  It may stall, fail to  *)
(* answer or fail to close; when it answers, `exited` and `missing` mean   *)
(* that the process no longer exists.                                      *)
(***************************************************************************)
EXTENDS WorkerArtifacts, Naturals

CONSTANT GracePolls   \* failed host.state calls that surely take five seconds

ASSUME GraceAssumption == GracePolls \in Nat \ {0}

VARIABLES
  pc,           \* where the parent is
  cancelled,    \* options.signal is aborted
  pid,          \* whose PID workerPid is: "none", "worker", or "other" for another process
  unavailable,  \* failed host.state calls since unavailableSince; 0: undefined
  target,       \* the host target: "none", "open" or "closed"
  entry,        \* the registry entry of the name: "none", "mine", "other"
  claim,        \* the claim on the name: "free", "mine", "other"
  failure,      \* why the call fails; "none" while it does not
  taken         \* the result the wait returned

parentVars == <<pc, cancelled, pid, unavailable, target, entry, claim, failure, taken>>
vars == <<artifactVars, parentVars>>

\* The parent moves on from one point to the next.
At(here, there) == pc = here /\ pc' = there

\* The call fails for this reason; its finally block runs next.
Fails(here, reason) ==
  /\ At(here, IF target = "none" THEN "release" ELSE "close")
  /\ failure' = reason

Init ==
  /\ alive = FALSE /\ status = "none" /\ result = NoResult
  /\ pc = "idle" /\ cancelled = FALSE /\ pid = "none" /\ unavailable = 0
  /\ target = "none"
  /\ entry \in {"none", "other"} /\ claim = "free"
  /\ failure = "none" /\ taken = NoResult

-----------------------------------------------------------------------------
(* runEphemeralWorker up to the wait *)

ClaimName ==
  /\ \/ claim = "free" /\ At("idle", "claimed") /\ claim' = "mine" /\ UNCHANGED failure
     \/ claim = "other" /\ At("idle", "done") /\ failure' = "held" /\ UNCHANGED claim
  /\ UNCHANGED <<artifactVars, cancelled, pid, unavailable, target, entry, taken>>

CheckName ==
  /\ \/ entry = "none" /\ At("claimed", "starting") /\ UNCHANGED failure
     \/ entry # "none" /\ Fails("claimed", "exists")
  /\ UNCHANGED <<artifactVars, cancelled, pid, unavailable, target, entry, claim, taken>>

\* host.start: a failed or cancelled start leaves nothing behind (hosts close their
\* half-created targets).
HostStart ==
  /\ \/ /\ At("starting", "save")
        /\ target' = "open" /\ alive' = TRUE
        /\ UNCHANGED failure
     \/ Fails("starting", "start") /\ UNCHANGED <<target, alive>>
  /\ UNCHANGED <<status, result, cancelled, pid, unavailable, entry, claim, taken>>

SaveTarget ==
  /\ At("save", "poll")
  /\ entry' = "mine"
  /\ UNCHANGED <<artifactVars, cancelled, pid, unavailable, target, claim, failure, taken>>

-----------------------------------------------------------------------------
(* waitForWorkerResult *)

\* The head of the loop.  That the process is inspected only once a second is left out:
\* a round that only sleeps is a longer stay here.
Poll ==
  /\ \/ cancelled /\ Fails("poll", "cancelled") /\ UNCHANGED taken
     \/ /\ ~cancelled /\ result # NoResult
        /\ At("poll", "finished") /\ taken' = result /\ UNCHANGED failure
     \/ /\ ~cancelled /\ result = NoResult
        /\ At("poll", "probe")
        /\ UNCHANGED <<failure, taken>>
  /\ UNCHANGED <<artifactVars, cancelled, pid, unavailable, target, entry, claim>>

\* workerPid ??= matchingStatus()?.pid
KnownPid ==
  CASE pid # "none" -> pid
    [] pid = "none" /\ status = "none" -> "none"
    [] pid = "none" /\ status = "foreign" -> "other"
    [] OTHER -> "worker"

\* Wrong: asks the host even about a worker whose PID is known.
ProbeHost ==
  /\ At("probe", "asking") /\ pid' = KnownPid
  /\ UNCHANGED <<artifactVars, cancelled, unavailable, target, entry, claim, failure, taken>>

\* A PID, once read from a status, alone decides, and that of another process may stand for
\* one that runs or is gone; without one the host is asked.
Probe ==
  /\ pid' = KnownPid
  /\ \/ KnownPid = "worker" /\ alive /\ At("probe", "sleep")
     \/ KnownPid = "worker" /\ ~alive /\ At("probe", "recheck")
     \/ KnownPid = "other" /\ (At("probe", "sleep") \/ At("probe", "recheck"))
     \/ KnownPid = "none" /\ At("probe", "asking")
  /\ UNCHANGED <<artifactVars, cancelled, unavailable, target, entry, claim, failure, taken>>

\* host.state answers, rejects because of the abort, or fails within or after the grace.
HostAnswers ==
  /\ \/ alive /\ unavailable' = 0 /\ At("asking", "sleep") /\ UNCHANGED failure
     \/ ~alive /\ unavailable' = 0 /\ At("asking", "recheck") /\ UNCHANGED failure
     \/ cancelled /\ Fails("asking", "cancelled") /\ UNCHANGED unavailable
     \/ /\ ~cancelled /\ unavailable < GracePolls
        /\ unavailable' = unavailable + 1 /\ At("asking", "sleep") /\ UNCHANGED failure
     \/ /\ ~cancelled /\ unavailable > 0
        /\ Fails("asking", "unavailable") /\ UNCHANGED unavailable
  /\ UNCHANGED <<artifactVars, cancelled, pid, target, entry, claim, taken>>

\* Wrong: a worker that is gone has failed.
RecheckNothing ==
  /\ Fails("recheck", "exited")
  /\ UNCHANGED <<artifactVars, cancelled, pid, unavailable, target, entry, claim, taken>>

\* Wrong: keeps waiting for the result of a worker that is gone.
RecheckLater ==
  /\ At("recheck", "sleep")
  /\ UNCHANGED <<artifactVars, cancelled, pid, unavailable, target, entry, claim, failure, taken>>

\* The process is gone: what it published before it ended still counts.
Recheck ==
  /\ \/ result # NoResult /\ At("recheck", "finished") /\ taken' = result /\ UNCHANGED failure
     \/ result = NoResult /\ Fails("recheck", "exited") /\ UNCHANGED taken
  /\ UNCHANGED <<artifactVars, cancelled, pid, unavailable, target, entry, claim>>

Sleep ==
  /\ \/ cancelled /\ Fails("sleep", "cancelled")
     \/ At("sleep", "poll") /\ UNCHANGED failure
  /\ UNCHANGED <<artifactVars, cancelled, pid, unavailable, target, entry, claim, taken>>

-----------------------------------------------------------------------------
(* The end of runEphemeralWorker *)

\* Wrong: returns an error result as if it were one of finished work.
FinishAny ==
  /\ At("finished", "close")
  /\ UNCHANGED <<artifactVars, cancelled, pid, unavailable, target, entry, claim, failure, taken>>

\* An error result is thrown; anything else is returned, unless the close below fails.
Finish ==
  /\ At("finished", "close")
  /\ failure' = IF taken \in Failures THEN "worker" ELSE "none"
  /\ UNCHANGED <<artifactVars, cancelled, pid, unavailable, target, entry, claim, taken>>

\* Closing ends the worker's process, which may still write a last status.
CloseTarget ==
  /\ At("close", "release")
  /\ \/ /\ target' = "closed" /\ entry' = "none"
        /\ IF alive THEN Stop ELSE UNCHANGED artifactVars
        /\ UNCHANGED failure
     \/ failure' = "close" /\ UNCHANGED <<artifactVars, target, entry>>
  /\ UNCHANGED <<cancelled, pid, unavailable, claim, taken>>

\* Wrong: a failed close throws past the release.
ReleaseUnlessThrown ==
  /\ At("release", "done")
  /\ claim' = IF failure = "close" THEN claim ELSE "free"
  /\ UNCHANGED <<artifactVars, cancelled, pid, unavailable, target, entry, failure, taken>>

Release ==
  /\ At("release", "done")
  /\ claim' = "free"
  /\ UNCHANGED <<artifactVars, cancelled, pid, unavailable, target, entry, failure, taken>>

-----------------------------------------------------------------------------
(* The environment *)

Cancel ==
  /\ ~cancelled /\ pc # "done"
  /\ cancelled' = TRUE
  /\ UNCHANGED <<artifactVars, pc, pid, unavailable, target, entry, claim, failure, taken>>

\* Another request or panel operation uses the name while it holds the claim.
OtherUser ==
  /\ \/ claim = "free" /\ claim' = "other" /\ UNCHANGED entry
     \/ claim = "other" /\ claim' = "free" /\ UNCHANGED entry
     \/ claim = "other" /\ entry = "none" /\ entry' = "other" /\ UNCHANGED claim
     \/ claim = "other" /\ entry # "none" /\ entry' = "none" /\ UNCHANGED claim
  /\ UNCHANGED <<artifactVars, pc, cancelled, pid, unavailable, target, failure, taken>>

\* The worker's session may be open in another Pi, where /worker-run takes up its request.
OtherWorker == target # "none" /\ ForeignStep /\ UNCHANGED parentVars

ParentStep ==
  \/ ClaimName \/ CheckName \/ HostStart \/ SaveTarget
  \/ Poll \/ Probe \/ HostAnswers \/ Recheck \/ Sleep
  \/ Finish \/ CloseTarget \/ Release

Next ==
  \/ ParentStep
  \/ WorkerStep /\ UNCHANGED parentVars
  \/ Cancel \/ OtherUser \/ OtherWorker

Spec == Init /\ [][Next]_vars

\* The parent's timers and its host calls, all of which have deadlines, keep going.
FairSpec == Spec /\ WF_vars(ParentStep)

-----------------------------------------------------------------------------
Points == {"idle", "claimed", "starting", "save", "poll", "probe", "asking", "recheck",
           "sleep", "finished", "close", "release", "done"}
Reasons == {"none", "held", "exists", "start", "cancelled", "unavailable", "exited",
            "worker", "close"}

\* Every variable keeps its type.
TypeOK ==
  /\ ArtifactsTypeOK
  /\ pc \in Points /\ failure \in Reasons
  /\ cancelled \in BOOLEAN /\ pid \in {"none", "worker", "other"}
  /\ unavailable \in 0..GracePolls
  /\ target \in {"none", "open", "closed"}
  /\ entry \in {"none", "mine", "other"} /\ claim \in {"free", "mine", "other"}
  /\ taken \in Results \cup {NoResult}

\* A call fails because its worker exited without a result only if there is no result at that
\* moment, which is looked for again after the process was seen gone, and the worker is gone,
\* unless the first status the call read was that of another process, which it then follows.
ReportedExitIsReal ==
  [][failure # "exited" /\ failure' = "exited" => result = NoResult /\ (~alive \/ pid = "other")]_vars

\* A call that ends gives its claim back, whatever failed.  It leaves no worker, target or
\* registry entry of its own behind either, unless the host could not close the target, which
\* then stays registered until the claim is given back.
NothingLeftBehind ==
  /\ pc = "done" => claim # "mine"
  /\ pc = "done" /\ failure # "close" => ~alive /\ entry # "mine" /\ target # "open"
  /\ pc = "release" /\ failure = "close" => target = "open" /\ entry = "mine"

\* While the call runs its target, nobody else holds the name or has registered it.
NameOwned == target = "open" /\ pc # "done" => claim = "mine" /\ entry # "other"

\* Once the parent knows the worker's PID, no failure of the host ends the call.
KnownWorkerOutlivesHost == pid # "none" => failure # "unavailable"

\* A published result or a cancellation ends the call, however the host behaves, and so does
\* the end of the worker process, unless the call follows another one with the same request.
CallEnds ==
  /\ (result # NoResult \/ cancelled) ~> (pc = "done")
  /\ (target = "open" /\ ~alive) ~> (pc = "done" \/ pid = "other")

\* The call implements what a worker tool promises its caller.
Call == INSTANCE WorkerCall WITH
  call <- IF pc # "done" THEN "pending" ELSE IF failure = "none" THEN "returned" ELSE "threw",
  value <- IF pc = "done" /\ failure = "none" THEN taken ELSE NoResult,
  published <- result,
  live <- alive
ImplementsCall == Call!Spec
=============================================================================
