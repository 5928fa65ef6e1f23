------------------------------ MODULE WorkerCall ------------------------------
(***************************************************************************)
(* What a worker tool promises the model that calls it (runEphemeralWorker *)
(* in orchestration/workers.ts), as its caller sees it: the call returns    *)
(* only a result that was published for its request as finished work, or   *)
(* throws, and it owns its worker: a call that returns leaves none behind. *)
(***************************************************************************)
CONSTANTS Successes, Failures, NoResult

VARIABLES
  call,       \* "pending", "returned" or "threw"
  value,      \* what the call returned
  published,  \* the result published for its request
  live        \* the worker process exists

callVars == <<call, value, published, live>>

Init == call = "pending" /\ value = NoResult /\ published = NoResult /\ ~live

\* The worker starts or ends.  It, or another process that was given its request, publishes the
\* only result.
Start == call = "pending" /\ ~live /\ published = NoResult /\ live' = TRUE
         /\ UNCHANGED <<call, value, published>>
End == live /\ live' = FALSE /\ UNCHANGED <<call, value, published>>
Publish(v) == published = NoResult /\ published' = v /\ UNCHANGED <<call, value, live>>

Return ==
  /\ call = "pending" /\ ~live
  /\ published \in Successes
  /\ call' = "returned" /\ value' = published
  /\ UNCHANGED <<published, live>>

Throw == call = "pending" /\ call' = "threw" /\ UNCHANGED <<value, published, live>>

Next == Start \/ End \/ Return \/ Throw \/ \E v \in Successes \cup Failures : Publish(v)

Spec == Init /\ [][Next]_callVars
=============================================================================
