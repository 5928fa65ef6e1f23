--------------------------- MODULE WorkerArtifacts ---------------------------
(***************************************************************************)
(* What a worker process promises its parent about the files of one        *)
(* request, and nothing more: the parent reads only result.json,           *)
(* status.json (whose presence publishes the worker's PID) and whether     *)
(* that process exists.  Another process may be given the same request,    *)
(* and then writes the same files.  WorkerFrame implements this            *)
(* specification; WorkerWait composes it with the parent.                  *)
(***************************************************************************)
CONSTANTS
  Successes,   \* results a worker may publish as finished work
  Failures,    \* results it may publish as errors
  NoResult     \* result.json does not exist

ASSUME ArtifactsAssumption ==
  /\ NoResult \notin Successes \cup Failures
  /\ Successes \cap Failures = {}

VARIABLES
  alive,    \* the worker process exists
  status,   \* status.json: "none" before the first write; "foreign" if the last is by another
            \* process; else by the worker, "closed" after completion and "open" before
  result    \* result.json

artifactVars == <<alive, status, result>>

Results == Successes \cup Failures

ArtifactsTypeOK ==
  /\ alive \in BOOLEAN
  /\ status \in {"none", "open", "closed", "foreign"}
  /\ result \in Results \cup {NoResult}

\* A write of status.json that says anything but closed.
WriteStatus ==
  /\ alive
  /\ status' = "open"
  /\ UNCHANGED <<alive, result>>

\* result.json appears whole, once.
Publish(v) ==
  /\ alive /\ result = NoResult
  /\ result' = v
  /\ UNCHANGED <<alive, status>>

WriteClosed ==
  /\ alive /\ result # NoResult
  /\ status' = "closed"
  /\ UNCHANGED <<alive, result>>

\* The process ends, with or without a last status from session_shutdown.
Stop ==
  /\ alive
  /\ alive' = FALSE
  /\ status' \in {status, "open"}
  /\ UNCHANGED result

\* Another process that was given the request says what it does, under its own PID.
ForeignWrite == status' = "foreign" /\ UNCHANGED <<alive, result>>

\* Another process completes the request.
ForeignPublish(v) ==
  /\ result = NoResult
  /\ result' = v
  /\ UNCHANGED <<alive, status>>

WorkerStep == WriteStatus \/ WriteClosed \/ Stop \/ \E v \in Results : Publish(v)
ForeignStep == ForeignWrite \/ \E v \in Results : ForeignPublish(v)

ArtifactsInit == alive = TRUE /\ status = "none" /\ result = NoResult
ArtifactsNext == WorkerStep \/ ForeignStep
ArtifactsSpec == ArtifactsInit /\ [][ArtifactsNext]_artifactVars
=============================================================================
