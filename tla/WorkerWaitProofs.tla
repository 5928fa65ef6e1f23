--------------------------- MODULE WorkerWaitProofs ---------------------------
(***************************************************************************)
(* Theorems about WorkerWait, for every set of results and every grace     *)
(* period.  The inductive invariant says, for each point of the parent,    *)
(* what it holds there: the claim, the target, the entry and a result.     *)
(***************************************************************************)
EXTENDS WorkerWait, TLAPS

Before == {"idle", "claimed", "starting"}
Waits == {"poll", "probe", "asking", "recheck", "sleep"}

\* The claim is held from claimName to the release at the end.
ClaimHeld == claim = "mine" <=> pc \notin {"idle", "done"}

\* A target exists between host.start and the close, and no worker without one.
TargetHeld ==
  /\ pc \in Before => target = "none"
  /\ pc \in Waits \cup {"save", "finished", "close"} => target = "open"
  /\ target = "none" => ~alive /\ result = NoResult
  /\ target = "closed" => ~alive
  /\ target = "open" /\ pc \in {"release", "done"} => failure = "close"
  /\ pc = "release" /\ failure = "close" => target = "open"

\* The registry entry is the parent's own only while its target is open.
EntryHeld ==
  /\ entry = "mine" => target = "open"
  /\ pc \in {"starting", "save"} => entry = "none"
  /\ pc \in Waits \cup {"finished", "close"} => entry = "mine"
  /\ pc = "release" /\ target = "open" => entry = "mine"
  /\ target = "open" /\ pc # "done" => entry # "other"

\* No failure is recorded before the finally block, and a success comes from the result.
FailureSet ==
  /\ pc \in Before \cup Waits \cup {"save", "finished"} => failure = "none"
  /\ pc = "finished" => taken = result /\ result # NoResult
  /\ pc \in {"close", "release", "done"} /\ failure = "none" =>
       taken = result /\ taken \in Successes
  /\ pc = "recheck" => ~alive \/ pid = "other"
  /\ pc = "asking" => pid = "none"
  /\ pc = "close" => failure # "close"

IInv == TypeOK /\ ClaimHeld /\ TargetHeld /\ EntryHeld /\ FailureSet
        /\ KnownWorkerOutlivesHost

\* A call that has not begun holds nothing.
LEMMA InitIInv == Init => IInv
<1> SUFFICES ASSUME Init PROVE IInv
  OBVIOUS
<1> USE DEF Init
<1>1. TypeOK
  <2>1. ArtifactsTypeOK /\ taken \in Results \cup {NoResult}
    BY DEF ArtifactsTypeOK
  <2>2. unavailable \in 0..GracePolls
    BY GraceAssumption
  <2> QED
    BY <2>1, <2>2 DEF TypeOK, Points, Reasons
<1>2. ClaimHeld /\ TargetHeld /\ EntryHeld
  BY DEF ClaimHeld, TargetHeld, EntryHeld, Before, Waits
<1>3. FailureSet /\ KnownWorkerOutlivesHost
  BY DEF FailureSet, Before, Waits, KnownWorkerOutlivesHost
<1> QED
  BY <1>1, <1>2, <1>3 DEF IInv

\* Every step, of the parent or of its surroundings, keeps the invariant.
LEMMA StepIInv == IInv /\ [Next]_vars => IInv'
<1> SUFFICES ASSUME IInv, [Next]_vars PROVE IInv'
  OBVIOUS
<1> USE GraceAssumption, ArtifactsAssumption
    DEF IInv, TypeOK, ArtifactsTypeOK, Points, Reasons, Results, ClaimHeld, TargetHeld,
        EntryHeld, FailureSet, KnownWorkerOutlivesHost, Before, Waits,
        At, Fails, artifactVars, parentVars
<1>1. CASE ClaimName
  BY <1>1 DEF ClaimName
<1>2. CASE CheckName
  BY <1>2 DEF CheckName
<1>3. CASE HostStart
  <2>1. TypeOK'
    BY <1>3 DEF HostStart
  <2>2. (ClaimHeld /\ TargetHeld /\ EntryHeld)'
    BY <1>3 DEF HostStart
  <2>3. (FailureSet /\ KnownWorkerOutlivesHost)'
    BY <1>3 DEF HostStart
  <2> QED
    BY <2>1, <2>2, <2>3
<1>4. CASE SaveTarget
  BY <1>4 DEF SaveTarget
<1>5. CASE Poll
  BY <1>5 DEF Poll
<1>6. CASE Probe
  BY <1>6 DEF Probe, KnownPid
<1>7. CASE HostAnswers
  BY <1>7 DEF HostAnswers
<1>8. CASE Recheck
  BY <1>8 DEF Recheck
<1>9. CASE Sleep
  BY <1>9 DEF Sleep
<1>10. CASE Finish
  BY <1>10 DEF Finish
<1>11. CASE CloseTarget
  <2>1. TypeOK'
    <3>1. ArtifactsTypeOK'
      BY <1>11 DEF CloseTarget, Stop
    <3> QED
      BY <3>1, <1>11 DEF CloseTarget
  <2>2. (ClaimHeld /\ TargetHeld /\ EntryHeld)'
    BY <1>11 DEF CloseTarget, Stop
  <2>3. (FailureSet /\ KnownWorkerOutlivesHost)'
    BY <1>11 DEF CloseTarget, Stop
  <2> QED
    BY <2>1, <2>2, <2>3
<1>12. CASE Release
  BY <1>12 DEF Release
<1>13. CASE WorkerStep /\ UNCHANGED parentVars
  <2>1. TypeOK'
    <3>1. ArtifactsTypeOK'
      BY <1>13 DEF WorkerStep, WriteStatus, WriteClosed, Stop, Publish
    <3> QED
      BY <3>1, <1>13
  <2>2. (ClaimHeld /\ TargetHeld /\ EntryHeld)'
    BY <1>13 DEF WorkerStep, WriteStatus, WriteClosed, Stop, Publish
  <2>3. (FailureSet /\ KnownWorkerOutlivesHost)'
    BY <1>13 DEF WorkerStep, WriteStatus, WriteClosed, Stop, Publish
  <2> QED
    BY <2>1, <2>2, <2>3
<1>14. CASE Cancel
  BY <1>14 DEF Cancel
<1>15. CASE OtherUser
  BY <1>15 DEF OtherUser
<1>16. CASE OtherWorker
  BY <1>16 DEF OtherWorker, ForeignStep, ForeignWrite, ForeignPublish
<1>17. CASE UNCHANGED vars
  BY <1>17 DEF vars
<1> QED
  BY <1>1, <1>2, <1>3, <1>4, <1>5, <1>6, <1>7, <1>8, <1>9, <1>10, <1>11, <1>12, <1>13,
     <1>14, <1>15, <1>16, <1>17 DEF Next, ParentStep

\* The invariant holds throughout every call.
LEMMA Invariant == Spec => []IInv
BY InitIInv, StepIInv, PTL DEF Spec

\* Every state of a call has the shape the type invariant gives it.
THEOREM TypeCorrect == Spec => []TypeOK
BY Invariant, PTL DEF IInv

\* runEphemeralWorker reports an exit without a result only where there is none when it says
\* so and the process it followed, its worker unless another one wrote first, is gone.
THEOREM ExitReal == Spec => ReportedExitIsReal
<1>1. IInv /\ [Next]_vars => (failure # "exited" /\ failure' = "exited" =>
                                 result = NoResult /\ (~alive \/ pid = "other"))
  <2> SUFFICES ASSUME IInv, [Next]_vars, failure # "exited", failure' = "exited"
               PROVE  result = NoResult /\ (~alive \/ pid = "other")
    OBVIOUS
  <2>1. CASE Recheck
    BY <2>1 DEF Recheck, At, Fails, IInv, FailureSet
  <2>2. CASE Finish
    BY <2>2 DEF Finish
  <2>3. CASE ClaimName \/ CheckName \/ HostStart \/ SaveTarget \/ Poll \/ Probe \/ HostAnswers
    BY <2>3 DEF ClaimName, CheckName, HostStart, SaveTarget, Poll, Probe, HostAnswers, Fails
  <2>4. CASE Sleep \/ CloseTarget \/ Release \/ Cancel \/ OtherUser \/ OtherWorker
    BY <2>4 DEF Sleep, CloseTarget, Release, Cancel, OtherUser, OtherWorker, Fails, parentVars
  <2> QED
    BY <2>1, <2>2, <2>3, <2>4 DEF Next, ParentStep, vars, parentVars
<1> QED
  BY <1>1, Invariant, PTL DEF Spec, ReportedExitIsReal

\* The finally blocks of runEphemeralWorker give the claim back in any case and, unless the
\* close fails, leave no process, target or entry behind.
THEOREM CallCleansUp == Spec => []NothingLeftBehind
<1>1. IInv => NothingLeftBehind
  BY DEF IInv, TypeOK, ClaimHeld, TargetHeld, EntryHeld, NothingLeftBehind
<1> QED
  BY <1>1, Invariant, PTL

\* The claim of runEphemeralWorker spans the whole life of its target.
THEOREM NameHeld == Spec => []NameOwned
<1>1. IInv => NameOwned
  BY DEF IInv, ClaimHeld, TargetHeld, EntryHeld, NameOwned, Before
<1> QED
  BY <1>1, Invariant, PTL

\* Once a status has given waitForWorkerResult the PID, the host's failures do not matter.
THEOREM KnownOutlives == Spec => []KnownWorkerOutlivesHost
BY Invariant, PTL DEF IInv

\* The call implements WorkerCall: it returns only a success published for its request, after
\* its worker is gone.
THEOREM CallImplemented == Spec => ImplementsCall
<1>1. Init => Call!Init
  BY DEF Init, Call!Init
<1>2. IInv /\ [Next]_vars => [Call!Next]_(Call!callVars)
  <2> SUFFICES ASSUME IInv, [Next]_vars PROVE [Call!Next]_(Call!callVars)
    OBVIOUS
  <2> USE DEF IInv, TypeOK, ArtifactsTypeOK, TargetHeld, FailureSet, Before, Waits, At, Fails,
              Call!callVars, Results
  <2>1. CASE ClaimName \/ CheckName \/ SaveTarget \/ Poll \/ Probe \/ HostAnswers \/ Recheck
             \/ Sleep \/ Finish
    BY <2>1 DEF ClaimName, CheckName, SaveTarget, Poll, Probe, HostAnswers, Recheck, Sleep,
                Finish, Call!Next, Call!Throw, artifactVars
  <2>2. CASE HostStart
    BY <2>2 DEF HostStart, Call!Next, Call!Start
  <2>3. CASE CloseTarget
    BY <2>3 DEF CloseTarget, Stop, Call!Next, Call!End, artifactVars
  <2>4. CASE Release
    BY <2>4 DEF Release, Call!Next, Call!Return, Call!Throw, artifactVars
  <2>5. CASE WorkerStep /\ UNCHANGED parentVars
    BY <2>5 DEF WorkerStep, WriteStatus, WriteClosed, Stop, Publish, parentVars,
                Call!Next, Call!End, Call!Publish
  <2>6. CASE OtherWorker
    BY <2>6 DEF OtherWorker, ForeignStep, ForeignWrite, ForeignPublish, parentVars,
                Call!Next, Call!Publish
  <2>7. CASE Cancel \/ OtherUser \/ UNCHANGED vars
    BY <2>7 DEF Cancel, OtherUser, vars, artifactVars, parentVars
  <2> QED
    BY <2>1, <2>2, <2>3, <2>4, <2>5, <2>6, <2>7 DEF Next, ParentStep
<1> QED
  BY <1>1, <1>2, Invariant, PTL DEF Spec, ImplementsCall, Call!Spec
=============================================================================
