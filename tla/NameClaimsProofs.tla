--------------------------- MODULE NameClaimsProofs ---------------------------
(***************************************************************************)
(* Theorems about NameClaims where no process dies, or where no more than  *)
(* two share the names, for every batch of calls.  Exclusive creation of   *)
(* the claim file then makes its creator the only user of the name: a      *)
(* process that finds a stale claim is the only one that could remove it.  *)
(* The run NameClaimsRace shows that two survivors of a crash can undo     *)
(* this.                                                                   *)
(***************************************************************************)
EXTENDS NameClaims, FiniteSetTheorems, TLAPS

\* No process dies, or at most one outlives it.
FewSurvivors == MaxCrashes = 0 \/ \E p, q \in Processes : Processes \subseteq {p, q}

\* The claim of a process that has died.
Stale == file # NoFile /\ file.written /\ Home[file.by] \in dead

\* Once a process has died at most one runs, and a dead one runs no call.
SurvivorOK ==
  /\ MaxCrashes = 0 => dead = {}
  /\ dead = {} \/ \A p, q \in Processes \ dead : p = q
  /\ \A t \in Tasks : Home[t] \in dead => pc[t] \in Ended

\* The claim file belongs to whoever is between creating and releasing it, and what a call is
\* about to remove is stale.
OwnFile ==
  /\ SurvivorOK
  /\ \A t \in Tasks : pc[t] \in Holding \cup {"write"} => file.by = t
  /\ \A t \in Tasks : pc[t] \in Holding => file.written
  /\ \A t \in Tasks : pc[t] \in {"restat", "remove"} => Stale

\* A claim without a text is being written or was left behind, and a lookup that has seen
\* the name settled still finds it so.
TurnsOK ==
  /\ file # NoFile /\ ~file.written => pc[file.by] = "write" \/ Home[file.by] \in dead
  /\ \A t, u \in Tasks :
       pc[t] = "look" /\ Home[u] = Home[t] /\ Op[u] \in Operations => pc[u] \notin Holding

\* What the holder knows of the registry is still so, and no target has the null number.
EntryKnown ==
  /\ 0 \notin live
  /\ \A t \in Tasks :
       /\ pc[t] \in {"start", "save"} => entry = 0
       /\ pc[t] = "save" => target[t] = t
       /\ pc[t] \in {"probe", "running", "closing"} => target[t] = entry

IInv == TypeOK /\ OwnFile /\ TurnsOK /\ EntryKnown /\ LiveTargetRegistered

\* Two tasks never both have the file.
LEMMA OneOwner ==
  ASSUME OwnFile, NEW t \in Tasks, NEW u \in Tasks,
         pc[t] \in Holding \cup {"write"}, pc[u] \in Holding \cup {"write"}
  PROVE  t = u
BY DEF OwnFile

\* No task is number 0, which stands for no task, and the first target is nobody's.
LEMMA TaskNumbers == 0 \notin Tasks /\ Registered \notin Tasks
BY ClaimsAssumption

\* While a call looks at a stale claim, no other call takes a step.
LEMMA StaleAlone ==
  ASSUME OwnFile, NEW t \in Tasks, NEW u \in Tasks \ {t}, Runs(t)
  PROVE  pc[u] \notin {"restat", "remove"}
<1> SUFFICES ASSUME pc[u] \in {"restat", "remove"} PROVE FALSE
  OBVIOUS
<1>1. Home[t] \in Processes /\ Home[u] \in Processes
  BY ClaimsAssumption
<1>2. dead # {} /\ Home[u] \notin dead
  BY DEF OwnFile, SurvivorOK, Stale, Ended
<1>3. Home[u] = Home[t]
  BY <1>1, <1>2 DEF OwnFile, SurvivorOK, Runs
<1> QED
  BY <1>3 DEF Runs, Waiting, Ended

\* The crash of a process leaves at most one running, and none of its calls.
LEMMA StepSurvivor == ASSUME FewSurvivors, TypeOK, SurvivorOK, [Next]_vars PROVE SurvivorOK'
<1> USE DEF SurvivorOK
<1>1. ASSUME NEW t \in Tasks, Claiming(t) \/ Using(t) \/ WorkerEnds(t) PROVE SurvivorOK'
  <2>1. Home[t] \notin dead /\ dead' = dead /\ \A u \in Tasks \ {t} : pc'[u] = pc[u]
    <3>1. CASE Begin(t) \/ Create(t) \/ WriteClaim(t) \/ Delay(t) \/ Look(t) \/ WorkerEnds(t)
      BY <3>1 DEF TypeOK, Begin, Create, WriteClaim, Delay, Look, WorkerEnds, Go, Runs
    <3>2. CASE StatClaim(t) \/ ReadClaim(t) \/ CompareInode(t) \/ RemoveStale(t)
      BY <3>2 DEF TypeOK, StatClaim, ReadClaim, CompareInode, RemoveStale, NotHeld, Held, Go, Runs
    <3>3. CASE Using(t)
      BY <3>3 DEF TypeOK, Using, Launch, Check, Probe, StartTarget, SaveTarget, CloseTarget, Release,
                  Go, Runs
    <3> QED
      BY <1>1, <3>1, <3>2, <3>3 DEF Claiming
  <2> QED
    BY <2>1
<1>2. ASSUME NEW p \in Processes, Crash(p) PROVE SurvivorOK'
  <2>1. MaxCrashes # 0
    BY <1>2, FS_EmptySet DEF Crash
  <2>2. \A q, r \in Processes \ dead' : q = r
    BY <1>2, <2>1 DEF FewSurvivors, Crash
  <2>3. \A t \in Tasks : Home[t] \in dead' => pc'[t] \in Ended
    BY <1>2 DEF Crash, Ended
  <2> QED
    BY <2>1, <2>2, <2>3
<1> QED
  BY <1>1, <1>2 DEF Next, Vanish, vars

\* Every step of a call, of a target and of a process keeps the types.
LEMMA StepType == TypeOK /\ [Next]_vars => TypeOK'
<1> SUFFICES ASSUME TypeOK, [Next]_vars PROVE TypeOK'
  OBVIOUS
<1> USE DEF TypeOK, Go, Points, Waiting, Ended, Holding
<1>1. ASSUME NEW t \in Tasks, Claiming(t) PROVE TypeOK'
  <2>1. CASE Begin(t)
    BY <2>1 DEF Begin
  <2>2. CASE Create(t)
    <3>1. file' \in File \cup {NoFile}
      <4>1. \A i \in Inodes : [ino |-> i, by |-> t, written |-> FALSE] \in File
        BY DEF File
      <4> QED
        BY <2>2, <4>1 DEF Create
    <3> QED
      BY <2>2, <3>1 DEF Create
  <2>3. CASE WriteClaim(t)
    <3>1. file.by = t => file \in File
      BY TaskNumbers DEF NoFile
    <3>2. file' \in File \cup {NoFile}
      BY <2>3, <3>1 DEF WriteClaim, File
    <3> QED
      BY <2>3, <3>2 DEF WriteClaim
  <2>4. CASE StatClaim(t)
    BY <2>4 DEF StatClaim, NotHeld, File
  <2>5. CASE ReadClaim(t)
    BY <2>5 DEF ReadClaim, NotHeld, Held
  <2>6. CASE CompareInode(t)
    BY <2>6 DEF CompareInode, NotHeld
  <2>7. CASE RemoveStale(t)
    BY <2>7 DEF RemoveStale, NotHeld
  <2>8. CASE Delay(t)
    BY <2>8 DEF Delay
  <2>9. CASE Look(t)
    BY <2>9 DEF Look
  <2> QED
    BY <1>1, <2>1, <2>2, <2>3, <2>4, <2>5, <2>6, <2>7, <2>8, <2>9 DEF Claiming
<1>2. ASSUME NEW t \in Tasks, Using(t) \/ WorkerEnds(t) PROVE TypeOK'
  <2>1. CASE Launch(t)
    BY <2>1 DEF Launch
  <2>2. CASE Check(t)
    BY <2>2 DEF Check
  <2>3. CASE Probe(t)
    BY <2>3 DEF Probe
  <2>4. CASE StartTarget(t)
    BY <2>4 DEF StartTarget
  <2>5. CASE SaveTarget(t)
    BY <2>5 DEF SaveTarget
  <2>6. CASE CloseTarget(t)
    BY <2>6 DEF CloseTarget
  <2>7. CASE Release(t)
    BY <2>7 DEF Release
  <2>8. CASE WorkerEnds(t)
    BY <2>8 DEF WorkerEnds
  <2> QED
    BY <1>2, <2>1, <2>2, <2>3, <2>4, <2>5, <2>6, <2>7, <2>8 DEF Using
<1>3. CASE Vanish
  BY <1>3 DEF Vanish
<1>4. ASSUME NEW p \in Processes, Crash(p) PROVE TypeOK'
  BY <1>4 DEF Crash
<1>5. CASE UNCHANGED vars
  BY <1>5 DEF vars
<1> QED
  BY <1>1, <1>2, <1>3, <1>4, <1>5 DEF Next

\* A claim file stays with its creator until that releases it or dies.
LEMMA StepOwnFile == FewSurvivors /\ TypeOK /\ OwnFile /\ [Next]_vars => OwnFile'
<1> SUFFICES ASSUME FewSurvivors, TypeOK, OwnFile, [Next]_vars PROVE OwnFile'
  OBVIOUS
<1> USE TaskNumbers DEF TypeOK, Go, Holding
<1>1. SurvivorOK'
  BY StepSurvivor DEF OwnFile
<1>2. ASSUME NEW t \in Tasks, Runs(t), UNCHANGED <<file, dead>>,
             \A u \in Tasks \ {t} : pc'[u] = pc[u],
             pc'[t] \in Holding => pc[t] \in Holding,
             pc'[t] \notin {"write", "restat", "remove"} \/ (pc'[t] # "write" /\ Stale)
      PROVE  OwnFile'
  <2>1. Stale' <=> Stale
    BY <1>2 DEF Stale
  <2> QED
    BY <1>1, <1>2, <2>1 DEF OwnFile
<1>3. ASSUME NEW t \in Tasks, Claiming(t) PROVE OwnFile'
  <2>1. CASE Begin(t) \/ Delay(t) \/ Look(t)
    BY <1>2, <2>1 DEF Begin, Delay, Look
  <2>2. CASE Create(t)
    <3>1. CASE file = NoFile
      <4>1. \A u \in Tasks : pc[u] \notin Holding \cup {"write", "restat", "remove"}
        BY <3>1 DEF OwnFile, NoFile, Stale
      <4>2. pc'[t] = "write" /\ file'.by = t /\ \A u \in Tasks \ {t} : pc'[u] = pc[u]
        BY <2>2, <3>1 DEF Create
      <4> QED
        BY <1>1, <4>1, <4>2 DEF OwnFile
    <3>2. CASE file # NoFile
      BY <1>2, <2>2, <3>2 DEF Create
    <3> QED
      BY <3>1, <3>2
  <2>3. CASE WriteClaim(t)
    <3>1. file \in File /\ file.by = t
      BY <2>3 DEF WriteClaim, OwnFile, NoFile
    <3>2. file'.by = t /\ file'.written
      BY <2>3, <3>1 DEF WriteClaim, File
    <3>3. \A u \in Tasks \ {t} : pc'[u] = pc[u] /\ pc[u] \notin {"restat", "remove"}
      BY <2>3, StaleAlone DEF WriteClaim
    <3>4. pc'[t] \in Holding
      BY <2>3 DEF WriteClaim
    <3>5. \A u \in Tasks \ {t} : pc[u] \notin Holding \cup {"write"}
      BY <3>1 DEF OwnFile
    <3> QED
      BY <1>1, <3>2, <3>3, <3>4, <3>5 DEF OwnFile
  <2>4. CASE StatClaim(t)
    BY <1>2, <2>4 DEF StatClaim, NotHeld
  <2>5. CASE ReadClaim(t)
    <3>1. CASE file # NoFile /\ ~PresumedAlive(file) /\ pc'[t] = "restat"
      <4>1. Stale
        BY <3>1 DEF PresumedAlive, Stale
      <4> QED
        BY <1>2, <2>5, <3>1, <4>1 DEF ReadClaim
    <3>2. CASE NotHeld(t) \/ Held(t, file)
      BY <1>2, <2>5, <3>2 DEF ReadClaim, NotHeld, Held
    <3> QED
      BY <2>5, <3>1, <3>2 DEF ReadClaim
  <2>6. CASE CompareInode(t)
    <3>1. Stale
      BY <2>6 DEF CompareInode, OwnFile
    <3> QED
      BY <1>2, <2>6, <3>1 DEF CompareInode, NotHeld
  <2>7. CASE RemoveStale(t)
    <3>1. Stale /\ pc'[t] \notin Holding \cup {"write", "restat", "remove"}
      BY <2>7 DEF RemoveStale, NotHeld, OwnFile
    <3>2. \A u \in Tasks \ {t} : pc'[u] = pc[u] /\ pc[u] \notin {"restat", "remove"}
      BY <2>7, StaleAlone DEF RemoveStale, NotHeld
    <3>3. \A u \in Tasks : pc[u] \notin Holding \cup {"write"}
      BY <3>1 DEF OwnFile, SurvivorOK, Stale, Ended
    <3> QED
      BY <1>1, <3>1, <3>2, <3>3 DEF OwnFile
  <2> QED
    BY <1>3, <2>1, <2>2, <2>3, <2>4, <2>5, <2>6, <2>7 DEF Claiming
<1>4. ASSUME NEW t \in Tasks, Using(t) \/ WorkerEnds(t) PROVE OwnFile'
  <2>1. CASE Launch(t) \/ Check(t)
    BY <1>2, <2>1 DEF Launch, Check
  <2>2. CASE Probe(t) \/ StartTarget(t)
    BY <1>2, <2>2 DEF Probe, StartTarget
  <2>3. CASE SaveTarget(t) \/ CloseTarget(t) \/ WorkerEnds(t)
    BY <1>2, <2>3 DEF SaveTarget, CloseTarget, WorkerEnds
  <2>4. CASE Release(t)
    <3>1. \A u \in Tasks \ {t} : pc'[u] = pc[u] /\ pc[u] \notin Holding \cup {"write"}
      BY <2>4, OneOwner DEF Release
    <3>2. \A u \in Tasks \ {t} : pc[u] \notin {"restat", "remove"}
      BY <2>4, StaleAlone DEF Release
    <3> QED
      BY <1>1, <2>4, <3>1, <3>2 DEF Release, OwnFile
  <2> QED
    BY <1>4, <2>1, <2>2, <2>3, <2>4 DEF Using
<1>5. ASSUME NEW p \in Processes, Crash(p) PROVE OwnFile'
  <2>1. Stale => Stale'
    BY <1>5 DEF Crash, Stale
  <2>2. \A t \in Tasks : pc'[t] = pc[t] \/ pc'[t] = "crashed"
    BY <1>5 DEF Crash
  <2> QED
    BY <1>1, <1>5, <2>1, <2>2 DEF Crash, OwnFile
<1>6. CASE Vanish \/ UNCHANGED vars
  BY <1>1, <1>6 DEF Vanish, vars, OwnFile, Stale
<1> QED
  BY <1>3, <1>4, <1>5, <1>6 DEF Next

\* The calls of one process do not meet in the middle of an operation.
LEMMA StepTurns == TypeOK /\ OwnFile /\ TurnsOK /\ [Next]_vars => TurnsOK'
<1> SUFFICES ASSUME TypeOK, OwnFile, TurnsOK, [Next]_vars PROVE TurnsOK'
  OBVIOUS
<1> USE TaskNumbers DEF TypeOK, Go, Holding
<1>1. ASSUME NEW t \in Tasks, Claiming(t) \/ Using(t) \/ WorkerEnds(t)
      PROVE  /\ Runs(t) /\ dead' = dead /\ pc' \in [Tasks -> Points]
             /\ \A u \in Tasks \ {t} : pc'[u] = pc[u]
  <2>1. CASE Begin(t) \/ Create(t) \/ WriteClaim(t) \/ Delay(t) \/ Look(t) \/ WorkerEnds(t)
    BY <2>1, StepType DEF Begin, Create, WriteClaim, Delay, Look, WorkerEnds
  <2>2. CASE StatClaim(t) \/ ReadClaim(t) \/ CompareInode(t) \/ RemoveStale(t)
    BY <2>2, StepType DEF StatClaim, ReadClaim, CompareInode, RemoveStale, NotHeld, Held
  <2>3. CASE Using(t)
    BY <2>3, StepType DEF Using, Launch, Check, Probe, StartTarget, SaveTarget, CloseTarget, Release
  <2> QED
    BY <1>1, <2>1, <2>2, <2>3 DEF Claiming
<1>2. ASSUME NEW t \in Tasks, Runs(t), NEW u \in Tasks \ {t}, pc[u] = "look"
      PROVE  Home[u] # Home[t]
  BY <1>2 DEF Runs, Waiting, Ended
<1>3. ASSUME NEW t \in Tasks, Runs(t), UNCHANGED dead,
             \A u \in Tasks \ {t} : pc'[u] = pc[u],
             pc'[t] = "look" => \A u \in Tasks : Home[u] = Home[t] /\ Op[u] \in Operations => pc[u] \notin Holding,
             file' # NoFile /\ ~file'.written =>
               \/ file'.by = t /\ pc'[t] = "write"
               \/ file' = file /\ pc[t] # "write"
      PROVE  TurnsOK'
  <2>1. file' # NoFile /\ ~file'.written => pc'[file'.by] = "write" \/ Home[file'.by] \in dead'
    <3> SUFFICES ASSUME file' # NoFile, ~file'.written, file' = file, pc[t] # "write"
                 PROVE  pc'[file'.by] = "write" \/ Home[file'.by] \in dead'
      BY <1>3
    <3>1. file.by \in Tasks
      BY DEF File
    <3> QED
      BY <1>3, <3>1 DEF TurnsOK
  <2>2. ASSUME NEW u \in Tasks, NEW v \in Tasks, pc'[u] = "look", Home[v] = Home[u],
               Op[v] \in Operations
        PROVE  pc'[v] \notin Holding
    <3>1. CASE u = t
      BY <1>3, <2>2, <3>1
    <3>2. CASE u # t
      <4>1. pc[u] = "look" /\ v # t
        BY <1>2, <1>3, <2>2, <3>2
      <4> QED
        BY <1>3, <2>2, <4>1 DEF TurnsOK
    <3> QED
      BY <3>1, <3>2
  <2> QED
    BY <2>1, <2>2 DEF TurnsOK
<1>4. ASSUME file = NoFile \/ ~file.written \/ Op[file.by] \notin Operations \/ Stale
      PROVE  \A u \in Tasks : Op[u] \in Operations => pc[u] \notin Holding
  BY <1>4 DEF OwnFile, SurvivorOK, Stale, NoFile, Ended
<1>5. ASSUME NEW t \in Tasks, Claiming(t) PROVE TurnsOK'
  <2>0. Runs(t) /\ UNCHANGED dead /\ \A u \in Tasks \ {t} : pc'[u] = pc[u]
    BY <1>1, <1>5
  <2>1. CASE Begin(t) \/ Delay(t) \/ Look(t)
    BY <1>3, <2>0, <2>1 DEF Begin, Delay, Look
  <2>2. CASE Create(t)
    BY <1>3, <2>0, <2>2 DEF Create
  <2>3. CASE WriteClaim(t)
    <3>1. file \in File /\ file.by = t
      BY <2>3 DEF WriteClaim, OwnFile, NoFile
    <3>2. file'.written
      BY <2>3, <3>1 DEF WriteClaim, File
    <3>3. pc'[t] # "look"
      BY <2>3 DEF WriteClaim
    <3> QED
      BY <1>3, <2>0, <3>2, <3>3
  <2>4. CASE StatClaim(t)
    BY <1>3, <1>4, <2>0, <2>4 DEF StatClaim, NotHeld
  <2>5. CASE ReadClaim(t)
    BY <1>3, <1>4, <2>0, <2>5 DEF ReadClaim, NotHeld, Held, HeldForOperation
  <2>6. CASE CompareInode(t)
    <3>1. Stale
      BY <2>6 DEF CompareInode, OwnFile
    <3> QED
      BY <1>3, <1>4, <2>0, <2>6, <3>1 DEF CompareInode, NotHeld
  <2>7. CASE RemoveStale(t)
    <3>1. Stale
      BY <2>7 DEF RemoveStale, OwnFile
    <3> QED
      BY <1>3, <1>4, <2>0, <2>7, <3>1 DEF RemoveStale, NotHeld
  <2> QED
    BY <1>5, <2>1, <2>2, <2>3, <2>4, <2>5, <2>6, <2>7 DEF Claiming
<1>6. ASSUME NEW t \in Tasks, Using(t) \/ WorkerEnds(t) PROVE TurnsOK'
  <2>1. pc[t] # "write" /\ pc'[t] # "look" /\ file' \in {file, NoFile}
    BY <1>6 DEF Using, Launch, Check, Probe, StartTarget, SaveTarget, CloseTarget, Release, WorkerEnds
  <2> QED
    BY <1>1, <1>3, <1>6, <2>1
<1>7. ASSUME NEW p \in Processes, Crash(p) PROVE TurnsOK'
  <2>1. file # NoFile => file.by \in Tasks
    BY DEF File
  <2> QED
    BY <1>7, <2>1 DEF Crash, TurnsOK
<1>8. CASE Vanish \/ UNCHANGED vars
  BY <1>8 DEF Vanish, vars, TurnsOK
<1> QED
  BY <1>5, <1>6, <1>7, <1>8 DEF Next

\* What a step of a task that does not hold the claim may change: nothing of the registry.
LEMMA StepEntryKnown ==
  TypeOK /\ OwnFile /\ EntryKnown /\ LiveTargetRegistered /\ [Next]_vars /\ OwnFile'
    => EntryKnown' /\ LiveTargetRegistered'
<1> SUFFICES ASSUME TypeOK, OwnFile, EntryKnown, LiveTargetRegistered, [Next]_vars, OwnFile'
             PROVE  EntryKnown' /\ LiveTargetRegistered'
  OBVIOUS
<1> USE TaskNumbers DEF TypeOK, EntryKnown, LiveTargetRegistered
<1>1. ASSUME NEW t \in Tasks, Claiming(t) PROVE EntryKnown' /\ LiveTargetRegistered'
  <2>1. /\ UNCHANGED <<entry, live, abandoned>>
        /\ pc' \in [Tasks -> Points]
        /\ \A u \in Tasks \ {t} : pc'[u] = pc[u] /\ target'[u] = target[u]
        /\ pc[t] # "save"
        /\ pc'[t] \notin {"start", "save", "probe", "running", "closing"}
    <3>1. CASE Begin(t) \/ Create(t) \/ WriteClaim(t) \/ Delay(t) \/ Look(t)
      BY <1>1, <3>1 DEF Begin, Create, WriteClaim, Delay, Look, Go, Points, Waiting, Ended, Holding
    <3>2. CASE StatClaim(t) \/ ReadClaim(t) \/ CompareInode(t) \/ RemoveStale(t)
      BY <1>1, <3>2 DEF StatClaim, ReadClaim, CompareInode, RemoveStale, NotHeld, Held, Go,
                        Points, Waiting, Ended, Holding
    <3> QED
      BY <1>1, <3>1, <3>2 DEF Claiming
  <2> QED
    BY <2>1
<1>2. ASSUME NEW t \in Tasks, Using(t) \/ WorkerEnds(t)
      PROVE  EntryKnown' /\ LiveTargetRegistered'
  <2>1. pc[t] \in Holding
    BY <1>2 DEF Using, Launch, Check, Probe, StartTarget, SaveTarget, CloseTarget, Release,
                WorkerEnds, Go, Holding
  <2>2. \A u \in Tasks \ {t} : pc[u] \notin Holding
    BY <2>1, OneOwner
  <2> USE DEF Go, Holding
  <2>3. CASE Launch(t)
    BY <2>2, <2>3 DEF Launch
  <2>4. CASE Check(t)
    BY <2>2, <2>4 DEF Check
  <2>5. CASE Probe(t)
    BY <2>2, <2>5 DEF Probe
  <2>6. CASE StartTarget(t)
    <3>1. EntryKnown'
      BY <2>2, <2>6 DEF StartTarget
    <3>2. ASSUME NEW x \in live'
          PROVE  x = entry \/ x \in abandoned' \/ \E u \in Tasks : pc'[u] = "save" /\ target'[u] = x
      <4>1. CASE x = t
        BY <2>6, <4>1 DEF StartTarget
      <4>2. CASE x \in live /\ x # t
        BY <2>2, <2>6, <4>2 DEF StartTarget
      <4> QED
        BY <2>6, <3>2, <4>1, <4>2 DEF StartTarget
    <3>3. entry' = entry
      BY <2>6 DEF StartTarget
    <3>4. LiveTargetRegistered'
      BY ONLY <3>2, <3>3 DEF LiveTargetRegistered
    <3> QED
      BY <3>1, <3>4
  <2>7. CASE SaveTarget(t)
    BY <2>2, <2>7 DEF SaveTarget
  <2>8. CASE CloseTarget(t)
    BY <2>2, <2>8 DEF CloseTarget
  <2>9. CASE Release(t) \/ WorkerEnds(t)
    BY <2>2, <2>9 DEF Release, WorkerEnds
  <2> QED
    BY <1>2, <2>3, <2>4, <2>5, <2>6, <2>7, <2>8, <2>9 DEF Using
<1>3. CASE Vanish
  BY <1>3 DEF Vanish
<1>4. ASSUME NEW p \in Processes, Crash(p) PROVE EntryKnown' /\ LiveTargetRegistered'
  <2>1. /\ UNCHANGED <<entry, live, target>>
        /\ \A t \in Tasks : \/ pc'[t] = pc[t]
                            \/ pc'[t] = "crashed" /\ (pc[t] = "save" => t \in abandoned')
        /\ abandoned \subseteq abandoned'
    BY <1>4 DEF Crash
  <2> QED
    BY <2>1
<1>5. CASE UNCHANGED vars
  BY <1>5 DEF vars
<1> QED
  BY <1>1, <1>2, <1>3, <1>4, <1>5 DEF Next

\* No call has begun, and the registered target exists.
LEMMA InitIInv == Init => IInv
<1> SUFFICES ASSUME Init PROVE IInv
  OBVIOUS
<1>1. TypeOK
  BY ClaimsAssumption DEF Init, TypeOK, Points, Waiting
<1>2. OwnFile /\ EntryKnown /\ LiveTargetRegistered
  BY DEF Init, OwnFile, SurvivorOK, TurnsOK, EntryKnown, LiveTargetRegistered, Holding
<1>3. SurvivorOK /\ TurnsOK
  BY DEF Init, SurvivorOK, TurnsOK
<1> QED
  BY <1>1, <1>2, <1>3 DEF IInv

\* While there is no race for a stale claim the invariant holds throughout.
LEMMA Invariant == ASSUME FewSurvivors PROVE Spec => []IInv
<1>1. IInv /\ [Next]_vars => IInv'
  BY StepType, StepOwnFile, StepTurns, StepEntryKnown DEF IInv
<1> QED
  BY <1>1, InitIInv, PTL DEF Spec

\* tryClaimName gives a name to one call at a time.
THEOREM Exclusive == ASSUME FewSurvivors PROVE Spec => []ClaimExclusive
<1>1. IInv => ClaimExclusive
  BY OneOwner DEF IInv, OwnFile, ClaimExclusive
<1> QED
  BY <1>1, Invariant, PTL

\* Every live target can be found and closed by its name.
THEOREM TargetsRegistered == ASSUME FewSurvivors PROVE Spec => []LiveTargetRegistered
BY Invariant, PTL DEF IInv

\* saveTarget never overwrites the entry of another target.
THEOREM EntryKept == ASSUME FewSurvivors PROVE Spec => NoEntryReplaced
<1>1. IInv /\ [Next]_vars => (entry' # entry => entry = 0 \/ entry' = 0)
  <2> SUFFICES ASSUME IInv, [Next]_vars, entry' # entry PROVE entry = 0 \/ entry' = 0
    OBVIOUS
  <2>1. ASSUME NEW t \in Tasks, Claiming(t) PROVE FALSE
    BY <2>1 DEF Claiming, Begin, Create, WriteClaim, StatClaim, ReadClaim, CompareInode,
                RemoveStale, Delay, Look
  <2>2. ASSUME NEW t \in Tasks, Using(t) \/ WorkerEnds(t) PROVE entry = 0 \/ entry' = 0
    BY <2>2 DEF Using, Launch, Check, Probe, StartTarget, SaveTarget, CloseTarget, Release,
                WorkerEnds, Go, IInv, EntryKnown
  <2> QED
    BY <2>1, <2>2 DEF Next, Vanish, Crash, vars
<1> QED
  BY <1>1, Invariant, PTL DEF Spec, NoEntryReplaced

\* settledTarget reads the registry while no start or close of its process is in progress, and
\* claimNameForOperation refuses a call only where a request, or another process, has the name.
THEOREM Serialized == ASSUME FewSurvivors PROVE Spec => OperationsSerialized
<1>1. IInv /\ [Next]_vars =>
        \A t \in Tasks : pc[t] = "look" /\ pc'[t] = "done" =>
          \A u \in Tasks : Home[u] = Home[t] /\ Op[u] \in Operations => pc[u] \notin Holding
  BY DEF IInv, TurnsOK
<1>2. IInv /\ [Next]_vars =>
        \A t \in Tasks : Op[t] \in Operations /\ pc[t] # "refused" /\ pc'[t] = "refused" =>
          ~(Home[file.by] = Home[t] /\ Op[file.by] \in Operations)
  <2> SUFFICES ASSUME IInv, [Next]_vars, NEW t \in Tasks, Op[t] \in Operations,
                      pc[t] # "refused", pc'[t] = "refused",
                      Home[file.by] = Home[t], Op[file.by] \in Operations
               PROVE  FALSE
    OBVIOUS
  <2> USE DEF IInv, TypeOK, Go
  <2>1. ReadClaim(t)
    <3>1. ASSUME NEW u \in Tasks, Begin(u) \/ Create(u) \/ WriteClaim(u) \/ Delay(u) \/ Look(u)
                 \/ WorkerEnds(u)
          PROVE  FALSE
      BY <3>1 DEF Begin, Create, WriteClaim, Delay, Look, WorkerEnds
    <3>2. ASSUME NEW u \in Tasks, StatClaim(u) \/ CompareInode(u) \/ RemoveStale(u) PROVE FALSE
      BY <3>2 DEF StatClaim, CompareInode, RemoveStale, NotHeld
    <3>3. ASSUME NEW u \in Tasks, Using(u) PROVE FALSE
      BY <3>3 DEF Using, Launch, Check, Probe, StartTarget, SaveTarget, CloseTarget, Release
    <3>4. ASSUME NEW u \in Tasks, ReadClaim(u) PROVE u = t
      BY <3>4 DEF ReadClaim, NotHeld, Held
    <3> QED
      BY <3>1, <3>2, <3>3, <3>4 DEF Next, Claiming, Vanish, Crash, vars
  <2>2. file # NoFile /\ ~HeldForOperation(file) /\ pc[t] = "read" /\ Runs(t)
    BY <2>1 DEF ReadClaim, NotHeld, Held
  <2>3. ~file.written /\ file.by \in Tasks
    BY <2>2 DEF HeldForOperation, File
  <2> QED
    BY <2>2, <2>3 DEF TurnsOK, Runs, Waiting, Ended
<1>3. Spec => LookupSettled
  BY <1>1, Invariant, PTL DEF Spec, LookupSettled
<1>4. Spec => OperationsWait
  BY <1>2, Invariant, PTL DEF Spec, OperationsWait
<1> QED
  BY <1>3, <1>4, PTL DEF OperationsSerialized

-----------------------------------------------------------------------------
(* What the name promises *)

\* The calls that use the name, and those that have started a target they have not saved,
\* where calls are at the points p.
Users(p) == {t \in Tasks : p[t] \in Holding}
Unsaved(p) == {t \in Tasks : p[t] = "save"}

\* Where one call uses the name no other does, before and after a step of that call.
LEMMA OneUser ==
  ASSUME OwnFile, NEW t \in Tasks, pc[t] \in Holding,
         NEW p, \A u \in Tasks \ {t} : p[u] = pc[u]
  PROVE  /\ Users(p) = IF p[t] \in Holding THEN {t} ELSE {}
         /\ Unsaved(p) = IF p[t] = "save" THEN {t} ELSE {}
<1>1. \A u \in Tasks \ {t} : p[u] \notin Holding
  BY OneOwner
<1>2. "save" \in Holding
  BY DEF Holding
<1> QED
  BY <1>1, <1>2 DEF Users, Unsaved

\* The variables of NamedTarget are as they were.
NameUnchanged == UNCHANGED <<Users(pc), Unsaved(pc), entry, live, abandoned>>

\* A call that claims the name comes to use it with the text of its claim file.
LEMMA ClaimingPromised ==
  ASSUME TypeOK, OwnFile, NEW t \in Tasks, Claiming(t)
  PROVE  NameUnchanged \/ NameKept!Acquire(t)
<1> USE DEF TypeOK, Go
<1>1. CASE WriteClaim(t)
  <2>1. /\ pc[t] = "write" /\ pc'[t] \in Holding /\ pc'[t] # "save"
        /\ \A u \in Tasks \ {t} : pc'[u] = pc[u]
        /\ UNCHANGED <<entry, live, abandoned>>
    BY <1>1 DEF WriteClaim, Holding
  <2>2. \A u \in Tasks : pc[u] \notin Holding
    BY <2>1, OneOwner DEF Holding
  <2>3. Users(pc) = {} /\ Users(pc') = {t}
    BY <2>1, <2>2 DEF Users
  <2>4. Unsaved(pc) = {} /\ Unsaved(pc') = {}
    BY <2>1, <2>2 DEF Unsaved, Holding
  <2> QED
    BY <2>1, <2>3, <2>4 DEF NameKept!Acquire, Users, Unsaved
<1>2. CASE ~WriteClaim(t)
  <2>1. /\ pc[t] \notin Holding /\ pc'[t] \notin Holding
        /\ \A u \in Tasks \ {t} : pc'[u] = pc[u]
        /\ UNCHANGED <<entry, live, abandoned>>
    <3>1. CASE Begin(t) \/ Create(t) \/ Delay(t) \/ Look(t)
      BY <3>1 DEF Begin, Create, Delay, Look, Holding
    <3>2. CASE StatClaim(t) \/ ReadClaim(t) \/ CompareInode(t) \/ RemoveStale(t)
      BY <3>2 DEF StatClaim, ReadClaim, CompareInode, RemoveStale, NotHeld, Held, Holding
    <3> QED
      BY <1>2, <3>1, <3>2 DEF Claiming
  <2>2. Users(pc') = Users(pc)
    BY <2>1 DEF Users
  <2>3. Unsaved(pc') = Unsaved(pc)
    BY <2>1 DEF Unsaved, Holding
  <2> QED
    BY <2>1, <2>2, <2>3 DEF NameUnchanged, Users, Unsaved
<1> QED
  BY <1>1, <1>2

\* The call that uses the name starts, saves, forgets or closes what is registered, or leaves.
LEMMA UsingPromised ==
  ASSUME TypeOK, OwnFile, EntryKnown, NEW t \in Tasks, Using(t) \/ WorkerEnds(t)
  PROVE  \/ NameUnchanged
         \/ \/ NameKept!Leave(t) \/ NameKept!Start(t) \/ NameKept!Register(t)
            \/ NameKept!Forget(t) \/ NameKept!Close(t) \/ NameKept!GiveUp(t)
<1> USE DEF TypeOK, Go
<1>1. pc[t] \in Holding /\ \A u \in Tasks \ {t} : pc'[u] = pc[u]
  BY DEF Using, Launch, Check, Probe, StartTarget, SaveTarget, CloseTarget, Release, WorkerEnds,
         Holding
<1>2. /\ Users(pc) = {t} /\ Unsaved(pc) = IF pc[t] = "save" THEN {t} ELSE {}
      /\ Users(pc') = IF pc'[t] \in Holding THEN {t} ELSE {}
      /\ Unsaved(pc') = IF pc'[t] = "save" THEN {t} ELSE {}
  BY <1>1, OneUser
<1>3. ASSUME pc[t] # "save", pc'[t] \in Holding \ {"save"}, UNCHANGED <<entry, live, abandoned>>
      PROVE  NameUnchanged
  BY <1>2, <1>3 DEF NameUnchanged
<1>4. CASE Launch(t) \/ Check(t) \/ WorkerEnds(t)
  BY <1>3, <1>4 DEF Launch, Check, WorkerEnds, Holding
<1>5. CASE Probe(t)
  <2>1. CASE pc'[t] = "start"
    <3>1. entry \notin live /\ entry' = 0 /\ pc[t] = "probe" /\ UNCHANGED <<live, abandoned>>
      BY <1>5, <2>1 DEF Probe, EntryKnown
    <3> QED
      BY <1>2, <2>1, <3>1 DEF NameKept!Forget, Users, Unsaved, Holding
  <2>2. CASE pc'[t] # "start"
    BY <1>3, <1>5, <2>2 DEF Probe, Holding
  <2> QED
    BY <2>1, <2>2
<1>6. CASE StartTarget(t)
  <2>1. pc[t] = "start" /\ entry = 0 /\ entry' = entry
    BY <1>6 DEF StartTarget, EntryKnown
  <2>2. CASE pc'[t] = "save" /\ live' = live \cup {t} /\ UNCHANGED abandoned
    BY <1>2, <2>1, <2>2 DEF NameKept!Start, Users, Unsaved, Holding
  <2>3. CASE pc'[t] = "release" /\ UNCHANGED <<live, abandoned>>
    BY <1>3, <2>1, <2>3 DEF Holding
  <2>4. CASE pc'[t] = "release" /\ abandoned' = abandoned \cup {t} /\ live' \in {live, live \cup {t}}
    BY <1>2, <2>1, <2>4 DEF NameKept!GiveUp, Users, Unsaved, Holding
  <2> QED
    BY <1>6, <2>2, <2>3, <2>4 DEF StartTarget
<1>7. CASE SaveTarget(t)
  <2>1. /\ pc[t] = "save" /\ pc'[t] \in Holding \ {"save"}
        /\ entry = 0 /\ entry' = t /\ UNCHANGED <<live, abandoned>>
    BY <1>7 DEF SaveTarget, EntryKnown, Holding
  <2> QED
    BY <1>2, <2>1 DEF NameKept!Register, Users, Unsaved
<1>8. CASE CloseTarget(t)
  <2>1. pc[t] = "closing" /\ pc'[t] = "release" /\ target[t] = entry /\ UNCHANGED abandoned
    BY <1>8 DEF CloseTarget, EntryKnown
  <2>2. CASE live' = live \ {target[t]} /\ entry' = 0
    BY <1>2, <2>1, <2>2 DEF NameKept!Close, Users, Unsaved, Holding
  <2>3. CASE UNCHANGED <<live, entry>>
    BY <1>3, <2>1, <2>3 DEF Holding
  <2> QED
    BY <1>8, <2>2, <2>3 DEF CloseTarget
<1>9. CASE Release(t)
  <2>1. /\ pc[t] = "release" /\ pc'[t] = "done" /\ UNCHANGED <<entry, live, abandoned>>
    BY <1>9 DEF Release
  <2>2. pc'[t] \notin Holding
    BY <2>1 DEF Holding
  <2> QED
    BY <1>2, <2>1, <2>2 DEF NameKept!Leave, Users, Unsaved
<1> QED
  BY <1>4, <1>5, <1>6, <1>7, <1>8, <1>9 DEF Using

\* The death of a process frees the name that one of its calls used.
LEMMA CrashPromised ==
  ASSUME TypeOK, OwnFile, NEW p \in Processes, Crash(p)
  PROVE  NameUnchanged \/ NameKept!Die
<1>1. /\ \A t \in Tasks : pc'[t] = IF Home[t] = p /\ pc[t] \notin Ended THEN "crashed" ELSE pc[t]
      /\ abandoned' = abandoned \cup {t \in Tasks : Home[t] = p /\ pc[t] = "save"}
      /\ UNCHANGED <<entry, live>>
  BY DEF Crash
<1>2. Holding \cap Ended = {} /\ "crashed" \notin Holding /\ "save" \in Holding
  BY DEF Holding, Ended
<1>3. CASE \E t \in Tasks : Home[t] = p /\ pc[t] \in Holding
  <2>1. PICK t \in Tasks : Home[t] = p /\ pc[t] \in Holding
    BY <1>3
  <2>2. \A u \in Tasks \ {t} : pc[u] \notin Holding
    BY <2>1, OneOwner
  <2>3. \A u \in Tasks : pc'[u] \notin Holding
    BY <1>1, <1>2, <2>1, <2>2
  <2>4. Users(pc) = {t} /\ Users(pc') = {}
    BY <2>1, <2>2, <2>3 DEF Users
  <2>5. Unsaved(pc') = {} /\ {u \in Tasks : Home[u] = p /\ pc[u] = "save"} = Unsaved(pc)
    BY <1>2, <2>1, <2>2, <2>3 DEF Unsaved
  <2> QED
    BY <1>1, <2>4, <2>5 DEF NameKept!Die, Users, Unsaved
<1>4. CASE \A t \in Tasks : Home[t] = p => pc[t] \notin Holding
  <2>1. Users(pc') = Users(pc)
    BY <1>1, <1>2, <1>4 DEF Users
  <2>2. Unsaved(pc') = Unsaved(pc)
    BY <1>1, <1>2, <1>4 DEF Unsaved
  <2>3. abandoned' = abandoned
    BY <1>1, <1>2, <1>4
  <2> QED
    BY <1>1, <2>1, <2>2, <2>3 DEF NameUnchanged
<1> QED
  BY <1>3, <1>4

\* Every step of the calls, their targets and processes is one of the name, or none.
LEMMA StepPromised == IInv /\ [Next]_vars => [NameKept!Next]_NameKept!nameVars
<1> SUFFICES ASSUME IInv, [Next]_vars PROVE [NameKept!Next]_NameKept!nameVars
  OBVIOUS
<1> USE DEF IInv
<1>1. NameUnchanged => UNCHANGED NameKept!nameVars
  BY DEF NameUnchanged, NameKept!nameVars, Users, Unsaved
<1>2. ASSUME NEW t \in Tasks, Claiming(t) PROVE [NameKept!Next]_NameKept!nameVars
  BY <1>1, <1>2, ClaimingPromised DEF NameKept!Next
<1>3. ASSUME NEW t \in Tasks, Using(t) \/ WorkerEnds(t) PROVE [NameKept!Next]_NameKept!nameVars
  BY <1>1, <1>3, UsingPromised DEF NameKept!Next
<1>4. ASSUME NEW p \in Processes, Crash(p) PROVE [NameKept!Next]_NameKept!nameVars
  BY <1>1, <1>4, CrashPromised DEF NameKept!Next
<1>5. CASE Vanish
  BY <1>5 DEF Vanish, NameKept!Next, NameKept!Vanish
<1>6. CASE UNCHANGED vars
  BY <1>6 DEF vars, NameKept!nameVars
<1> QED
  BY <1>2, <1>3, <1>4, <1>5, <1>6 DEF Next

\* Claim files and registry entries, used as the tools use them, give every name what
\* NamedTarget promises (tryClaimName, saveTarget, removeTarget and their callers).
THEOREM NamedTargetImplemented == ASSUME FewSurvivors PROVE Spec => ImplementsNamedTarget
<1>1. Init => NameKept!Init
  BY DEF Init, NameKept!Init, Holding
<1> QED
  BY <1>1, StepPromised, Invariant, PTL DEF Spec, ImplementsNamedTarget, NameKept!Spec
=============================================================================
