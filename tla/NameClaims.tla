------------------------------ MODULE NameClaims ------------------------------
(***************************************************************************)
(* The claim on one target name and the registry entry it protects:        *)
(* orchestration/workers.ts, with the tools that claim or look up a name   *)
(* (panel-start, panel-close, panel-read and -send, runEphemeralWorker and *)
(* forkHere).  Several Pi processes share the claim file; inside one       *)
(* process the tools of a batch run concurrently and interleave at their   *)
(* awaits only.  File operations are single steps, so that those of two    *)
(* processes interleave between any two system calls.                      *)
(***************************************************************************)
EXTENDS Naturals, FiniteSets

CONSTANTS
  Tasks,       \* tool calls that use the name; in one process, numbered in call order
  Processes,
  Home,        \* the process of a task
  Op,          \* its tool: "start", "close", "lookup", "worker" or "fork"
  Registered,  \* the target registered at first, or 0
  Inodes,      \* bound: inode numbers the file system gives to claim files
  MaxCrashes   \* bound: processes that may die

Ops == {"start", "close", "lookup", "worker", "fork"}

ASSUME ClaimsAssumption ==
  /\ Tasks \subseteq Nat \ {0}
  /\ Home \in [Tasks -> Processes] /\ Op \in [Tasks -> Ops]
  /\ Registered \in Nat \ Tasks
  /\ Inodes \subseteq Nat \ {0} /\ MaxCrashes \in Nat

VARIABLES
  pc, stage,   \* where a task is, and what it asks the holder of the claim for
  seen,        \* inode of the claim it has read
  target,      \* the target it starts, probes or closes; 0: none
  file,        \* the claim file
  entry,       \* target of the registry entry; 0: none
  live,        \* targets that exist on their host
  abandoned,   \* history: targets whose creator gave them up, by an abort or a crash
  dead         \* processes that have crashed

vars == <<pc, stage, seen, target, file, entry, live, abandoned, dead>>

\* A claim file: its inode, the task that created it, and whether its text is there yet.
File == [ino : Inodes, by : Tasks, written : BOOLEAN]
NoFile == [ino |-> 0, by |-> 0, written |-> FALSE]

\* A start or close claims the name for seconds, a worker or a fork for a request.
Operations == {"start", "close"}

\* Wrong: the purpose is not read back.
PurposeUnread(f) == FALSE
\* Wrong: every claim is waited for.
AnyHolder(f) == f.written

\* What a reader of the file can tell of its holder's purpose.
HeldForOperation(f) == f.written /\ Op[f.by] \in Operations

\* An empty file names no process, which therefore is presumed to exist.
PresumedAlive(f) == ~f.written \/ Home[f.by] \notin dead

\* Points at which a task waits for a timer, a host or a worker; at any other one its
\* process runs no other task.
Waiting == {"new", "delay", "launch", "probe", "start", "running", "closing"}
Ended == {"done", "refused", "crashed"}
Runs(t) ==
  /\ Home[t] \notin dead
  /\ \A u \in Tasks \ {t} : Home[u] = Home[t] => pc[u] \in Waiting \cup Ended

Go(t, here, there) == pc[t] = here /\ pc' = [pc EXCEPT ![t] = there]

Holding == {"check", "launch", "probe", "start", "save", "running", "closing", "release"}

-----------------------------------------------------------------------------
(* Taking the claim: tryClaimName, claimNameForOperation, settledTarget *)

\* A batch begins its calls in order, and each runs at once up to its first await.
Begin(t) ==
  /\ Runs(t)
  /\ \A u \in Tasks : Home[u] = Home[t] /\ u < t => pc[u] # "new"
  /\ Go(t, "new", IF Op[t] = "lookup" THEN "stat" ELSE "create")
  /\ UNCHANGED <<stage, seen, target, file, entry, live, abandoned, dead>>

\* Wrong: open without O_EXCL.
CreateShared(t) ==
  /\ Runs(t) /\ Go(t, "create", "write")
  /\ \E i \in Inodes : file' = [ino |-> i, by |-> t, written |-> FALSE]
  /\ UNCHANGED <<stage, seen, target, entry, live, abandoned, dead>>

\* open with O_EXCL.
Create(t) ==
  /\ Runs(t)
  /\ \/ /\ file = NoFile /\ Go(t, "create", "write")
        /\ \E i \in Inodes : file' = [ino |-> i, by |-> t, written |-> FALSE]
        /\ UNCHANGED stage
     \/ /\ file # NoFile /\ Go(t, "create", "stat")
        /\ stage' = [stage EXCEPT ![t] = "try"]
        /\ UNCHANGED file
  /\ UNCHANGED <<seen, target, entry, live, abandoned, dead>>

\* The text goes to the file this task created, wherever that is now.
WriteClaim(t) ==
  /\ Runs(t) /\ Go(t, "write", IF Op[t] = "start" THEN "launch" ELSE "check")
  /\ file' = IF file.by = t THEN [file EXCEPT !.written = TRUE] ELSE file
  /\ UNCHANGED <<stage, seen, target, entry, live, abandoned, dead>>

\* liveClaim has answered: the holder f, or none.
Held(t, f) ==
  \/ stage[t] = "try" /\ Op[t] \in Operations
       /\ pc' = [pc EXCEPT ![t] = "stat"] /\ stage' = [stage EXCEPT ![t] = "inspect"]
  \/ stage[t] = "try" /\ Op[t] \notin Operations
       /\ pc' = [pc EXCEPT ![t] = "refused"] /\ UNCHANGED stage
  \/ stage[t] = "inspect"
       /\ pc' = [pc EXCEPT ![t] = IF HeldForOperation(f) THEN "delay" ELSE "refused"]
       /\ UNCHANGED stage
  \/ stage[t] = "settle"
       /\ pc' = [pc EXCEPT ![t] = IF HeldForOperation(f) THEN "delay" ELSE "look"]
       /\ UNCHANGED stage

NotHeld(t) ==
  /\ pc' = [pc EXCEPT ![t] = CASE stage[t] = "try" -> "create"
                               [] stage[t] = "inspect" -> "delay"
                               [] stage[t] = "settle" -> "look"]
  /\ UNCHANGED stage

StatClaim(t) ==
  /\ Runs(t) /\ pc[t] = "stat"
  /\ \/ file = NoFile /\ NotHeld(t) /\ UNCHANGED seen
     \/ /\ file # NoFile /\ Go(t, "stat", "read")
        /\ seen' = [seen EXCEPT ![t] = file.ino] /\ UNCHANGED stage
  /\ UNCHANGED <<target, file, entry, live, abandoned, dead>>

\* Reading the text and probing its process.
ReadClaim(t) ==
  /\ Runs(t) /\ pc[t] = "read"
  /\ \/ file = NoFile /\ NotHeld(t)
     \/ file # NoFile /\ PresumedAlive(file) /\ Held(t, file)
     \/ file # NoFile /\ ~PresumedAlive(file) /\ Go(t, "read", "restat") /\ UNCHANGED stage
  /\ UNCHANGED <<seen, target, file, entry, live, abandoned, dead>>

\* Is the stale file still the one under that name?
CompareInode(t) ==
  /\ Runs(t) /\ pc[t] = "restat"
  /\ \/ file.ino = seen[t] /\ Go(t, "restat", "remove") /\ UNCHANGED stage
     \/ file.ino # seen[t] /\ NotHeld(t)
  /\ UNCHANGED <<seen, target, file, entry, live, abandoned, dead>>

RemoveStale(t) ==
  /\ Runs(t) /\ pc[t] = "remove"
  /\ NotHeld(t)
  /\ file' = NoFile
  /\ UNCHANGED <<seen, target, entry, live, abandoned, dead>>

\* The poll of an operation or a lookup, unless its call is aborted.
Delay(t) ==
  /\ Runs(t)
  /\ \/ Go(t, "delay", IF Op[t] = "lookup" THEN "stat" ELSE "create")
     \/ Go(t, "delay", "done")
  /\ UNCHANGED <<stage, seen, target, file, entry, live, abandoned, dead>>

\* settledTarget reads the registry in the same turn in which no operation held the name.
Look(t) ==
  /\ Runs(t) /\ Go(t, "look", "done")
  /\ target' = [target EXCEPT ![t] = entry]
  /\ UNCHANGED <<stage, seen, file, entry, live, abandoned, dead>>

-----------------------------------------------------------------------------
(* Using the name *)

\* panelLaunch checks the command's folder.
Launch(t) ==
  /\ Runs(t)
  /\ Go(t, "launch", "check") \/ Go(t, "launch", "release")
  /\ UNCHANGED <<stage, seen, target, file, entry, live, abandoned, dead>>

\* Only a close needs a registered target; a start may replace one that is gone.
Check(t) ==
  /\ Runs(t) /\ pc[t] = "check"
  /\ target' = [target EXCEPT ![t] = entry]
  /\ pc' = [pc EXCEPT ![t] = CASE Op[t] = "close" -> IF entry = 0 THEN "release" ELSE "closing"
                               [] entry = 0 -> "start"
                               [] Op[t] = "start" -> "probe"
                               [] OTHER -> "release"]
  /\ UNCHANGED <<stage, seen, file, entry, live, abandoned, dead>>

\* Wrong: a start replaces whatever is registered.
ProbeNothing(t) ==
  /\ Runs(t) /\ Go(t, "probe", "start") /\ entry' = 0
  /\ UNCHANGED <<stage, seen, target, file, live, abandoned, dead>>

\* host.state: missing, or an answer or failure that refuses the start.
Probe(t) ==
  /\ Runs(t)
  /\ \/ Go(t, "probe", "start") /\ target[t] \notin live /\ entry' = 0
     \/ Go(t, "probe", "release") /\ UNCHANGED entry
  /\ UNCHANGED <<stage, seen, target, file, live, abandoned, dead>>

\* host.start.  A fork aborted right after it closes its target and ignores a failure to.
StartTarget(t) ==
  /\ Runs(t)
  /\ \/ /\ Go(t, "start", "save")
        /\ live' = live \cup {t} /\ target' = [target EXCEPT ![t] = t]
        /\ UNCHANGED abandoned
     \/ Go(t, "start", "release") /\ UNCHANGED <<live, target, abandoned>>
     \/ /\ Op[t] = "fork" /\ Go(t, "start", "release")
        /\ abandoned' = abandoned \cup {t} /\ live' \in {live, live \cup {t}}
        /\ UNCHANGED target
  /\ UNCHANGED <<stage, seen, file, entry, dead>>

SaveTarget(t) ==
  /\ Runs(t) /\ Go(t, "save", IF Op[t] = "worker" THEN "running" ELSE "release")
  /\ entry' = target[t]
  /\ UNCHANGED <<stage, seen, target, file, live, abandoned, dead>>

\* waitForWorkerResult returns or throws.
WorkerEnds(t) ==
  /\ Runs(t) /\ Go(t, "running", "closing")
  /\ UNCHANGED <<stage, seen, target, file, entry, live, abandoned, dead>>

\* host.close and then removeTarget; a failed close keeps the entry.
CloseTarget(t) ==
  /\ Runs(t) /\ Go(t, "closing", "release")
  /\ \/ live' = live \ {target[t]} /\ entry' = 0
     \/ UNCHANGED <<live, entry>>
  /\ UNCHANGED <<stage, seen, target, file, abandoned, dead>>

Release(t) ==
  /\ Runs(t) /\ Go(t, "release", "done")
  /\ file' = NoFile
  /\ UNCHANGED <<stage, seen, target, entry, live, abandoned, dead>>

-----------------------------------------------------------------------------
(* The environment *)

\* A target ends or is destroyed outside Pi.
Vanish ==
  /\ \E x \in live : live' = live \ {x}
  /\ UNCHANGED <<pc, stage, seen, target, file, entry, abandoned, dead>>

Crash(p) ==
  /\ p \notin dead /\ Cardinality(dead) < MaxCrashes
  /\ dead' = dead \cup {p}
  /\ pc' = [t \in Tasks |-> IF Home[t] = p /\ pc[t] \notin Ended THEN "crashed" ELSE pc[t]]
  /\ abandoned' = abandoned \cup {t \in Tasks : Home[t] = p /\ pc[t] = "save"}
  /\ UNCHANGED <<stage, seen, target, file, entry, live>>

-----------------------------------------------------------------------------
Init ==
  /\ pc = [t \in Tasks |-> "new"]
  /\ stage = [t \in Tasks |-> IF Op[t] = "lookup" THEN "settle" ELSE "try"]
  /\ seen = [t \in Tasks |-> 0] /\ target = [t \in Tasks |-> 0]
  /\ file = NoFile
  /\ entry = Registered /\ live = {Registered} \ {0}
  /\ abandoned = {} /\ dead = {}

Claiming(t) ==
  \/ Begin(t) \/ Create(t) \/ WriteClaim(t) \/ StatClaim(t) \/ ReadClaim(t)
  \/ CompareInode(t) \/ RemoveStale(t) \/ Delay(t) \/ Look(t)

Using(t) ==
  \/ Launch(t) \/ Check(t) \/ Probe(t) \/ StartTarget(t) \/ SaveTarget(t)
  \/ CloseTarget(t) \/ Release(t)

Next ==
  \/ \E t \in Tasks : Claiming(t) \/ Using(t) \/ WorkerEnds(t)
  \/ Vanish
  \/ \E p \in Processes : Crash(p)

Spec == Init /\ [][Next]_vars

\* The process of t runs, and t has a step to take.  A worker need not ever end.
Ready(t) ==
  /\ Runs(t) /\ pc[t] \notin Ended \cup {"running"}
  /\ pc[t] = "new" => \A u \in Tasks : Home[u] = Home[t] /\ u < t => pc[u] # "new"

\* Timers fire and host calls, which have deadlines, return; the event loop passes over no
\* ready task forever, although other tasks take turns.  This is strong fairness of
\* Claiming(t) \/ Using(t), each step of which moves t, with Ready(t) for its ENABLED.
FairSpec == Spec /\ \A t \in Tasks : []<>Ready(t) => []<><<pc'[t] # pc[t]>>_vars

-----------------------------------------------------------------------------
Points == Waiting \cup Ended \cup Holding
          \cup {"create", "write", "stat", "read", "restat", "remove", "look"}

\* Every variable keeps its type.
TypeOK ==
  /\ pc \in [Tasks -> Points]
  /\ stage \in [Tasks -> {"try", "inspect", "settle"}]
  /\ seen \in [Tasks -> Inodes \cup {0}]
  /\ target \in [Tasks -> Tasks \cup {0, Registered}]
  /\ file \in File \cup {NoFile}
  /\ entry \in Tasks \cup {0, Registered}
  /\ live \subseteq Tasks \cup {Registered}
  /\ abandoned \subseteq Tasks
  /\ dead \subseteq Processes

\* At most one tool call at a time has the name, and the claim file is the one it created.
ClaimExclusive ==
  \A t \in Tasks : pc[t] \in Holding =>
    /\ file.by = t /\ file.written
    /\ \A u \in Tasks \ {t} : pc[u] \notin Holding

\* A start, worker or fork registers its target in place of no other one.
NoEntryReplaced == [][entry' # entry => entry = 0 \/ entry' = 0]_vars

\* A target that exists can be found by its name, except between host.start and saveTarget
\* and where its creator gave it up.
LiveTargetRegistered ==
  \A x \in live : x = entry \/ x \in abandoned \/ (\E t \in Tasks : pc[t] = "save" /\ target[t] = x)

\* A lookup never reads the registry in the middle of a start or close of its own process.
LookupSettled ==
  [][\A t \in Tasks : pc[t] = "look" /\ pc'[t] = "done" =>
       \A u \in Tasks : Home[u] = Home[t] /\ Op[u] \in Operations => pc[u] \notin Holding]_vars

\* An operation waits for the operations of its own process on the name; it fails at once
\* where a request holds the name.
OperationsWait ==
  [][\A t \in Tasks : Op[t] \in Operations /\ pc[t] # "refused" /\ pc'[t] = "refused" =>
       ~(Home[file.by] = Home[t] /\ Op[file.by] \in Operations)]_vars

\* Calls of one process on one name take their turns.
OperationsSerialized == LookupSettled /\ OperationsWait

\* No start, close, fork or lookup waits forever, even while a worker's request holds the name.
CallsEnd == \A t \in Tasks : Op[t] # "worker" => <>(pc[t] \in Ended)

\* Only its holder removes the claim of a process that exists: the comment on the removal of
\* a stale claim (workers.ts).  Three processes can break it: two find the claim of a third,
\* dead one stale; one removes it and creates its own, and the other removes that.
OnlyStaleRemoved ==
  [][file # NoFile /\ file.written /\ Home[file.by] \notin dead /\ file' # file =>
       pc[file.by] = "release"]_vars

-----------------------------------------------------------------------------
\* Claims, entries and targets together keep what the name promises: one user at a time,
\* whichever process it runs in and whoever dies (tryClaimName, saveTarget, removeTarget).
NameKept == INSTANCE NamedTarget WITH
  users <- {t \in Tasks : pc[t] \in Holding},
  unsaved <- {t \in Tasks : pc[t] = "save"}

ImplementsNamedTarget == NameKept!Spec
=============================================================================
