# A verification project for pi-ant

pi-ant is a set of TypeScript extensions for the coding agent Pi: workers that
run a task in a Pi process of their own, panels, hand-overs of a conversation
between front ends, an automatic plan-and-do workflow, and smaller editing
helpers. This directory holds TLA+ models of its concurrent core, the TLC
configurations that check them on small instances, and theorems about them that
TLAPS has checked. All paths below are relative to the repository.

Run in this directory:

    tlc -workers 2 -config WorkerFrame.cfg MCWorkerFrame    (and so on, see "Runs")
    tlapm WorkerFrameProofs.tla

## 1. Inventory

"Modelled" names the module; the others are in section 8.

| Component | Source | State | Operations | Model |
|---|---|---|---|---|
| Worker process | `orchestration/worker-frame.ts`, `extensions/self-compact.ts` | the active request (phase, saved main result, waiting reason, guidance), the pending compaction handoff; `result.json`, `status.json` | `/worker-run`, `/worker-return`, Pi's events, `self_compact`, shutdown | `WorkerFrame` |
| Parent of a worker | `orchestration/workers.ts` | the claim on the name, the target, its registry entry, the worker's PID, the grace period | start, wait, cancel, close | `WorkerWait` |
| Names and registry | `orchestration/workers.ts`, used by `panels.ts`, `fork-here.ts` | `<name>.json`, `<name>.json.claim` shared by all Pi processes | claim, wait for an operation, remove a stale claim, save, remove, look up | `NameClaims` |
| Panels and waits | `extensions/panels.ts`, `extensions/wait.ts`, `panel-output.ts`, `shell/osc133.*` | output log, `wait.json` cursor, offsets of each call | send, wait for text, prompt, exit; read | `PanelOutput`; start and close in `NameClaims` |
| Host selection | `host.ts`, `nesting.ts` | frozen environment, chain of starts, nesting depth | start, state, close | as called by the above; the chain is planned |
| Host adapters | `hosts/*.ts`, `emacs/*.el` | none, or a server's | tmux, Herdr, Emacs, Tau commands | as called by the above |
| Tau server start-up | `tau-server.ts` | `startup.lock`, `server.json`, the child of each call | find, ensure, stop | `TauStartup` |
| Session take-over | `extensions/take.ts`, `session-take.ts`, `session-transfer.ts` | `takeState` of each process (role, peer, flags, dispatch), a socket per process, session files | `/take`, its private command, load | `SessionTake` |
| Switching | `extensions/switch.ts`, `switch-destinations.ts`, `switch-emacs.ts` | the transfer in progress | `/switch` | `SessionTake`, without the start of a destination |
| Working directory | `extensions/cwd.ts`, `worktree.ts` | the session file, rewritten in place | `/cwd`; `/worktree` | `/cwd` in `SessionTake` |
| Ugo workflow | `extensions/ugo.ts`, `workflow-core.ts`, `guidance-core.ts` | the session's latest state, the state each side holds across its awaits, watchers, uncommitted changes | `/ugo`, `/ugo-pause`, guide, do, retrospective | `Ugo` |
| Herdr finish | `extensions/herdr-finish.ts`, `-wait.ts`, `-client.ts` | revision, subscriptions, blocked state, the scheduled wait | both commands, their cancellation, the wait | `HerdrFinish` |
| Document-flow review | `extensions/document-flow-review*.ts` | protocol of the reading tool, attempts, artifact files | tool and command, reading tool, segmentation | `DocumentReview`, `Segmentation` |
| Ask tool | `extensions/ask.ts` | results of the questions, selection, custom text, draft, cursor | picker, dialogs, editors, discussion fork, abort | `Ask` |
| Delegate tools | `extensions/delegate.ts`, `delegate-alt.ts`, `codemode-delegate.ts` | none | check arguments, run a worker | no |
| Remote execution | `ssh.ts`, `remote-*.ts` | control sockets | run, kill, read, write | no |
| Lints, tool selection, editing, dialogs | `extensions/*.ts` | mostly per call | | no |

How they interact. A worker tool (the parent) claims a name, asks a host for a
new Pi process and then only watches files and the process: it sends the worker
no message. The worker writes `status.json` (with its PID) and, once,
`result.json`. The human talks to the worker directly, so its runs, hand-backs
and messages are not the parent's. Inside the worker, `self_compact` and the
worker frame share events (`self-compact-handoff.ts`), and the worker frame and
the provider share a policy and a status event. The ugo loop replaces its own
session at every step; it runs in the extension instance that `/ugo` started,
while commands, tools and events are handled by the current session's instance,
and the two share only the session's entries. Panel tools, workers and forks
of every Pi process on the machine share the claim and registry files. A panel's
program runs under `script`, which appends what it shows to a log; waits and
panel-sends only read that log, ask the host whether the panel lives, and share
one cursor file per panel. Pi processes that show conversations find each other
by their sockets: a `/take` is two requests in opposite directions, each of which
lives as long as its connection, and what they move is a session file that both
processes keep a view of in memory. The clients that start the Tau server share
a lock file and the server's publication.

What is hard here: handlers that await in the middle (`/worker-run`,
`/worker-return`); the gap between `agent_end` and `agent_settled`; two
extensions whose shutdown handlers run in either order; a poll that reads three
things that change independently (result, status, process); file locks without
kernel locks (O_EXCL, liveness probes, inode comparison); timers that race with
what they wait for; output that arrives in pieces while it is searched; a pause
typed while the code that must honour it awaits git; a session replaced under
the command that asked for it, with every context captured before stale; events
that arrive while the snapshot they change is under way; a dialog of a call that
was aborted meanwhile. `PROJECT.json` lists each
hazard at its line.

What makes each component correct:

- Worker process: exactly one result, never replaced; it is the saved main
  result once there is one; early hand-backs say so; it reports every message a
  human typed; its status is current; a worker that stopped says it waits.
- Parent: returns only what its worker published as finished work, never loses
  a published result, gives everything back, ends.
- Names: one holder; every live target can be found; nothing registered is
  overwritten; a batch acts in order; a dead holder blocks nothing.
- Panel output: a wait that reads the log ends at the first thing it waits for,
  and none at a prompt older than the latest input; a panel-send reports the end
  of its own command; every wait returns.
- Session hand-over: a source leaves only what the receiver shows whole; nobody
  continues, unwarned, from a view that lacks entries; no rewrite loses entries.
- Ugo: a step is committed before the next starts; a pause is honoured at the
  next checkpoint and never lost; what a do has learnt reaches the next guide;
  one loop runs at a time.
- Tau start-up: two clients' children never run at once, a failed call leaves no
  child unannounced, the claim is released, every call ends.
- Herdr finish: no wake-up is lost; a prompt comes only when the scope is quiet
  and Pi idle; a wait ends.
- Document review: the units cover the text in order; friction is recorded once
  per unit, before the next; a report is earned.
- Ask: an answer is what was given to that question; an aborted call asks
  nothing; the cursor is on the screen.

## 2. Modules

```
WorkerArtifacts      what a worker promises about its files
   ^        ^
   |        +--- WorkerWait      EXTENDS it: the parent and any such worker
   |                   |
   |                   v implements
   |              WorkerCall      what a worker tool promises its caller
   | implements
WorkerFrame          the worker process in detail

NameClaims           the claim and registry entry of one name
   |
   v implements
NamedTarget          what a name promises the tools that use it

PanelOutput          one panel's log, its cursor, and the calls that follow it

Ugo                  the ugo loop, its sessions, pauses and watchers

SessionTake          conversations between Pi processes: /take, /switch, /cwd
   |
   v implements
Conversations        what the processes promise about the session files they share

TauStartup           clients that start the shared server

HerdrFinish          the waits for other agents

Segmentation         the units of a document (pure)
   ^ extends
DocumentReview       the reading protocol and the run around it

Ask                  the questions of one call
```

The composition is by contract: `WorkerFrame` is shown to implement
`WorkerArtifacts`, and `WorkerWait` is checked against every behaviour of
`WorkerArtifacts`, of the worker (`WorkerStep`) and of another process with the
same request (`ForeignStep`), so the two detailed models never have to be
multiplied.
`WorkerWait` treats the name abstractly (`free`, `mine`, `other`); `NameClaims`
is that name in detail.

`MC*` modules give the constants model values or definitions; `*Proofs` modules
hold the theorems. `DocumentReview` and `Ask` put their name before the
definitions that every module has (`ReviewSpec`, `AskSpec`, `AskTypeOK`), so that
`ExtensionProofs` can extend them together with `HerdrFinish`.

### WorkerFrame

One action per handler; a handler that awaits is one action per part.

| Action | Code |
|---|---|
| `WorkerRun`, `ModelSelected` | `/worker-run` before and after `await setModel` |
| `WorkerReturn`, `ReturnIdle`, `ReturnFails` | `/worker-return` before and after `abort`/`waitForIdle`, and its catch |
| `Input`, `AgentStart`, `MessageEnd`, `TurnEnd`, `AgentEnd` | the handlers of those events |
| `SelfCompact`, `AgentSettled`, `CompactionEnd` | `self_compact` and, at `agent_settled`, both extensions in turn |
| `RecoveryStatus` | the provider's recovery events |
| `SessionShutdown` | quit or reload, both orders of the two extensions (`told`) |
| `CloseStatus`, `Exit` | the rest of `completeWorkerRequest` |
| `Crash`, `RivalCompletes`, `RivalReports`, `PromptRejected` | the environment |

`request` is `activeRequest`; `phase = "none"` is `undefined`. `Report`,
`Complete`, `BeginRetrospective` and `SettleFailure` are the helpers of the same
roles, written as the effect on the five variables a handler leaves behind.
`Complete` links `result.json` and leaves everything as it was if the file is
there, as the throwing link does. `handback` is the local state of a
`/worker-return` in progress. `heard` is a history variable.

Texts are model values: two assistant replies, one text a human returns, two
tool-call ids. What the guidance says is a count, because properties only ask
whether a message is in it. Pi's own rules are modelled as the handlers see
them: it retries only a run that ended with an error, compacts only after
`agent_settled`, starts a queued prompt as a new run.

### WorkerWait

`pc` is where `runEphemeralWorker` is; a step is the code between two awaits.
`HostStart` fails or leaves a live worker; `HostAnswers` may be right, fail
within the grace, or fail past it; `CloseTarget` may fail. The grace of five
seconds is `GracePolls` failed calls, and it may end after any of them, since a
call takes an unknown time. `OtherUser` is any other user of the name. The
worker takes any step of `WorkerArtifacts`, and so does another process that was
given the request (`OtherWorker`); `pid` tells whose PID the parent has read, and
for the other process a look at it may find it running or gone.

### NameClaims

`file` is the claim file with its inode and creator; every system call of
`tryClaimName`, `readClaim` and `liveClaim` is a step of its own across
processes, while within one process tasks interleave only at awaits (`Runs`).
`pc` is where a tool call is, `stage` which question it asks of the holder.
`Create` and `WriteClaim` are two steps because `writeFileSync` with `wx` is
open and write.

### Ugo

| Action | Code |
|---|---|
| `UgoCommand`, `UgoCannotRun`, `UgoStarts` | `/ugo`: waiting for idle, `ensureUgoCanRun`, the decision to refuse, resume or start |
| `UgoPause` | `/ugo-pause` |
| `PresentGuidance` | the tool `present_guidance` |
| `QueueReflection`, `ReflectionEnds`, `ReflectionCommitted` | `agent_end` of a do and of its reflection, before and after the commit |
| `RunEnds`, `PromptFails` | any other end of a run, and the return of the loop's `sendUserMessage` |
| `CheckGuidance`, `GuidanceCommitted` | `runGuideSession` after the run, before and after the commit; `ActOnGuidance` and `AwaitHuman` are `continueAfterGuidance` |
| `ScanStarts`, `ScanIdles`, `ScanFires` | a watcher's timer, and the end of its check |
| `HumanMessage`, `Edit`, `HumanEdits`, `Restart` | the environment |

`entry` is what `getLatestState` finds in the session; `mem` is `currentState`
of the session's instance. `loop` is where the `withSession` callback is that
drives the loop, with the state it captured; `ending` and `scan.state` are the
states that `agent_end` and a watcher hold across their awaits. `Replace` is a
new session: its instance starts from the entries, and everything that holds the
old session's context is stale. Uncommitted changes are split by who made them:
`step` by the guide or do in progress, `other` by anybody else. `asked`, `owed`,
`session` and `starter` are history variables. Of a guidance only its outcome
counts; a reflection is a model value.

### PanelOutput

| Action | Code |
|---|---|
| `WaitCall`, `WaitBegins` | `wait` up to `host.state`, and what it decides from the cursor, the size and the last mark |
| `WaitPolls`, `WaitLearns`, `WaitTimesOut` | a round of its loop, the rest of a round after `host.state`, the deadline |
| `SendCall`, `SendBegins`, `SendTypes` | `panel-send` up to `requireRunning`, `recordInput`, `host.send` |
| `SendFollows`, `SendGivesUp` | a round of `followCommand`, and its grace |
| `Abort` | the signal of a call that awaits something |
| `ShowPrompt`, `StartCommand` | whatever has the terminal (the panel's shell, one started in it, gdb) waits at its prompt, with a mark `A` or without, and reads a line, with a `C` or without |
| `ProgramWrites` | output, and marks: the `D` of the command's end, as `shell/osc133.fish` writes it, or those of a nested shell |
| `CommandReads`, `PanelExits`, `PanelVanishes` | the rest of the environment |

The log is a sequence of atoms, so that an offset is an index: text that the
waits' regular expression matches, other text, bytes without visible text,
newlines, marks, and the line with which `script` records an exit status.
`scanOutput` is the function of that name: lines and the trailing partial line
(`Candidates`), the first match or command end (`Found`), the next offset
(`ChunkNext`), all within `ReadLimit` atoms. `calls` holds the local variables of
each call and where it awaits; `spinning` is the call whose synchronous loop is
between two reads, during which no other call and no signal handler runs while
the panel goes on. A line is typed by the host (`typed`) and read later by the
program at the prompt or by a busy command. `read`, `sent` and the fields `from`,
`input`, `alone` and `ready` are history. `Banner`, `Output` and `Background` say
what may be written before a first line was read, by a busy program after that,
and while a program waits at its prompt; only the last excludes marks.

### SessionTake

| Action | Code |
|---|---|
| `Take`, `List`, `Choose`, `TakeEnds` | `/take`: up to the list, the list, the choice and the request, its end and `finally` |
| `TakeArrives`, `LoadArrives` | `listenTake` and `state.dispatch` |
| `ServeTake`, `SourceReady`, `SourceFails`, `RefuseTake`, `Leaves` | `/_session-take` in the source: the save and the request to load, its answers, the shutdown |
| `LoadBegins`, `LoadRefused`, `Loaded` | `/_session-take` in the receiver, before, instead of and inside `switchSession` |
| `TearsDown`, `SessionStarts` | `session_shutdown` and `session_start` around a replacement |
| `Switch`, `SwitchReloads`, `SwitchFails`, `Opens` | `/switch`: checks, save and reload, catch and finally, the destination's view |
| `Cwd`, `CwdCancelled`, `Replaced` | `/cwd`: rewrite and replacement, restoration, its callback |
| `Message`, `TurnEnds`, `Resume`, `Exits` | the environment |

`pi` is `takeState` of each process and what Pi keeps: the session file it has
open, its view of the entries, whether a turn runs, the take role (`active`),
the flags `replacing`, `transferring` and `restore`. `call` is the `/take` or
`/switch` of a process, `load` what a source asked of its receiver, `swap` a
replacement of a session in progress: `before` the old one is torn down, `torn`,
`cancelled`, and so on. `stale` says that the session of a captured context is
gone, so that using it throws. An entry is a number, a session file a set of
entries and the directory of its header. `warned` are the files a human was told
of. `cut` is a history variable for observation 6: the files whose load lost its
control state before the old session was torn down (`Cuts`), by the `finally` of
another request to the same process (`take.ts:172`). Whether the connection is
alive is whether both ends' processes are.

### TauStartup

A client's `at` is where its `ensureTauServer` is, a step the code between two
awaits or system calls; `claim` is `startup.lock`, created and written in two
steps; `server` has the children, named after their clients, and servers started
by hand; `published` is the PID in `server.json`. `Call` is every step of a call,
including the end of its probes. `disowned` marks a call that said it could not
confirm its child's exit. Deadlines may pass at any time (`GivesUp`,
`ClaimFails`, `NotReady`), so no clock is needed. A first server to publish keeps
the publication while it lives, as the server does.

### HerdrFinish

| Action | Code |
|---|---|
| `LifecycleStarted`, `StatusesStarted` | the two subscriptions |
| `Lists`, `Listed`, `ListsAgain` | the snapshot, taken by Herdr and answered, and its repetition |
| `Foreign`, `Resubscribes`, `Decides` | the decisions of one turn of the loop |
| `Changed` | an event arrives: `changed` counts the revision and wakes |
| `RequestFails`, `SubscriptionLost`, `BlockedTimeout` | the three ways a wait is rejected |
| `Start`, `Cancel`, `Works`, `Compacts`, `Rests` | the commands and Pi's events |
| `Resolved`, `Rejected` | what the command does with the end of a wait |
| `PaneChanges`, `SelfChanges` | Herdr |

`stale` is `before !== revision`: a number is not needed, only whether a change
has come since the snapshot was asked for. `coming` counts the events under way
to a wait, per connection.

### Segmentation and DocumentReview

A line is its shape (text, heading, fence, item, ...), its indent, whether there
is a bar in it, and what counts of it as sentences: how many end in it and whether
anything is left of it without code spans and links. A paragraph of which nothing
is left weighs nothing, as a heading does; what looks like a heading, item, rule
or quote is text or code after four spaces, but a fence is one after any.
`parseBlocks` goes from line to line, and from a block's start to the line
behind it: `KindAt` is the order of the tests, one operator per kind says how far
a block goes. `chunkBlocks` is the fold
of `Chunked` with the light last chunk joined. In `DocumentReview` only the
number of units remains. `stage` is the await the run is in; the reader calls
`NextReadingUnit` with any arguments, `Speaks`, and its prompt ends or fails;
`Abort` may come at any time (`cancelled`). `attempts` is the count of continuations.

### Ask

`dialog` is the open dialog: the picker or its standard replacement, the dialog that
asks which option to edit, an editor, the discussion editor, or a fork that is
being started. `PickerChoices` is the list of the current question; `Window` and
`Rendered` are the rows a picker shows. `Confirm` and `EditKey` are keys in the
picker, `Select` and `SelectEdit` the standard dialogs, which know an entry only
by the label `uniqueLabels` gives it. A label is a sequence of words, so that a
numbered label and an option's own can be the same text. `given` is a history variable: what the
human has picked or written for each question.

### WorkerArtifacts, WorkerCall, NamedTarget and Conversations

Abstract specifications, each of a page: the file protocol of one request, what
the model that called the tool may rely on, what a name promises its users (one
tool uses it at a time, starts a target only where none is registered, and
leaves one unregistered only if it dies or is aborted), and what the processes
promise about the session files they share: each sees what it has loaded and
written since, writes only after all of a conversation, and nothing is lost. In
`NameClaims` a call uses the name from the text of its claim file to its removal.
In `Conversations` a file is `excused` if it is in `Excused` of `SessionTake`
(`warned`, or `cut` as in observation 6), and stays so.

## 3. Runs

| Run | Module | States | Shows |
|---|---|---|---|
| `WorkerFrame` | `MCWorkerFrame` | 1,196,270 | guidance, status, policy, stopped workers, honest results, `WorkerArtifacts` |
| `WorkerWait` | `MCWorkerWait` | 14,368 | exits are real, clean-up, the PID decides, the call ends, `WorkerCall` |
| `NameClaims` | `MCNameClaims` | 358,421 | `NamedTarget`, exclusion, live targets registered, a batch serialized, every call ends, with one crash |
| `Ugo` | `MCUgo` | 37,352 | commits between steps, reflections, pauses, one loop |
| `PanelOutput` | `MCPanelOutput` | 1,226,791 | first answer, prompt after input, own command's end, reads advance |
| `SessionTake` | `MCSessionTake` | 493,533 | `Conversations`; a source leaves what is shown whole; views up to date |
| `TauStartup` | `MCTauStartup` | 286,855 | one child, no orphan, claim released; every call ends |
| `HerdrFinish` | `MCHerdrFinish` | 114,476 | no lost wake-up, justified prompts, waits end |
| `DocumentReview` | `MCDocumentReview` | 112,775 | sound units, friction in order, earned reports |
| `Ask` | `MCAsk` | 2,067,216 | answers given, aborted calls ask nothing, cursor rendered |
| `UgoPauseLate` | `MCUgo` | violation | finding 1 of section 6 |
| `NameClaimsRace` | `MCNameClaims` | violation | finding 2 of section 6 |

Some properties are conjunctions of named parts: `StatusTruthful` is
`StatusCurrent` and `QuotaOrWaiting`, `ResultHonest` is `MainResultDelivered` and
`EarlyReturnDisclosed`, `OperationsSerialized` is `LookupSettled` and
`OperationsWait`, `StartupSafe` is `OneChild`, `NoOrphan` and `ClaimReleased`.
Type invariants (`TypeOK`) are defined in every module, and proved where a
theorem says so.

Eight more configurations are kept for the observations of section 6; each is run
like the others and ends in a counterexample: `WorkerFrameAbort`,
`PanelOutputSkip`, `PanelOutputStuck`, `PanelOutputAtOnce`, `PanelOutputEarly`,
`UgoResume`, `AskLabels` and `SessionTakeRace`.

Deadlock is checked for `Ugo` only: the other systems come to an end (the worker
exits, the call is done, the batch is finished, the panel is gone, the processes
have exited, the report is there).

Bounds.

- `WorkerFrame`: two replies tell a saved main result from a later one; two
  call ids tell the pending handoff from a later call; `MaxInputs = 2` lets
  messages fall on both sides of any step. The number of runs, retries, turns,
  hand-backs and requests in the process is not bounded.
- `WorkerWait`: two successes and an error; three failing polls before the
  grace is certainly over. Rounds of the wait are not bounded.
- `NameClaims`: five calls, a batch of three in one process, a fork and a worker
  in the other, with one crash and one inode number, so that every claim file
  looks like the one before it; three processes, a call each, for the race.
- `Ugo`: two reflections tell the last do's from an earlier one. Steps, pauses,
  commands and restarts are not bounded.
- `PanelOutput`: two calls, each a wait with or without a regular expression or a
  panel-send, in any order and overlap; a third call is beyond the time of a run
  (the theorems of section 5 hold for any number). Six atoms of log hold a prompt,
  a command line, its start and end and the next prompt, or matching and invisible
  output between them; reads of three make lines, marks and matches fall into
  different reads. A busy program writes matching text, bytes that show nothing
  and command ends `D`; the shell adds newlines and the marks `A` and `C`, also
  without a `C` or an `A`. The calls are symmetric, and the run has no liveness
  property. The four configurations for observations have output before the first
  prompt (`PanelOutputSkip`, `PanelOutputAtOnce`, `PanelOutputStuck`) or marks
  alone (`PanelOutputEarly`).
- `SessionTake`: three processes, so that a source can be a receiver of a third
  one; two of them share a front end and may also be started by `/switch`.
  `MaxActs = 3` acts (a take, a switch, a message, a `/cwd` or a `/resume` each) let
  a message fall into two operations that overlap; `MaxExits = 1` exit or crash
  falls between any two steps. Each act may append one entry of its own and one by
  what it starts; `Entries` is as large. The properties also hold with
  `MaxActs = 4` (8.8 million states), which takes too long for a run, and the
  theorems of section 5 hold for any number of processes and acts.
  The two processes of one front end are symmetric, and the run has no liveness
  property.
- `TauStartup`: three clients (one that has started, one that starts, one that
  looks again), one server by hand, two deaths.
- `HerdrFinish`: two waits (one cancelled, one scheduled), one other pane besides
  the caller's; three changes fall on both sides of a snapshot and between two
  subscriptions.
- `DocumentReview`: every document of up to three lines of every shape, also with
  indents and bars, of four lines of those that go on over several lines (a list
  with an indented fence, tables, paragraphs that are only a link), and of five or
  six headings and paragraphs that weigh nothing, little and much, which reach
  every way of joining chunks. The
  reader's calls and messages are not bounded; `Continuations` is the code's 3.
- `Ask`: two questions, single or multiple, with or without a free answer, with
  two different options or two of the same label; one text. Three visible rows
  make every list with an extra entry longer than its window. The number of
  steps back and forth is not bounded.

## 4. Fairness

Five specifications state fairness.

`WorkerWait!FairSpec`: weak fairness of the parent as a whole. Its polls are
timers, its host calls have deadlines and its reads are synchronous, so some
step of it always comes. Nothing is assumed of the worker, the user or the
host's answers; `CallEnds` therefore speaks of a published result, a
cancellation or a dead worker only, and of the last one as long as the call does
not follow another process.

`NameClaims!FairSpec`: strong fairness of each tool call. A call in a process
cannot step while another one of that process is between two awaits, so its
steps are enabled again and again, not for ever, and weak fairness would let one
task starve its neighbours. Node's event loop runs every ready callback, which is
what strong fairness per call says. It is written with `Ready`, the condition
under which a call has a step, in place of ENABLED, which TLC evaluates slowly; a
run over four calls confirms that the two are the same. A worker need not end
(`WorkerEnds` is not fair).

`PanelOutput!FairSpec`: weak fairness of each call's steps, whose awaits are
timers and host calls with deadlines, and strong fairness of `Expires`: once the
deadline has passed it stays passed, so a call that looks at it again and again
ends. Nothing is assumed of the panel. The counterexample of `PanelOutputStuck`
is not a lack of fairness: the call never looks.

`TauStartup!FairSpec`: weak fairness of each call: its loops are timers with a
deadline, its probes have a timeout, and its wait for an exit has one before and
after the kill. Nothing is assumed of servers, of other clients or of a human who
would remove an interrupted claim.

`HerdrFinish!FairSpec`: weak fairness of each wait's own steps, whose requests
are answered or time out; of the arrival of events, while a connection stands;
and of the timer of the blocked state. Panes need not change. `WaitsEnd` speaks
of the time when the other agents are quiet for good, since a wait has no limit
otherwise.

`SessionTake`, `Ask` and `DocumentReview` have no liveness property: a human may
leave a dialog open, and a request over a connection waits as long as its peer
lives. `SessionTake` defines `TakesSettle`, that no take is left waiting when
only humans can act, for reading and for a run of its own (ENABLED makes it
slow).

## 5. Proofs

| Module | Theorems | Inductive invariant |
|---|---|---|
| `WorkerFrameProofs` | `TypeCorrect`, `GuidanceReported`, `PolicyCurrent`, `MainDelivered`, `EarlyDisclosed`, `ResultIsHonest`, `StatusIsTruthful`, `StopsAreReported`, `ArtifactsImplemented` | `TypeOK /\ Safe /\ HandbackOK`, then `CourseInv` |
| `WorkerWaitProofs` | `TypeCorrect`, `ExitReal`, `CallCleansUp`, `NameHeld`, `KnownOutlives`, `CallImplemented` | `IInv` |
| `UgoProofs` | `TypeCorrect`, `StepCommittedHolds`, `ReflectionReachesGuideHolds`, `PauseKeptHolds`, `SingleLoopHolds` | `IInv` |
| `PanelOutputProofs` | `TypeCorrect`, `InputStays`, `PromptAfterInputHolds`, `AnswerIsFirstHolds`, `FinishedIsOwnHolds`, `ReadsAdvanceHolds` | `TypeOK /\ InputKept /\ CallsHeld`, with `Examined` and `Own` |
| `NameClaimsProofs` | `Exclusive`, `TargetsRegistered`, `EntryKept`, `Serialized`, `NamedTargetImplemented` | `TypeOK /\ OwnFile /\ TurnsOK /\ EntryKnown /\ LiveTargetRegistered` |
| `TauStartupProofs` | `TypeCorrect`, `StartupIsSafe` | `TypeOK /\ ClaimHeld /\ ChildKnown /\ PublishedFirst /\ Alone` |
| `SessionTakeProofs` | `TypeCorrect`, `HandedOverHolds`, `UpToDateHolds`, `HistoryKeptHolds`, `ConversationsImplemented` | `TypeOK /\ Roles /\ Swaps /\ Loads /\ Sole /\ Reserved /\ Fresh` |
| `ExtensionProofs`, `HerdrFinish` | `SleepsInformedHolds`, `PromptIsJustified` | types of the records, and `Informed` of each wait |
| `ExtensionProofs`, `DocumentReview` | `SegmentsSoundly`, `BlocksStayWhole`, `ReviewTypeCorrect`, `UnitsSoundHolds`, `FrictionOrdered`, `ReportIsEarned` | `ReadingInv /\ WritingInv`, and `ReviewTypeOK /\ Unread` |
| `ExtensionProofs`, `Ask` | `AskTypeCorrect`, `AbortedAsksNothingHolds`, `CursorRenderedHolds`, `AnswersGivenHolds` | `CallTyped /\ PickerHeld`, then `GivenHeld` |

The theorems hold for every value of the constants that satisfies the named
assumption of the module (`FrameAssumption`, `GraceAssumption` and
`ArtifactsAssumption`, `ClaimsAssumption`, `UgoAssumption`, `PanelAssumption`,
`StartupAssumption`, `TakeAssumption`, `FinishAssumption`, `ReviewAssumption` and
`AskAssumption`), which TLC also evaluates.

`WorkerFrame`. `GuidanceComplete` and `MainResultDelivered` are not inductive:
they need that the phase and the saved result agree (`RequestOK`), that a
process that has published is on its way out (`PublishedOK`), and that what a
`/worker-return` in progress will publish is the saved main result if there is
one (`HandbackOK`). The helpers are proved about once (`KeepSafe`,
`CompleteSafe`, `BeginSafe`, `SettleSafe`), so that a step of an action only
says which helper it is. `ArtifactsImplemented` maps each action to a step of
`WorkerArtifacts` or a stutter under that invariant.

What `status.json` says needs more of the course of a run (`CourseInv`). Runs of
the model, waits for quota, waits for a human and compactions take turns
(`RunOK`); the work between a result and the end of the process is known
(`HandoffOK`); and `StopsOK` follows a run from its end over `agent_settled` to
the end of the compaction that may come first: an ended run is known to have
failed or to be compacting, and a worker that is idle waits or compacts. With
these, `StatusIsTruthful` says that in every state, between any two writes, what
the file says is so, and `StopsAreReported` that a worker which has stopped
without a result says so.

`WorkerWait`. The invariant relates the place of the parent to what it owns
(`ClaimHeld`, `TargetHeld`, `EntryHeld`) and to why it fails (`FailureSet`).
`CallImplemented` is the refinement of `WorkerCall`.

`NameClaims`. The theorems assume `FewSurvivors`: no process dies, or at most two
processes share the names. That covers any number of processes and tasks without
crashes, and the pair of which one dies. With a crash among three processes the
race of finding 2 (section 6) breaks `ClaimExclusive` itself, so nothing
stronger is true. `OwnFile` says that whoever holds or is writing the claim is the
creator of the file that is there; exclusion follows since a file has one creator.
A claim that is being removed as stale is one of a process that died (`Stale`):
of two processes only one is left to remove it (`SurvivorOK`), so nobody can have
replaced it meanwhile. `TurnsOK` says that the operations of one process stand
behind each other: the one whose turn it is may hold the claim, the others wait,
which gives `OperationsSerialized`.
`NamedTargetImplemented` is the refinement: under the same invariant the calls at
the points `Holding` are at most one (`OneUser`), so that `WriteClaim` is
`Acquire`, `Probe`, `StartTarget`, `SaveTarget` and `CloseTarget` are the steps of
that user, which knows the registry (`EntryKnown`), `Release` is `Leave`, and the
crash of its process is `Die`. No step of the protocol itself is seen.
`EntryKept`, that no entry is replaced by another, is a part of what
`NamedTarget` promises and has no run of its own.

`Ugo`. Every property is about the start of a session, so `SessionStarts` first
says that there are four such starts, and the invariant says what is true before
each. It relates the states captured across awaits to the session's entries:
while the loop is in a guide session the entries say guide and carry the same
reflection and pause (`LoopHeld`); what `agent_end` commits carries the
reflection to act on (`EndingHeld`); watchers run only in a session without one
(`ScanHeld`); a state `/ugo` would resume holds it too (`ReflectionHeld`); and a
pause that came in time is wherever it will be looked for (`PauseHeld`). The
proof also covers an instance that appends an old copy of the state through
`present_guidance` (`ToolHeld`). All properties of the run `Ugo` are proved.

`PanelOutput`. `InputKept` says that overlapping waits may set the cursor back
but never lose the recorded input; with it, a wait that answers at once from the
last mark compares it with the latest input. A wait that answers from its loop
reports a command end behind the size it saw when it began, and `CallsHeld` says
that the input that was the latest then lies at or below that size. The rest is
what `scanOutput` returns: the lemmas about `Min` and `Max` of finite sets of
offsets give the type of a scan and where its first stop lies.

`AnswerIsFirst` is about a history of reads. The log only grows, a read covers an
interval of it, and an interval that was examined without an answer is `Quiet`;
two such intervals that meet where a bounded read cut the log make one, so that a
call has always `Examined` everything from its cursor to where it will read next.
`FinishedIsOwn` follows a panel-send from its input to its answer (`Own`): what it
has examined holds no command end behind that input, so that the one it reports
is the first; and if its line is the only one and a program was at its prompt, that
program writes no mark before it reads the line, whatever comes later. `ReadsAdvance`
is a fact about one read: a newline or text in what it examined is either consumed
as a line or makes the rest a line in pieces. All safety properties of the run `PanelOutput` are proved.

`TauStartup`. Three facts make `StartupSafe` inductive. A call between creating
the claim and removing it is the one the claim names (`ClaimHeld`), so that two
calls are never there together. A live child is its call's business, or was
found ready, or was announced, or its client died (`ChildKnown`). And a call that
starts a child has looked again under the claim: a server that has published and
was not stopped is the published one (`PublishedFirst`), so the child of a call
that ended well would have been seen, and no child is watched beside it
(`Alone`).

`HerdrFinish`. `Informed` says, for every place of the loop, what a wait knows: a
snapshot that is not marked stale and not overtaken by an event under way is
Herdr's present state, where the connections it has cover what could change. It
is proved once for what an event, a change and a step do to one record, and each
action then says which of these it is.

`DocumentReview`. `ReadingInv` is the exact list of friction entries by the unit
revealed; `WritingInv` relates the place of the run to the files written and to
what it must have before it writes them.

`UnitsSound` is proved for documents of any length (`SegmentsSoundly`). Neither a
fold nor a recursive function can be unfolded here, and a property cannot be
passed to an induction theorem. Both are therefore described by the values they
take one after the other: such a sequence exists (`FoldExists`, `ParseExists`),
and were one of its values wrong, there would be a first wrong one (`UpTo`, from
the least element of a set of numbers, `LeastOf`), whose predecessor was right. So
the blocks of the lines from i on cover these lines (`CoversFrom`, from the last
line backwards: `CoversBlank`, `CoversBlock`); the chunks of the first blocks are
described by where these are cut (`CutBy`, `HoldsFirst`) and by their weights
(`Sized`): a full chunk weighs at least 3 and at most 12 and does not end with a
heading, and one being filled stays light while it ends with one. A light last
chunk joined to the one before weighs at most 14. Units follow the text where
blocks do, however these are cut (`UnitsFollow`), and none cuts a block
(`BlocksStayWhole`). What each kind of block keeps of Markdown (`KindAt`,
`Continues`) is the definition itself and has no other reference here.

`SessionTake`. The argument is about who may show a file. A running process
claims the file it shows and the one it is about to show. Unless the file is
excused, one process claims it, or the source and the receiver of its load do
while both still have their roles, in which neither takes input (`Sole`). So
whoever appends to a file shows it alone, and every view of it is what the file
holds (`Fresh`), which is `UpToDate` and, since `/cwd` writes the view and what
it restores was the file, `HistoryKept`. For a receiver to claim a file that was
offered to it, nobody else may have come to claim it meanwhile (`Reserved`); that
the receiver still has its part when the source leaves is in `Loads`, the place of
a load with what its two ends know, `Roles` and `Swaps`. `ConversationsImplemented`
is the refinement: `Message`, `ServeTake` and `SwitchReloads` write with all of the
file in view (`Fresh`) an entry that no file has (`NewIsNew`) and are `Continue`;
`TearsDown` and what `Opens` starts are `Open`; a file that `/cwd` rewrites or
restores stays as it is or is excused, which is `Overwrite`; every other step
excuses files at most. `HistoryKept` is a part of it and has no run of its own.
What each action changes is stated once (`TakeDoes`, `ServeTakeDoes`, ...), so
that the proof of a part need not look at the action again. The attempt to prove
`Sole` without `cut` is how observation 6 was found.

`Ask`. `CallTyped` types the list of choices as entries that are what their kind
says (`Entry`): "keep" is there only with a previous answer, "done" only with
something selected, "back" only at a later question. `PickerHeld` keeps the cursor
on the list, which a step changes only together with the cursor; `CursorRendered`
is then arithmetic about the window, for lists and windows of any length.
`AnswersGivenHolds` adds that no question is skipped and that what a question has
was given to it (`GivenHeld`). In the standard dialogs it needs that the row the
human picked stands for the entry it shows: the label of an option is the words of
its row that are no marks (`LabelAt`), and a row is the shown label without its
number (`RowsTold`). It says so for labels in which no word is a number, a mark or
another entry (`PlainLabels`), and for Pi's own picker whatever the labels;
observation 5 is what happens otherwise.

All safety properties of the passing runs are proved, invariants, action
properties and refinements. Only model-checked are the liveness properties
(`CallEnds`, `CallsEnd` of `NameClaims` and of `TauStartup`, `WaitsEnd`): they rest
on fairness and on ENABLED, which are out of the prover's reach.

Some theorems carry a hypothesis that the code needs: those of `NameClaims`
(`FewSurvivors`) and `AnswersGivenHolds` (`RowsTell`). What happens without it is
shown by finding 2 and observation 5.

## 6. Findings

1. `PauseHonoured` (`ugo.ts:918`, run `UgoPauseLate`): a `/ugo-pause` handled
   while the commit of a do runs is overwritten by the state captured before it.
2. `OnlyStaleRemoved` (`workers.ts:80`, run `NameClaimsRace`): a stale claim is
   compared and removed in two steps. Of two processes that find the claim of a
   dead third one stale, one removes it and creates its own in between, and the
   other removes that: two processes then use the name. The comment at
   `workers.ts:79` says that only the stale file is removed.

Observations that have a configuration of their own, with the property it
violates:

1. `WorkerFrameAbort`, `EveryStopReported` (`worker-frame.ts:546`): a failed
   abort of a `/worker-return` leaves a stopped worker reporting `running`.
2. `PanelOutputSkip`, `ContinuesAfterMatch` (`panel-output.ts:263`): after a match
   the cursor is behind the whole read, and lines that came with the matched one
   are never examined by a later wait.
3. `PanelOutputStuck`, `CallsReturn` (`panel-output.ts:241`): 4 MiB without a
   newline or visible text make a wait or panel-send spin without a look at its
   deadline or signal.
4. `UgoResume`, `RefusalIsTrue` (`ugo.ts:1421`): after an Escape or a restart in a
   do, `/ugo` takes the recorded phase for a running loop and does not resume it.
5. `AskLabels`, `AnswersGiven` (`ask.ts:371`): in the standard dialogs the second
   of two equal labels is numbered; an option whose own label reads like the
   numbered one is then taken for it.
6. `SessionTakeRace`, `RestorationKept` (`take.ts:172`): a take that reaches a
   receiver in the middle of its own load is refused, and the refusal runs the
   unconditional `finally` of the private command, which clears the control state
   of that load; the comment at `take.ts:22` says that it survives. It needs all
   three processes to run from the beginning (`Late = {}`). The session of the
   receiver is then replaced as by a `/resume`: it has no part in the transfer any
   more and takes input, while the source still waits for it. With five acts
   (`MaxActs = 5`, `MaxExits = 1`) both views may be continued without a warning,
   which violates `UpToDateUnlessWarned`. The properties of the run except these
   files (`cut`), as they do those of which the human was told.
7. `PanelOutputAtOnce`, `MatchBeforePrompt` (`wait.ts:150`): a wait that begins
   while the last mark is a prompt's is answered without a read, also when a line
   that matches came before that prompt. The tool promises to return "at the first
   of: a line matching `match`" (`wait.ts:88`, `orchestration/README.md:148`). The
   line is not lost: the cursor stays before it.
8. `PanelOutputEarly`, `FinishedWhenAlone` (`panels.ts:219`): whether a shell is at
   its prompt is read off the last mark. A line sent after an empty line, for which
   fish writes no `C`, or between the mark `D` of a command and the prompt's `A`,
   is answered with that `A`, before it was read, also when it is the only one; the
   tool promises "that command's full output" (`panels.ts:199`).

Smaller observations, met while modelling:

- A take request that arrives while its peer is between two sessions finds no
  dispatch and is dropped without an answer (`take.ts:86`); the asking process
  waits, without input, until the peer ends.
- A client whose readiness probe fails stops its child (`tau-server.ts:194-203`),
  which another client may have found ready and be using; the comment at `:114`
  promises that a start affects no other.
- A claim on a name whose text is not yet written names nobody; an operation of
  another process that meets it refuses at once instead of waiting.
- Parallel calls of the reading tool are accepted one after the other: a reader
  that guesses the next number records friction for a unit whose text it has not
  read yet (`document-flow-review-runner.ts:239`). A review that the model's
  length limit has cut off is accepted like any other (`:354-360`), and a
  `review.md` may remain of a run that failed because of an abort after it.
- If a call of `ask` is aborted while the editor of its last question is open,
  and the human saves it, the call still returns complete answers.
- A process that dies between creating a claim file and writing its text leaves
  a claim without a PID. The comment at `workers.ts:69` presumes such a holder
  alive, so the name stays refused until a human removes the file.
- A watcher of ugo checks its own generation, but `/ugo-pause` raises that of
  another extension instance: a pause typed during a check does not stop the
  session the check starts. `PauseKept` leaves these pauses out with the late
  ones of the finding.
- A human message during the `setModel` await of `/worker-run` can start a run;
  if `setModel` then fails, the request is completed as an error even if that
  run has saved a main result. `MainResultDelivered` therefore excludes the
  steps taken while `starting`.
- The parent takes the PID in the first status it reads for its worker's
  (`workers.ts:202`). If another process has taken up the request by then, the
  call follows that one: it may report an exit while its own worker runs, or wait
  after its worker is gone. `ReportedExitIsReal` and `CallEnds` name this case
  (`pid = "other"`).
- The grace for a host that cannot answer may end a call whose worker has
  published its first status during the last failing `host.state`
  (`workers.ts:213`): `status.json` is not read again before the throw.
- The calls of a batch poll for the claim with timers of their own
  (`workers.ts:125`), so of a close, a start and a read that wait together the
  read may come before the start.
- Two panel-sends of one batch on one panel both report the first command end
  that follows their input, which belongs to one of them: `FinishedIsOwn` speaks
  of a send that was `alone`.
- A wait that overlaps a panel-send may end after the send has recorded its
  input and set the cursor back to output before that input; the next wait with
  a regular expression may then match old output.
- A fork aborted right after `host.start` closes its target and ignores a
  failure to; that target then lives unregistered (`abandoned`).

## 7. Abstractions

- A process is alive or not. A PID given to a new process, which would keep a
  wait or a claim alive, is not modelled.
- A host that answers is right: `exited` and `missing` mean that the process no
  longer exists. It may also fail, stall until its deadline, and fail to close.
- A file is written as the code does it: `result.json` by link, `status.json`
  and registry entries by rename (one step), claim files in two steps.
- Pi's sessions: a new session reloads the extensions, and a context of an old
  one throws. A human's message is slower than the checks of a `/ugo`.
- In `PanelOutput` a mark is one atom: a mark cut by the end of a read of a line
  longer than the limit is left out, and so are the mark `B`, the header line of
  `script` and the bound of the backward scan. A host's answer is the panel's
  state when the call goes on. The tools of other Pi processes, which would
  interleave between the read and the write of `wait.json`, are left out, and so is
  the update that two of them can lose; `InputKept` speaks of one process. A program
  that waits at its prompt writes no mark before it reads a line: a repainted
  prompt, or the outer shell's after a lost ssh connection, is left out.
- In `SessionTake` a session file is its set of entries and its directory; the
  tree of a session is one branch. A receiver either can restore the model and
  the tools or cannot. `/reload` is left out, and `/resume` and `/new` do not
  start in a process while a take is being served there; they open the session
  that is shown, or a file that nobody shows and no replacement under way will
  show. What `/switch` starts opens the file or fails.
- In `TauStartup` the files are readable and well-formed, a PID is not given
  again, and the state directory belongs to one user. Explicit web endpoints,
  which involve no start, are left out.
- In `HerdrFinish` a pane's state is one of four; texts and the widget are left
  out.
- In `Ask` options have no descriptions, and the fork of a discussion starts or
  fails; its own behaviour is that of `NameClaims`.
- In `Ugo` a new session takes over in the step that decides on it. While Pi tears
  the old session down (`ugo.ts:1145`, `:1263`) a `/ugo-pause` can still be typed; it
  is written to the session that is left and lost with it, like the late pauses
  of finding 1. A replacement that is cancelled leaves the pause where one typed
  just afterwards would be.
- In `Segmentation` a line that is part of a code span or link over several lines
  says what is left of it; widths of indents beyond four spaces, and tilde fences
  of other lengths, are left out.
- Disk-full and permission errors of the artifact and registry files are left
  out; so is the removal of the directory by others.

## 8. Plan and what is not modelled

In this order, each with its run:

1. `HostStartup` (`host.ts`, `nesting.ts`): the promise chain of starts, with
   aborted and failed starts (`host.ts:166`).
2. The socket of a crashed process that two successors claim
   (`session-take.ts:84-103`), at the grain of system calls: `SessionTake` gives
   each process its socket from the start.
3. Liveness of the watchers of ugo: a decision that is saved is seen, although a
   change during a check is dropped (`ugo.ts:1003`).
4. Tool selection (`tools.ts`), if it carries its weight.

Left out of `PanelOutput`: waits on files and processes, the keys of panel-send,
panel-read, a panel-close during a wait, and the texts of the answers.

Not planned: the host adapters and the destinations of `/switch` (command lines
and replies of other programs, modelled by how they are called), the delegate
tools (argument checks in front of the modelled call), lints (pure text
processing), vim mode, snippets and the other editing helpers (no state beyond a
call), remote execution (one child process per call), `/worktree` (it writes
files and an initial prompt), build scripts and skills.
