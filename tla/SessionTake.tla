----------------------------- MODULE SessionTake -----------------------------
(***************************************************************************)
(* How a conversation moves between Pi processes: /take and its private    *)
(* command (extensions/take.ts) over the connections of session-take.ts    *)
(* and the checks of session-transfer.ts, /switch (extensions/switch.ts),  *)
(* which opens a second view, and /cwd (cwd.ts), which rewrites a session  *)
(* file in place.                                                          *)
(*                                                                         *)
(* A receiver asks a source to hand over its conversation; the source      *)
(* asks the receiver to load it, and exits once the receiver has confirmed *)
(* that it did.  Both requests wait for as long as their connection lives. *)
(*                                                                         *)
(* Processes interleave at their awaits.  A session is replaced in steps   *)
(* that belong to Pi: the old one is torn down, the new one loaded from    *)
(* its file and its extensions started, and the callback of the command    *)
(* runs.  Contexts captured before are stale: using one throws.            *)
(***************************************************************************)
EXTENDS Naturals, FiniteSetsExt

CONSTANTS
  Herdr, Tau,   \* processes, by the frontend they run in
  Late,         \* those that may not run at the beginning, but be started by /switch
  None,         \* no process
  MaxActs,      \* bound: what humans do
  MaxExits      \* bound: processes that a human quits or that crash

Processes == Herdr \cup Tau

ASSUME TakeAssumption ==
  /\ Herdr \cap Tau = {} /\ Late \subseteq Processes /\ None \notin Processes
  /\ MaxActs \in Nat /\ MaxExits \in Nat

VARIABLES
  pi,       \* the processes
  call,     \* the /take or /switch of a process
  load,     \* the request of a source that its receiver load the conversation
  swap,     \* the replacement of a session
  disk,     \* session files; each process begins with one of its own
  warned,   \* files that a human was told may be open in two views
  cut,      \* history: files whose load lost its control state before the session was replaced
  acts,     \* what humans have done
  exits     \* processes that were quit or crashed

vars == <<pi, call, load, swap, disk, warned, cut, acts, exits>>

Files == Processes
Entries == 1 .. 2 * MaxActs
File == [entries : SUBSET Entries, cwd : 0..1]

Process == [
  up : {"off", "running", "leaving", "gone"},
  dispatch : {"none", "live", "stale"},     \* whose context state.dispatch uses; none: not listening
  file : Files, view : SUBSET Entries, cwd : 0..1,   \* the session it shows
  busy : BOOLEAN,                           \* a turn runs
  active : {"none", "source", "receiver"}, peer : Processes \cup {None},
  transferring : BOOLEAN,                   \* transferOperation().active
  replacing : BOOLEAN, restore : BOOLEAN,   \* restore: the source's model waits to be set
  restored : BOOLEAN]                       \* the session began with it

Call == [
  at : {"idle", "preparing", "listing", "choosing", "sent", "pending", "serving", "lost", "taken", "refused"},
  peer : Processes \cup {None}, wanted : Files, own : Files,
  stale : BOOLEAN]                          \* its session has been replaced

Load == [
  at : {"idle", "sent", "pending", "swapping", "lost", "ready", "refused"},
  to : Processes \cup {None}, file : Files, leaf : 0 .. 2 * MaxActs, cwd : 0..1,
  own : Files,                              \* receiverSession
  stale : BOOLEAN]                          \* the source's session has been replaced

Swap == [
  kind : {"none", "load", "switch", "cwd", "other"},
  at : {"before", "cancelled", "torn", "started"},
  file : Files, from : Processes \cup {None}, saved : File]

NoFile == [entries |-> {}, cwd |-> 0]
NoCall(p) == [at |-> "idle", peer |-> None, wanted |-> p, own |-> p, stale |-> FALSE]
NoLoad(p) == [at |-> "idle", to |-> None, file |-> p, leaf |-> 0, cwd |-> 0, own |-> p, stale |-> FALSE]
NoSwap(p) == [kind |-> "none", at |-> "before", file |-> p, from |-> None, saved |-> NoFile]

-----------------------------------------------------------------------------
(* What the handlers share *)

\* The process handles events.  Nothing comes between a rewritten file and the handlers
\* that cancel the replacement: those of this repository do not wait.
Running(p) == pi[p].up = "running" /\ swap[p].at # "cancelled"
Usable(p) == Running(p) /\ swap[p].at # "torn"
Idle(p) == Usable(p) /\ ~pi[p].busy
Frontend(p) == IF p \in Herdr THEN Herdr ELSE Tau

\* A connection lives as long as the processes at both ends.
Connected(p) == p # None /\ pi[p].up # "gone"

\* Appending to a session writes its file; other views of it do not change.
NewEntry == Max({0} \cup UNION {disk[f].entries : f \in Files}) + 1
AppendTo(f) == [disk EXCEPT ![f].entries = @ \cup {NewEntry}]

\* Human acts, up to the bound.
Act(p) == Usable(p) /\ swap[p].kind = "none" /\ acts < MaxActs /\ acts' = acts + 1

\* session_before_switch: a transfer forbids replacements other than its own.
MaySwitch(p) == pi[p].active = "none" \/ pi[p].replacing

\* The session, working directory and branch of the transfer are loaded.
verifyTransfer(p, transfer) ==
  /\ pi[p].file = transfer.file
  /\ pi[p].cwd = transfer.cwd
  /\ transfer.leaf \in pi[p].view

-----------------------------------------------------------------------------
(* The receiver: /take *)

\* A process that answers a description: it listens, is idle and not a source.
Describable(p) == Idle(p) /\ pi[p].dispatch = "live" /\ pi[p].active # "source"

Take(p) ==
  /\ Act(p) /\ ~pi[p].busy /\ pi[p].active = "none" /\ ~pi[p].transferring
  /\ pi' = [pi EXCEPT ![p].transferring = TRUE]
  /\ call' = [call EXCEPT ![p] = [NoCall(p) EXCEPT !.at = "listing", !.own = pi[p].file]]
  /\ UNCHANGED <<load, swap, disk, warned, cut, exits>>

\* The human sees the idle sessions of the other frontend and will choose one.
List(p, s) ==
  /\ Running(p) /\ call[p].at = "listing"
  /\ s \in Processes \ Frontend(p) /\ Describable(s)
  /\ call' = [call EXCEPT ![p].at = "choosing", ![p].peer = s, ![p].wanted = pi[s].file]
  /\ UNCHANGED <<pi, load, swap, disk, warned, cut, acts, exits>>

Choose(p) ==
  /\ call[p].at = "choosing" /\ ~call[p].stale /\ Idle(p) /\ pi[p].file = call[p].own
  /\ pi' = [pi EXCEPT ![p].active = "receiver", ![p].peer = call[p].peer]
  /\ call' = [call EXCEPT ![p].at = "sent"]
  /\ UNCHANGED <<load, swap, disk, warned, cut, acts, exits>>

\* The finally block of /take.
Finally(p) == [pi EXCEPT ![p].active = "none", ![p].peer = None, ![p].transferring = FALSE]

\* The picker is closed, nothing was found or a check fails; the source answers,
\* or the connection to it ends.
TakeEnds(p) ==
  /\ Running(p)
  /\ \/ call[p].at \in {"listing", "choosing", "taken", "refused"}
     \/ call[p].at \in {"sent", "pending", "serving", "lost"} /\ ~Connected(call[p].peer)
  /\ pi' = Finally(p)
  /\ call' = [call EXCEPT ![p] = NoCall(p)]
  /\ UNCHANGED <<load, swap, disk, warned, cut, acts, exits>>

-----------------------------------------------------------------------------
(* Requests reach a process.  One that comes while no session has set          *)
(* dispatch is dropped, and its connection stays open; without a server it is  *)
(* refused.                                                                    *)

Arrives(s) ==
  CASE pi[s].up = "gone" \/ pi[s].dispatch = "stale" -> {"refused"}
    [] pi[s].up # "gone" /\ pi[s].dispatch = "none" -> {"refused", "lost"}
    [] OTHER -> {"pending"}

TakeArrives(r) ==
  /\ call[r].at = "sent"
  /\ \E at \in Arrives(call[r].peer) : call' = [call EXCEPT ![r].at = at]
  /\ UNCHANGED <<pi, load, swap, disk, warned, cut, acts, exits>>

LoadArrives(s) ==
  /\ load[s].at = "sent"
  /\ \E at \in Arrives(load[s].to) : load' = [load EXCEPT ![s].at = at]
  /\ UNCHANGED <<pi, call, swap, disk, warned, cut, acts, exits>>

-----------------------------------------------------------------------------
(* The source *)

\* saveTransfer appends the tool selection, and the transfer names that entry.
saveTransfer(s) == NewEntry

ServeTake(s, r) ==
  /\ call[r].at = "pending" /\ call[r].peer = s
  /\ Idle(s) /\ pi[s].active = "none" /\ ~pi[s].transferring /\ pi[s].file = call[r].wanted
  /\ NewEntry \in Entries
  /\ disk' = AppendTo(pi[s].file)
  /\ pi' = [pi EXCEPT ![s].transferring = TRUE, ![s].active = "source", ![s].view = @ \cup {NewEntry}]
  /\ call' = [call EXCEPT ![r].at = "serving"]
  /\ load' = [load EXCEPT ![s] = [at |-> "sent", to |-> r, file |-> pi[s].file, leaf |-> saveTransfer(s),
                                  cwd |-> pi[s].cwd, own |-> call[r].own, stale |-> FALSE]]
  /\ UNCHANGED <<swap, warned, cut, acts, exits>>

\* The finally block of the private command, also for a request it refuses.
HandlerEnds(p) == [pi EXCEPT ![p].replacing = FALSE, ![p].restore = FALSE]

\* That also forgets a load of the process's own that has not torn its session down yet.
Cuts(p) == IF swap[p].kind = "load" /\ swap[p].at = "before" THEN {swap[p].file} ELSE {}

\* A transfer is in progress, the session is busy or has changed, or has no model.
RefuseTake(s, r) ==
  /\ call[r].at = "pending" /\ call[r].peer = s /\ Usable(s)
  /\ pi' = HandlerEnds(s)
  /\ call' = [call EXCEPT ![r].at = "refused"]
  /\ cut' = cut \cup Cuts(s)
  /\ UNCHANGED <<load, swap, disk, warned, acts, exits>>

\* The reply to the take that the source serves.
Answer(r, answer) ==
  IF call[r].at = "serving" THEN [call EXCEPT ![r].at = answer] ELSE call

\* The receiver is ready: answer it, and leave.  A stale context cannot shut down.
SourceReady(s) ==
  /\ Running(s) /\ load[s].at = "ready"
  /\ call' = Answer(load[s].to, "taken")
  /\ pi' = IF load[s].stale
           THEN HandlerEnds(s)
           ELSE [HandlerEnds(s) EXCEPT ![s].up = "leaving"]
  /\ load' = [load EXCEPT ![s] = NoLoad(s)]
  /\ cut' = cut \cup Cuts(s)
  /\ UNCHANGED <<swap, disk, warned, acts, exits>>

\* The receiver fails, or the connection to it ends: the source goes on.
SourceFails(s) ==
  /\ Running(s)
  /\ \/ load[s].at = "refused"
     \/ load[s].at \in {"sent", "pending", "swapping", "lost"} /\ ~Connected(load[s].to)
  /\ call' = Answer(load[s].to, "refused")
  /\ pi' = [HandlerEnds(s) EXCEPT ![s].active = "none", ![s].peer = None, ![s].transferring = FALSE]
  /\ load' = [load EXCEPT ![s] = NoLoad(s)]
  /\ cut' = cut \cup Cuts(s)
  /\ UNCHANGED <<swap, disk, warned, acts, exits>>

Leaves(s) ==
  /\ pi[s].up = "leaving"
  /\ pi' = [pi EXCEPT ![s].up = "gone"]
  /\ UNCHANGED <<call, load, swap, disk, warned, cut, acts, exits>>

-----------------------------------------------------------------------------
(* The receiver loads the conversation *)

LoadAccepted(r, s) ==
  /\ pi[r].active = "receiver" /\ pi[r].peer = s
  /\ ~pi[r].busy /\ pi[r].file = load[s].own

LoadBegins(r, s) ==
  /\ load[s].at = "pending" /\ load[s].to = r /\ Usable(r) /\ swap[r].kind = "none"
  /\ LoadAccepted(r, s)
  /\ pi' = [pi EXCEPT ![r].restore = TRUE, ![r].replacing = TRUE]
  /\ swap' = [swap EXCEPT ![r] = [NoSwap(r) EXCEPT !.kind = "load", !.file = load[s].file, !.from = s]]
  /\ load' = [load EXCEPT ![s].at = "swapping"]
  /\ UNCHANGED <<call, disk, warned, cut, acts, exits>>

\* It was not asked for, the receiver has changed, or an extension cancels the replacement.
LoadRefused(r, s) ==
  /\ load[s].at = "pending" /\ load[s].to = r /\ Usable(r)
  /\ pi' = HandlerEnds(r)
  /\ load' = [load EXCEPT ![s].at = "refused"]
  /\ cut' = cut \cup Cuts(r)
  /\ UNCHANGED <<call, swap, disk, warned, acts, exits>>

\* withSession: the loaded session is checked.  Without its restoration the model may
\* be right or wrong.  Both views stay open if the check fails or nobody hears of it.
Verified(r, s) == Idle(r) /\ ~pi[r].restore /\ verifyTransfer(r, load[s])

Loaded(r, s, ready) ==
  /\ Running(r) /\ swap[r].kind = "load" /\ swap[r].at = "started" /\ swap[r].from = s
  /\ ready => Verified(r, s)
  /\ ~ready => ~Verified(r, s) \/ ~pi[r].restored
  /\ pi' = HandlerEnds(r)
  /\ swap' = [swap EXCEPT ![r] = NoSwap(r)]
  /\ load' = [load EXCEPT ![s].at = IF ready THEN "ready" ELSE "refused"]
  /\ warned' = IF ready /\ Connected(s) THEN warned ELSE warned \cup {load[s].file}
  /\ UNCHANGED <<call, disk, cut, acts, exits>>

-----------------------------------------------------------------------------
(* A session is replaced *)

\* session_shutdown.  Only a load keeps the take state.
TearsDown(p) ==
  /\ Running(p) /\ swap[p].kind # "none" /\ swap[p].at = "before"
  /\ LET f == swap[p].file
         kept == pi[p].replacing /\ swap[p].kind # "other"
         shown == [pi[p] EXCEPT !.file = f, !.view = disk[f].entries, !.cwd = disk[f].cwd, !.busy = FALSE]
     IN pi' = [pi EXCEPT ![p] = IF kept THEN shown
          ELSE [shown EXCEPT !.dispatch = "none", !.active = "none", !.peer = None, !.restore = FALSE]]
     /\ call' = [q \in Processes |->
          CASE q = p -> [call[p] EXCEPT !.stale = call[p].at # "idle"]
            [] q # p /\ ~kept /\ call[q].at = "pending" /\ call[q].peer = p -> [call[q] EXCEPT !.at = "refused"]
            [] OTHER -> call[q]]
     /\ load' = [q \in Processes |->
          CASE q = p -> [load[p] EXCEPT !.stale = load[p].at # "idle"]
            [] q # p /\ ~kept /\ load[q].at = "pending" /\ load[q].to = p -> [load[q] EXCEPT !.at = "refused"]
            [] OTHER -> load[q]]
  /\ swap' = [swap EXCEPT ![p].at = "torn"]
  /\ warned' = IF load[p].at = "idle" THEN warned ELSE warned \cup {load[p].file}
  /\ UNCHANGED <<disk, cut, acts, exits>>

\* session_start.  If the model cannot be set the handlers stay those of the old session.
SessionStarts(p, restores) ==
  /\ Running(p) /\ swap[p].at = "torn"
  /\ restores \/ pi[p].restore
  /\ pi' = [pi EXCEPT ![p].restored = pi[p].restore /\ restores,
                      ![p].restore = @ /\ ~restores,
                      ![p].dispatch = CASE restores -> "live"
                                        [] ~restores /\ @ = "live" -> "stale"
                                        [] OTHER -> @]
  /\ swap' = [swap EXCEPT ![p].at = "started"]
  /\ UNCHANGED <<call, load, disk, warned, cut, acts, exits>>

\* The callback of /cwd, of a /resume or of a /new.
Replaced(p) ==
  /\ Running(p) /\ swap[p].kind \in {"cwd", "other"} /\ swap[p].at = "started"
  /\ swap' = [swap EXCEPT ![p] = NoSwap(p)]
  /\ UNCHANGED <<pi, call, load, disk, warned, cut, acts, exits>>

-----------------------------------------------------------------------------
(* /switch, /cwd, /resume and /new; messages *)

Switch(p) ==
  /\ Act(p) /\ ~pi[p].busy /\ ~pi[p].transferring
  /\ pi' = [pi EXCEPT ![p].transferring = TRUE]
  /\ call' = [call EXCEPT ![p] = [NoCall(p) EXCEPT !.at = "preparing"]]
  /\ UNCHANGED <<load, swap, disk, warned, cut, exits>>

\* The destination is prepared; the session is checked again, saved and reloaded.
SwitchReloads(p, cancelled) ==
  /\ call[p].at = "preparing" /\ ~call[p].stale /\ Idle(p) /\ swap[p].kind = "none"
  /\ cancelled \/ MaySwitch(p)
  /\ NewEntry \in Entries
  /\ disk' = AppendTo(pi[p].file)
  /\ pi' = [pi EXCEPT ![p].view = @ \cup {NewEntry}, ![p].transferring = ~cancelled]
  /\ warned' = warned \cup {pi[p].file}
  /\ call' = IF cancelled THEN [call EXCEPT ![p] = NoCall(p)] ELSE call
  /\ swap' = IF cancelled THEN swap
             ELSE [swap EXCEPT ![p] = [NoSwap(p) EXCEPT !.kind = "switch", !.file = pi[p].file]]
  /\ UNCHANGED <<load, cut, acts, exits>>

\* Preparation fails, or a check does.
SwitchFails(p) ==
  /\ Running(p) /\ call[p].at = "preparing" /\ swap[p].kind # "switch"
  /\ pi' = [pi EXCEPT ![p].transferring = FALSE]
  /\ call' = [call EXCEPT ![p] = NoCall(p)]
  /\ UNCHANGED <<load, swap, disk, warned, cut, acts, exits>>

\* The destination opens the file, or does not; it may not be known which.
Opens(p, d) ==
  /\ Running(p) /\ swap[p].kind = "switch" /\ swap[p].at = "started"
  /\ d # None => d \notin Frontend(p) /\ pi[d].up = "off"
  /\ LET opened == [q \in Processes |-> IF q # d THEN pi[q] ELSE
           [pi[q] EXCEPT !.up = "running", !.dispatch = "live", !.file = pi[p].file,
                         !.view = disk[pi[p].file].entries, !.cwd = disk[pi[p].file].cwd]]
     IN pi' = [opened EXCEPT ![p].transferring = FALSE]
  /\ call' = [call EXCEPT ![p] = NoCall(p)]
  /\ swap' = [swap EXCEPT ![p] = NoSwap(p)]
  /\ UNCHANGED <<load, disk, warned, cut, acts, exits>>

\* The session's file is written anew from memory, with another working directory.
Cwd(p, cancelled) ==
  /\ Act(p) /\ ~pi[p].busy /\ pi[p].cwd = 0
  /\ cancelled \/ MaySwitch(p)
  /\ disk' = [disk EXCEPT ![pi[p].file] = [entries |-> pi[p].view, cwd |-> 1]]
  /\ swap' = [swap EXCEPT ![p] = [NoSwap(p) EXCEPT !.kind = "cwd", !.at = IF cancelled THEN "cancelled" ELSE "before",
                                 !.file = pi[p].file, !.saved = disk[pi[p].file]]]
  /\ UNCHANGED <<pi, call, load, warned, cut, exits>>

\* Wrong: a cancelled replacement removes what was written for it.
CwdRemoves(p) ==
  /\ pi[p].up = "running" /\ swap[p].at = "cancelled"
  /\ disk' = [disk EXCEPT ![swap[p].file] = NoFile]
  /\ swap' = [swap EXCEPT ![p] = NoSwap(p)]
  /\ UNCHANGED <<pi, call, load, warned, cut, acts, exits>>

\* A cancelled replacement restores what the file held.
CwdCancelled(p) ==
  /\ pi[p].up = "running" /\ swap[p].at = "cancelled"
  /\ disk' = [disk EXCEPT ![swap[p].file] = swap[p].saved]
  /\ swap' = [swap EXCEPT ![p] = NoSwap(p)]
  /\ UNCHANGED <<pi, call, load, warned, cut, acts, exits>>

\* /resume of the session it shows, or /new.
Resume(p, f) ==
  /\ Act(p) /\ MaySwitch(p)
  /\ f = pi[p].file \/ \A q \in Processes : pi[q].file # f /\ (swap[q].kind # "none" => swap[q].file # f)
  /\ swap' = [swap EXCEPT ![p] = [NoSwap(p) EXCEPT !.kind = "other", !.file = f]]
  /\ UNCHANGED <<pi, call, load, disk, warned, cut, exits>>

\* Wrong: messages are submitted while a conversation moves.
InputOpen(p) == TRUE

\* Wrong: only a receiver holds messages back.
InputOfSource(p) == pi[p].active # "receiver"

\* The input handler.
InputAccepted(p) == pi[p].active = "none"

Message(p) ==
  /\ Usable(p) /\ acts < MaxActs /\ acts' = acts + 1
  /\ ~pi[p].busy /\ InputAccepted(p) /\ NewEntry \in Entries
  /\ disk' = AppendTo(pi[p].file)
  /\ pi' = [pi EXCEPT ![p].view = @ \cup {NewEntry}, ![p].busy = TRUE]
  /\ UNCHANGED <<call, load, swap, warned, cut, exits>>

TurnEnds(p) ==
  /\ Running(p) /\ pi[p].busy
  /\ pi' = [pi EXCEPT ![p].busy = FALSE]
  /\ UNCHANGED <<call, load, swap, disk, warned, cut, acts, exits>>

\* A human quits a process, or it crashes.  Its connections end.
Exits(p) ==
  /\ pi[p].up = "running" /\ exits < MaxExits
  /\ exits' = exits + 1
  /\ pi' = [pi EXCEPT ![p].up = "gone"]
  /\ UNCHANGED <<call, load, swap, disk, warned, cut, acts>>

-----------------------------------------------------------------------------
Init ==
  /\ \E off \in SUBSET Late : pi = [p \in Processes |->
       [up |-> IF p \in off THEN "off" ELSE "running",
        dispatch |-> IF p \in off THEN "none" ELSE "live", file |-> p, view |-> {}, cwd |-> 0, busy |-> FALSE,
        active |-> "none", peer |-> None, transferring |-> FALSE, replacing |-> FALSE, restore |-> FALSE,
        restored |-> FALSE]]
  /\ call = [p \in Processes |-> NoCall(p)]
  /\ load = [p \in Processes |-> NoLoad(p)]
  /\ swap = [p \in Processes |-> NoSwap(p)]
  /\ disk = [f \in Files |-> NoFile]
  /\ warned = {} /\ cut = {} /\ acts = 0 /\ exits = 0

Step(p) ==
  \/ TakeEnds(p) \/ TakeArrives(p) \/ LoadArrives(p)
  \/ SourceReady(p) \/ SourceFails(p) \/ Leaves(p)
  \/ TearsDown(p) \/ \E restores \in BOOLEAN : SessionStarts(p, restores)
  \/ Replaced(p) \/ CwdCancelled(p) \/ (\E cancelled \in BOOLEAN : SwitchReloads(p, cancelled)) \/ SwitchFails(p)
  \/ \E d \in Processes \cup {None} : Opens(p, d)
  \/ TurnEnds(p)
  \/ \E q \in Processes :
       \/ ServeTake(p, q) \/ RefuseTake(p, q)
       \/ LoadBegins(p, q) \/ LoadRefused(p, q)
       \/ \E ready \in BOOLEAN : Loaded(p, q, ready)

Human(p) ==
  \/ Take(p) \/ \E s \in Processes : List(p, s)
  \/ Choose(p) \/ Switch(p) \/ (\E cancelled \in BOOLEAN : Cwd(p, cancelled)) \/ \E f \in Files : Resume(p, f)
  \/ Message(p) \/ Exits(p)

Next == \E p \in Processes : Step(p) \/ Human(p)

Spec == Init /\ [][Next]_vars
-----------------------------------------------------------------------------
(* Properties *)

\* Conversations of which the human was told that two views are open, and those whose
\* replacement went on after it had lost its part in the transfer (Cuts).
Excused == warned \cup cut

\* Processes, calls, files and replacements keep their types.
TypeOK ==
  /\ pi \in [Processes -> Process] /\ call \in [Processes -> Call] /\ load \in [Processes -> Load]
  /\ swap \in [Processes -> Swap] /\ disk \in [Files -> File]
  /\ warned \subseteq Files /\ cut \subseteq Files
  /\ acts \in 0..MaxActs /\ exits \in 0..MaxExits

\* A source exits only from the session it handed over.  Unless the file is excused,
\* everything it shows is in it, and a receiver that still holds its role shows all of
\* it, too (take.ts).
HandedOver ==
  [][\A s \in Processes : pi[s].up = "running" /\ pi'[s].up = "leaving" =>
       LET r == load[s].to
       IN /\ pi[s].file = load[s].file
          /\ pi[s].view \subseteq disk[pi[s].file].entries \/ pi[s].file \in Excused
          /\ Connected(r) /\ pi[r].active = "receiver" =>
               pi[r].file = pi[s].file /\ (pi[s].view \subseteq pi[r].view \/ pi[s].file \in Excused)]_vars

\* Nobody continues a conversation from a view that lacks some of its entries, except
\* in an excused file (take.ts).
UpToDate ==
  [][\A p \in Processes : ~pi[p].busy /\ pi'[p].busy =>
       pi[p].view = disk[pi[p].file].entries \/ pi[p].file \in Excused]_vars

\* Rewriting a session file for /cwd, and undoing that, loses no entry of it, except
\* where a second view of an excused file wrote one (cwd.ts).
HistoryKept ==
  [][\A f \in Files : disk[f].entries \subseteq disk'[f].entries \/ f \in Excused]_vars

\* A receiver and a source never wait for each other, or for a process that is gone:
\* when nothing is left to do but what humans do, no take or load is in progress.  A
\* request that came between two sessions of its peer is the exception.
TakesSettle ==
  (\A p \in Processes : ~ENABLED Step(p)) =>
    \/ \E p \in Processes : call[p].at = "lost" \/ load[p].at = "lost"
    \/ \A p \in Processes : Connected(p) => call[p].at \in {"idle", "choosing"} /\ load[p].at = "idle"

\* A load keeps its control state through the replacement of the session: "Only this
\* in-flight control operation survives" (take.ts:22).
RestorationKept ==
  [][\A r \in Processes : swap[r].kind = "load" /\ swap[r].at = "before" /\ swap'[r].at = "torn" =>
       pi'[r].restore]_vars

\* Nobody continues a conversation from a view that lacks some of its entries unless a
\* human was told that two views of it are open: what take.ts:172 breaks.
UpToDateUnlessWarned ==
  [][\A p \in Processes : ~pi[p].busy /\ pi'[p].busy =>
       pi[p].view = disk[pi[p].file].entries \/ pi[p].file \in warned]_vars

\* Whatever moves, every process writes to a conversation only what comes after all of it,
\* and none loses an entry, except in excused files (take.ts, switch.ts, cwd.ts).
Shared == INSTANCE Conversations WITH
  shows <- [p \in Processes |-> pi[p].file],
  view <- [p \in Processes |-> pi[p].view],
  history <- [f \in Files |-> disk[f].entries],
  excused <- Excused

ImplementsConversations == Shared!Spec
=============================================================================
