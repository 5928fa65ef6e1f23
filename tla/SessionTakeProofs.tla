-------------------------- MODULE SessionTakeProofs --------------------------
(***************************************************************************)
(* Proofs about SessionTake, for any processes and any bounds: a source    *)
(* leaves only a conversation its receiver shows in full, nobody continues *)
(* from a view that lacks entries, and no rewritten file loses any.        *)
(*                                                                         *)
(* The argument is about who may show a file.  A running process claims    *)
(* the file it shows and the one it is about to show.  Unless the file is  *)
(* excused, one process claims it, or the source and the receiver of its   *)
(* load do while both still have their roles and take no input (Sole).  So *)
(* whoever appends to a file shows it alone, and every view of it is what  *)
(* the file holds (Fresh).  For the receiver to claim it, nobody else may  *)
(* have come to claim it since it was offered (Reserved).                  *)
(***************************************************************************)
EXTENDS SessionTake, WellFoundedInduction, TLAPS

-----------------------------------------------------------------------------
(* What each action does *)

\* Nothing but the p-th entry of a function changes.
Elsewhere(new, old, p) == \A q \in Processes : q # p => new[q] = old[q]

\* The session a process shows, and its part in a transfer.
SessionKept(p) ==
  /\ pi'[p].up = pi[p].up /\ pi'[p].file = pi[p].file /\ pi'[p].view = pi[p].view
  /\ pi'[p].busy = pi[p].busy
RoleKept(p) == pi'[p].active = pi[p].active /\ pi'[p].peer = pi[p].peer
FlagsKept(p) == pi'[p].transferring = pi[p].transferring /\ pi'[p].replacing = pi[p].replacing

\* What TypeOK says of one process.
LEMMA Typed ==
  ASSUME TypeOK, NEW p \in Processes
  PROVE  /\ p \in Files /\ pi[p] \in Process /\ call[p] \in Call /\ load[p] \in Load /\ swap[p] \in Swap
         /\ pi[p].file \in Files /\ pi[p].view \subseteq Entries /\ pi[p].cwd \in 0..1
         /\ call[p].peer \in Processes \cup {None} /\ call[p].own \in Files
         /\ load[p].to \in Processes \cup {None} /\ load[p].file \in Files
         /\ swap[p].file \in Files /\ swap[p].saved \in File /\ disk[pi[p].file] \in File
         /\ disk[swap[p].file] \in File
BY DEF TypeOK, Process, Call, Load, Swap, Files

\* One entry changes.
LEMMA OneChanges ==
  ASSUME NEW D, NEW R, NEW old \in [D -> R], NEW p \in D, NEW x \in R
  PROVE  /\ [old EXCEPT ![p] = x] \in [D -> R] /\ [old EXCEPT ![p] = x][p] = x
         /\ \A q \in D : q # p => [old EXCEPT ![p] = x][q] = old[q]
OBVIOUS

Offered == {"sent", "pending", "lost", "refused"}

\* No load is a load.
LEMMA NoLoadTyped == ASSUME NEW p \in Processes PROVE NoLoad(p) \in Load
BY TakeAssumption DEF NoLoad, Load, Files

\* No replacement is a replacement that has not begun.
LEMMA NoSwapTyped ==
  ASSUME NEW p \in Processes
  PROVE  NoSwap(p) \in Swap /\ NoSwap(p).kind = "none" /\ NoSwap(p).at = "before"
BY DEF NoSwap, NoFile, Swap, File, Files

\* The entry that the transfer names is within the bound.
LEMMA SaveTyped == ASSUME NewEntry \in Entries, NEW s PROVE saveTransfer(s) \in 0..2 * MaxActs
BY TakeAssumption DEF saveTransfer, Entries

\* A /take claims the transfer flag of a process that takes no part in a transfer.
LEMMA TakeDoes ==
  ASSUME TypeOK, NEW p \in Processes, Take(p)
  PROVE  /\ pi' \in [Processes -> Process] /\ Elsewhere(pi', pi, p)
         /\ SessionKept(p) /\ RoleKept(p)
         /\ pi'[p].transferring /\ pi'[p].replacing = pi[p].replacing
         /\ pi[p].active = "none" /\ ~pi[p].transferring
         /\ call' \in [Processes -> Call] /\ Elsewhere(call', call, p)
         /\ call'[p].at = "listing"
         /\ UNCHANGED <<load, swap>>
         /\ UNCHANGED <<disk, warned, cut>>
         /\ swap[p].kind = "none" /\ pi[p].up = "running"
<1>1. /\ pi' \in [Processes -> Process] /\ Elsewhere(pi', pi, p)
      /\ SessionKept(p) /\ RoleKept(p)
      /\ pi'[p].transferring /\ pi'[p].replacing = pi[p].replacing
      /\ pi[p].active = "none" /\ ~pi[p].transferring
  <2> DEFINE new == [pi[p] EXCEPT !.transferring = TRUE]
  <2>1. pi' = [pi EXCEPT ![p] = new]
    BY Typed DEF Take, Process
  <2>2. pi[p] \in Process
    BY Typed DEF Take
  <2>3. new \in Process
    BY <2>2 DEF Process
  <2>4. pi' \in [Processes -> Process] /\ Elsewhere(pi', pi, p) /\ pi'[p] = new
    BY <2>1, <2>3, OneChanges DEF TypeOK, Elsewhere
  <2> QED
    BY <2>4, Typed DEF Process, SessionKept, RoleKept, Take, NoCall
<1>2. /\ call' \in [Processes -> Call] /\ Elsewhere(call', call, p)
      /\ call'[p].at = "listing"
  <2> DEFINE new == [NoCall(p) EXCEPT !.at = "listing", !.own = pi[p].file]
  <2>1. call' = [call EXCEPT ![p] = new]
    BY Typed DEF Take, Call
  <2>2. {p, pi[p].file} \subseteq Files
    BY Typed DEF Take
  <2>3. new \in Call
    BY <2>2 DEF Call, NoCall
  <2>4. call' \in [Processes -> Call] /\ Elsewhere(call', call, p) /\ call'[p] = new
    BY <2>1, <2>3, OneChanges DEF TypeOK, Elsewhere
  <2> QED
    BY <2>4, Typed DEF Call, Take, NoCall
<1> QED
  BY <1>1, <1>2 DEF Take, Act, Usable, Running

\* Listing fills in the call; nothing else changes.
LEMMA ListDoes ==
  ASSUME TypeOK, NEW p \in Processes, NEW s \in Processes, List(p, s)
  PROVE  /\ call' \in [Processes -> Call] /\ Elsewhere(call', call, p)
         /\ call[p].at = "listing" /\ call'[p].at = "choosing"
         /\ UNCHANGED <<pi, load, swap>>
         /\ UNCHANGED <<disk, warned, cut>>
<1>1. /\ call' \in [Processes -> Call] /\ Elsewhere(call', call, p)
      /\ call[p].at = "listing" /\ call'[p].at = "choosing"
  <2> DEFINE new == [call[p] EXCEPT !.at = "choosing", !.peer = s, !.wanted = pi[s].file]
  <2>1. call' = [call EXCEPT ![p] = new]
    BY Typed DEF List, Call
  <2>2. call[p] \in Call /\ pi[s].file \in Files
    BY Typed DEF List
  <2>3. new \in Call
    BY <2>2 DEF Call
  <2>4. call' \in [Processes -> Call] /\ Elsewhere(call', call, p) /\ call'[p] = new
    BY <2>1, <2>3, OneChanges DEF TypeOK, Elsewhere
  <2> QED
    BY <2>4, Typed DEF Call, List
<1> QED
  BY <1>1 DEF List

\* The receiver takes its role with the peer of its call.
LEMMA ChooseDoes ==
  ASSUME TypeOK, NEW p \in Processes, Choose(p)
  PROVE  /\ pi' \in [Processes -> Process] /\ Elsewhere(pi', pi, p)
         /\ SessionKept(p) /\ FlagsKept(p)
         /\ pi'[p].active = "receiver" /\ pi'[p].peer = call[p].peer
         /\ call' \in [Processes -> Call] /\ Elsewhere(call', call, p)
         /\ call[p].at = "choosing" /\ call'[p].at = "sent" /\ call'[p].peer = call[p].peer
         /\ UNCHANGED <<load, swap>>
         /\ UNCHANGED <<disk, warned, cut>>
<1>1. /\ pi' \in [Processes -> Process] /\ Elsewhere(pi', pi, p)
      /\ SessionKept(p) /\ FlagsKept(p)
      /\ pi'[p].active = "receiver" /\ pi'[p].peer = call[p].peer
  <2> DEFINE new == [pi[p] EXCEPT !.active = "receiver", !.peer = call[p].peer]
  <2>1. pi' = [pi EXCEPT ![p] = new]
    BY Typed DEF Choose, Process
  <2>2. pi[p] \in Process /\ call[p].peer \in Processes \cup {None}
    BY Typed DEF Choose
  <2>3. new \in Process
    BY <2>2 DEF Process
  <2>4. pi' \in [Processes -> Process] /\ Elsewhere(pi', pi, p) /\ pi'[p] = new
    BY <2>1, <2>3, OneChanges DEF TypeOK, Elsewhere
  <2> QED
    BY <2>4, Typed DEF Process, SessionKept, FlagsKept, Choose
<1>2. /\ call' \in [Processes -> Call] /\ Elsewhere(call', call, p)
      /\ call[p].at = "choosing" /\ call'[p].at = "sent" /\ call'[p].peer = call[p].peer
  <2> DEFINE new == [call[p] EXCEPT !.at = "sent"]
  <2>1. call' = [call EXCEPT ![p] = new]
    BY Typed DEF Choose, Call
  <2>2. call[p] \in Call
    BY Typed DEF Choose
  <2>3. new \in Call
    BY <2>2 DEF Call
  <2>4. call' \in [Processes -> Call] /\ Elsewhere(call', call, p) /\ call'[p] = new
    BY <2>1, <2>3, OneChanges DEF TypeOK, Elsewhere
  <2> QED
    BY <2>4, Typed DEF Call, Choose
<1> QED
  BY <1>1, <1>2 DEF Choose

\* A call that is over gives role and flag back.
LEMMA TakeEndsDoes ==
  ASSUME TypeOK, NEW p \in Processes, TakeEnds(p)
  PROVE  /\ pi' \in [Processes -> Process] /\ Elsewhere(pi', pi, p)
         /\ SessionKept(p) /\ pi'[p].active = "none"
         /\ ~pi'[p].transferring /\ pi'[p].replacing = pi[p].replacing
         /\ call' \in [Processes -> Call] /\ Elsewhere(call', call, p)
         /\ call'[p].at = "idle"
         /\ UNCHANGED <<load, swap>>
         /\ call[p].at \in {"listing", "choosing", "taken", "refused"} \/ ~Connected(call[p].peer)
         /\ call[p].at \notin {"idle", "preparing"}
         /\ UNCHANGED <<disk, warned, cut>>
<1>1. /\ pi' \in [Processes -> Process] /\ Elsewhere(pi', pi, p)
      /\ SessionKept(p) /\ pi'[p].active = "none"
      /\ ~pi'[p].transferring /\ pi'[p].replacing = pi[p].replacing
  <2> DEFINE new == [pi[p] EXCEPT !.active = "none", !.peer = None, !.transferring = FALSE]
  <2>1. pi' = [pi EXCEPT ![p] = new]
    BY Typed DEF TakeEnds, Process, Finally
  <2>2. pi[p] \in Process
    BY Typed DEF TakeEnds
  <2>3. new \in Process
    BY <2>2 DEF Process
  <2>4. pi' \in [Processes -> Process] /\ Elsewhere(pi', pi, p) /\ pi'[p] = new
    BY <2>1, <2>3, OneChanges DEF TypeOK, Elsewhere
  <2> QED
    BY <2>4, Typed DEF Process, SessionKept, TakeEnds, NoCall
<1>2. /\ call' \in [Processes -> Call] /\ Elsewhere(call', call, p)
      /\ call'[p].at = "idle"
  <2> DEFINE new == NoCall(p)
  <2>1. call' = [call EXCEPT ![p] = new]
    BY Typed DEF TakeEnds, Call
  <2>2. p \in Files
    BY Typed DEF TakeEnds
  <2>3. new \in Call
    BY <2>2 DEF Call, NoCall
  <2>4. call' \in [Processes -> Call] /\ Elsewhere(call', call, p) /\ call'[p] = new
    BY <2>1, <2>3, OneChanges DEF TypeOK, Elsewhere
  <2> QED
    BY <2>4, Typed DEF Call, TakeEnds, NoCall
<1> QED
  BY <1>1, <1>2 DEF TakeEnds

\* A refused take costs its peer the control state of the command.
LEMMA RefuseTakeDoes ==
  ASSUME TypeOK, NEW s \in Processes, NEW r \in Processes, RefuseTake(s, r)
  PROVE  /\ pi' \in [Processes -> Process] /\ Elsewhere(pi', pi, s)
         /\ SessionKept(s) /\ RoleKept(s)
         /\ pi'[s].transferring = pi[s].transferring /\ ~pi'[s].replacing
         /\ call' \in [Processes -> Call] /\ Elsewhere(call', call, r)
         /\ call[r].at = "pending" /\ call'[r].at = "refused" /\ call'[r].peer = call[r].peer
         /\ UNCHANGED <<load, swap>>
         /\ UNCHANGED <<disk, warned>> /\ cut' = cut \cup Cuts(s)
<1>1. /\ pi' \in [Processes -> Process] /\ Elsewhere(pi', pi, s)
      /\ SessionKept(s) /\ RoleKept(s)
      /\ pi'[s].transferring = pi[s].transferring /\ ~pi'[s].replacing
  <2> DEFINE new == [pi[s] EXCEPT !.replacing = FALSE, !.restore = FALSE]
  <2>1. pi' = [pi EXCEPT ![s] = new]
    BY Typed DEF RefuseTake, Process, HandlerEnds
  <2>2. pi[s] \in Process
    BY Typed DEF RefuseTake
  <2>3. new \in Process
    BY <2>2 DEF Process
  <2>4. pi' \in [Processes -> Process] /\ Elsewhere(pi', pi, s) /\ pi'[s] = new
    BY <2>1, <2>3, OneChanges DEF TypeOK, Elsewhere
  <2> QED
    BY <2>4, Typed DEF Process, SessionKept, RoleKept, RefuseTake
<1>2. /\ call' \in [Processes -> Call] /\ Elsewhere(call', call, r)
      /\ call[r].at = "pending" /\ call'[r].at = "refused" /\ call'[r].peer = call[r].peer
  <2> DEFINE new == [call[r] EXCEPT !.at = "refused"]
  <2>1. call' = [call EXCEPT ![r] = new]
    BY Typed DEF RefuseTake, Call
  <2>2. call[r] \in Call
    BY Typed DEF RefuseTake
  <2>3. new \in Call
    BY <2>2 DEF Call
  <2>4. call' \in [Processes -> Call] /\ Elsewhere(call', call, r) /\ call'[r] = new
    BY <2>1, <2>3, OneChanges DEF TypeOK, Elsewhere
  <2> QED
    BY <2>4, Typed DEF Call, RefuseTake
<1> QED
  BY <1>1, <1>2 DEF RefuseTake

\* The source appends an entry to file and view alike, and offers the file to the caller.
LEMMA ServeTakeDoes ==
  ASSUME TypeOK, NEW s \in Processes, NEW r \in Processes, ServeTake(s, r)
  PROVE  /\ pi' \in [Processes -> Process] /\ Elsewhere(pi', pi, s)
         /\ pi'[s].up = pi[s].up /\ pi'[s].file = pi[s].file /\ pi'[s].view = pi[s].view \cup {NewEntry}
         /\ pi'[s].busy = pi[s].busy
         /\ pi'[s].active = "source" /\ pi'[s].transferring /\ pi'[s].replacing = pi[s].replacing
         /\ pi[s].active = "none" /\ ~pi[s].transferring
         /\ call' \in [Processes -> Call] /\ Elsewhere(call', call, r)
         /\ call[r].at = "pending" /\ call[r].peer = s
         /\ call'[r].at = "serving" /\ call'[r].peer = s
         /\ load' \in [Processes -> Load] /\ Elsewhere(load', load, s)
         /\ load'[s].at = "sent" /\ load'[s].to = r /\ load'[s].file = pi[s].file /\ ~load'[s].stale
         /\ UNCHANGED swap
         /\ disk' = AppendTo(pi[s].file) /\ NewEntry \in Entries /\ UNCHANGED <<warned, cut>>
         /\ pi[s].up = "running" /\ swap[s].at \notin {"cancelled", "torn"}
<1>1. /\ pi' \in [Processes -> Process] /\ Elsewhere(pi', pi, s)
      /\ pi'[s].up = pi[s].up /\ pi'[s].file = pi[s].file /\ pi'[s].view = pi[s].view \cup {NewEntry}
         /\ pi'[s].busy = pi[s].busy
      /\ pi'[s].active = "source" /\ pi'[s].transferring /\ pi'[s].replacing = pi[s].replacing
      /\ pi[s].active = "none" /\ ~pi[s].transferring
  <2> DEFINE new == [pi[s] EXCEPT !.transferring = TRUE, !.active = "source", !.view = pi[s].view \cup {NewEntry}]
  <2>1. pi' = [pi EXCEPT ![s] = new]
    <3>1. pi' = [pi EXCEPT ![s].transferring = TRUE, ![s].active = "source", ![s].view = @ \cup {NewEntry}]
      BY DEF ServeTake
    <3> QED
      BY <3>1, Typed DEF Process
  <2>2. pi[s] \in Process /\ pi[s].view \cup {NewEntry} \subseteq Entries
    BY Typed DEF ServeTake
  <2>3. new \in Process
    BY <2>2 DEF Process
  <2>4. pi' \in [Processes -> Process] /\ Elsewhere(pi', pi, s) /\ pi'[s] = new
    BY <2>1, <2>3, OneChanges DEF TypeOK, Elsewhere
  <2> QED
    BY <2>4, Typed DEF Process, ServeTake
<1>2. /\ call' \in [Processes -> Call] /\ Elsewhere(call', call, r)
      /\ call[r].at = "pending" /\ call[r].peer = s
      /\ call'[r].at = "serving" /\ call'[r].peer = s
  <2> DEFINE new == [call[r] EXCEPT !.at = "serving"]
  <2>1. call' = [call EXCEPT ![r] = new]
    BY Typed DEF ServeTake, Call
  <2>2. call[r] \in Call
    BY Typed DEF ServeTake
  <2>3. new \in Call
    BY <2>2 DEF Call
  <2>4. call' \in [Processes -> Call] /\ Elsewhere(call', call, r) /\ call'[r] = new
    BY <2>1, <2>3, OneChanges DEF TypeOK, Elsewhere
  <2> QED
    BY <2>4, Typed DEF Call, ServeTake
<1>3. /\ load' \in [Processes -> Load] /\ Elsewhere(load', load, s)
      /\ load'[s].at = "sent" /\ load'[s].to = r /\ load'[s].file = pi[s].file /\ ~load'[s].stale
  <2> DEFINE new == [at |-> "sent", to |-> r, file |-> pi[s].file, leaf |-> saveTransfer(s),
                     cwd |-> pi[s].cwd, own |-> call[r].own, stale |-> FALSE]
  <2>1. load' = [load EXCEPT ![s] = new]
    BY Typed DEF ServeTake, Load
  <2>2. pi[s].file \in Files /\ saveTransfer(s) \in 0..2 * MaxActs /\ pi[s].cwd \in 0..1 /\ call[r].own \in Files
    BY Typed, SaveTyped DEF ServeTake
  <2>3. new \in Load
    BY <2>2 DEF Load
  <2>4. load' \in [Processes -> Load] /\ Elsewhere(load', load, s) /\ load'[s] = new
    BY <2>1, <2>3, OneChanges DEF TypeOK, Elsewhere
  <2> QED
    BY <2>4, Typed DEF Load, ServeTake
<1> QED
  BY <1>1, <1>2, <1>3 DEF ServeTake, Idle, Usable, Running

\* A process that leaves keeps what it showed, and is gone.
LEMMA LeavesDoes ==
  ASSUME TypeOK, NEW s \in Processes, Leaves(s)
  PROVE  /\ pi' \in [Processes -> Process] /\ Elsewhere(pi', pi, s)
         /\ pi'[s].up = "gone" /\ pi'[s].file = pi[s].file /\ pi'[s].view = pi[s].view /\ pi'[s].busy = pi[s].busy
         /\ RoleKept(s) /\ FlagsKept(s)
         /\ UNCHANGED <<call, load, swap>>
         /\ UNCHANGED <<disk, warned, cut>>
<1>1. /\ pi' \in [Processes -> Process] /\ Elsewhere(pi', pi, s)
      /\ pi'[s].up = "gone" /\ pi'[s].file = pi[s].file /\ pi'[s].view = pi[s].view /\ pi'[s].busy = pi[s].busy
      /\ RoleKept(s) /\ FlagsKept(s)
  <2> DEFINE new == [pi[s] EXCEPT !.up = "gone"]
  <2>1. pi' = [pi EXCEPT ![s] = new]
    BY Typed DEF Leaves, Process
  <2>2. pi[s] \in Process
    BY Typed DEF Leaves
  <2>3. new \in Process
    BY <2>2 DEF Process
  <2>4. pi' \in [Processes -> Process] /\ Elsewhere(pi', pi, s) /\ pi'[s] = new
    BY <2>1, <2>3, OneChanges DEF TypeOK, Elsewhere
  <2> QED
    BY <2>4, Typed DEF Process, RoleKept, FlagsKept, Leaves
<1> QED
  BY <1>1 DEF Leaves

\* A receiver with no replacement under way begins that of the load it is asked for.
LEMMA LoadBeginsDoes ==
  ASSUME TypeOK, NEW r \in Processes, NEW s \in Processes, LoadBegins(r, s)
  PROVE  /\ pi' \in [Processes -> Process] /\ Elsewhere(pi', pi, r)
         /\ SessionKept(r) /\ RoleKept(r)
         /\ pi'[r].transferring = pi[r].transferring /\ pi'[r].replacing
         /\ pi[r].active = "receiver" /\ pi[r].peer = s
         /\ swap' \in [Processes -> Swap] /\ Elsewhere(swap', swap, r)
         /\ swap[r].kind = "none"
         /\ swap'[r].kind = "load" /\ swap'[r].at = "before" /\ swap'[r].file = load[s].file /\ swap'[r].from = s
         /\ load' \in [Processes -> Load] /\ Elsewhere(load', load, s)
         /\ load[s].at = "pending" /\ load[s].to = r /\ load'[s].at = "swapping"
         /\ load'[s].to = r /\ load'[s].file = load[s].file /\ load'[s].stale = load[s].stale
         /\ UNCHANGED call
         /\ UNCHANGED <<disk, warned, cut>>
<1>1. /\ pi' \in [Processes -> Process] /\ Elsewhere(pi', pi, r)
      /\ SessionKept(r) /\ RoleKept(r)
      /\ pi'[r].transferring = pi[r].transferring /\ pi'[r].replacing
      /\ pi[r].active = "receiver" /\ pi[r].peer = s
  <2> DEFINE new == [pi[r] EXCEPT !.restore = TRUE, !.replacing = TRUE]
  <2>1. pi' = [pi EXCEPT ![r] = new]
    BY Typed DEF LoadBegins, Process
  <2>2. pi[r] \in Process
    BY Typed DEF LoadBegins
  <2>3. new \in Process
    BY <2>2 DEF Process
  <2>4. pi' \in [Processes -> Process] /\ Elsewhere(pi', pi, r) /\ pi'[r] = new
    BY <2>1, <2>3, OneChanges DEF TypeOK, Elsewhere
  <2> QED
    BY <2>4, Typed DEF Process, SessionKept, RoleKept, LoadBegins, NoSwap, NoFile, File, LoadAccepted
<1>2. /\ swap' \in [Processes -> Swap] /\ Elsewhere(swap', swap, r)
      /\ swap[r].kind = "none"
      /\ swap'[r].kind = "load" /\ swap'[r].at = "before" /\ swap'[r].file = load[s].file /\ swap'[r].from = s
  <2> DEFINE new == [NoSwap(r) EXCEPT !.kind = "load", !.file = load[s].file, !.from = s]
  <2>1. swap' = [swap EXCEPT ![r] = new]
    BY DEF LoadBegins
  <2>2. load[s].file \in Files
    BY Typed
  <2>3. new \in Swap
    BY <2>2, NoSwapTyped DEF Swap
  <2>4. swap' \in [Processes -> Swap] /\ Elsewhere(swap', swap, r) /\ swap'[r] = new
    BY <2>1, <2>3, OneChanges DEF TypeOK, Elsewhere
  <2> QED
    BY <2>4, NoSwapTyped DEF Swap, LoadBegins
<1>3. /\ load' \in [Processes -> Load] /\ Elsewhere(load', load, s)
      /\ load[s].at = "pending" /\ load[s].to = r /\ load'[s].at = "swapping"
      /\ load'[s].to = r /\ load'[s].file = load[s].file /\ load'[s].stale = load[s].stale
  <2> DEFINE new == [load[s] EXCEPT !.at = "swapping"]
  <2>1. load' = [load EXCEPT ![s] = new]
    BY Typed DEF LoadBegins, Load
  <2>2. load[s] \in Load
    BY Typed DEF LoadBegins
  <2>3. new \in Load
    BY <2>2 DEF Load
  <2>4. load' \in [Processes -> Load] /\ Elsewhere(load', load, s) /\ load'[s] = new
    BY <2>1, <2>3, OneChanges DEF TypeOK, Elsewhere
  <2> QED
    BY <2>4, Typed DEF Load, LoadBegins, NoSwap, NoFile, File, LoadAccepted
<1> QED
  BY <1>1, <1>2, <1>3 DEF LoadBegins, LoadAccepted

\* A refused load costs its receiver the control state of the command.
LEMMA LoadRefusedDoes ==
  ASSUME TypeOK, NEW r \in Processes, NEW s \in Processes, LoadRefused(r, s)
  PROVE  /\ pi' \in [Processes -> Process] /\ Elsewhere(pi', pi, r)
         /\ SessionKept(r) /\ RoleKept(r)
         /\ pi'[r].transferring = pi[r].transferring /\ ~pi'[r].replacing
         /\ load' \in [Processes -> Load] /\ Elsewhere(load', load, s)
         /\ load[s].at = "pending" /\ load'[s].at = "refused"
         /\ load'[s].to = load[s].to /\ load'[s].file = load[s].file /\ load'[s].stale = load[s].stale
         /\ UNCHANGED <<call, swap>>
         /\ UNCHANGED <<disk, warned>> /\ cut' = cut \cup Cuts(r)
<1>1. /\ pi' \in [Processes -> Process] /\ Elsewhere(pi', pi, r)
      /\ SessionKept(r) /\ RoleKept(r)
      /\ pi'[r].transferring = pi[r].transferring /\ ~pi'[r].replacing
  <2> DEFINE new == [pi[r] EXCEPT !.replacing = FALSE, !.restore = FALSE]
  <2>1. pi' = [pi EXCEPT ![r] = new]
    BY Typed DEF LoadRefused, Process, HandlerEnds
  <2>2. pi[r] \in Process
    BY Typed DEF LoadRefused
  <2>3. new \in Process
    BY <2>2 DEF Process
  <2>4. pi' \in [Processes -> Process] /\ Elsewhere(pi', pi, r) /\ pi'[r] = new
    BY <2>1, <2>3, OneChanges DEF TypeOK, Elsewhere
  <2> QED
    BY <2>4, Typed DEF Process, SessionKept, RoleKept, LoadRefused
<1>2. /\ load' \in [Processes -> Load] /\ Elsewhere(load', load, s)
      /\ load[s].at = "pending" /\ load'[s].at = "refused"
      /\ load'[s].to = load[s].to /\ load'[s].file = load[s].file /\ load'[s].stale = load[s].stale
  <2> DEFINE new == [load[s] EXCEPT !.at = "refused"]
  <2>1. load' = [load EXCEPT ![s] = new]
    BY Typed DEF LoadRefused, Load
  <2>2. load[s] \in Load
    BY Typed DEF LoadRefused
  <2>3. new \in Load
    BY <2>2 DEF Load
  <2>4. load' \in [Processes -> Load] /\ Elsewhere(load', load, s) /\ load'[s] = new
    BY <2>1, <2>3, OneChanges DEF TypeOK, Elsewhere
  <2> QED
    BY <2>4, Typed DEF Load, LoadRefused
<1> QED
  BY <1>1, <1>2 DEF LoadRefused

\* The receiver reports, and the human is told of two views if it is not ready or unheard.
LEMMA LoadedDoes ==
  ASSUME TypeOK, NEW r \in Processes, NEW s \in Processes, NEW ready \in BOOLEAN, Loaded(r, s, ready)
  PROVE  /\ pi' \in [Processes -> Process] /\ Elsewhere(pi', pi, r)
         /\ SessionKept(r) /\ RoleKept(r)
         /\ pi'[r].transferring = pi[r].transferring /\ ~pi'[r].replacing
         /\ swap' \in [Processes -> Swap] /\ Elsewhere(swap', swap, r)
         /\ swap[r].kind = "load" /\ swap[r].at = "started" /\ swap[r].from = s
         /\ swap'[r].kind = "none" /\ swap'[r].at = "before"
         /\ load' \in [Processes -> Load] /\ Elsewhere(load', load, s)
         /\ load'[s].at \in {"ready", "refused"}
         /\ load'[s].to = load[s].to /\ load'[s].file = load[s].file /\ load'[s].stale = load[s].stale
         /\ UNCHANGED call
         /\ pi[r].up = "running"
         /\ load'[s].at = "ready" => pi[r].file = load[s].file
         /\ load'[s].at = "refused" => load[s].file \in warned'
         /\ warned \subseteq warned' /\ warned' \subseteq Files /\ UNCHANGED <<disk, cut>>
<1>1. /\ pi' \in [Processes -> Process] /\ Elsewhere(pi', pi, r)
      /\ SessionKept(r) /\ RoleKept(r)
      /\ pi'[r].transferring = pi[r].transferring /\ ~pi'[r].replacing
  <2> DEFINE new == [pi[r] EXCEPT !.replacing = FALSE, !.restore = FALSE]
  <2>1. pi' = [pi EXCEPT ![r] = new]
    BY Typed DEF Loaded, Process, HandlerEnds
  <2>2. pi[r] \in Process
    BY Typed DEF Loaded
  <2>3. new \in Process
    BY <2>2 DEF Process
  <2>4. pi' \in [Processes -> Process] /\ Elsewhere(pi', pi, r) /\ pi'[r] = new
    BY <2>1, <2>3, OneChanges DEF TypeOK, Elsewhere
  <2> QED
    BY <2>4, Typed DEF Process, SessionKept, RoleKept, Loaded, NoSwap, NoFile, File
<1>2. /\ swap' \in [Processes -> Swap] /\ Elsewhere(swap', swap, r)
      /\ swap[r].kind = "load" /\ swap[r].at = "started" /\ swap[r].from = s
      /\ swap'[r].kind = "none" /\ swap'[r].at = "before"
  <2> DEFINE new == NoSwap(r)
  <2>1. swap' = [swap EXCEPT ![r] = new]
    BY Typed DEF Loaded, Swap
  <2>2. r \in Files
    BY Typed DEF Loaded
  <2>3. new \in Swap
    BY <2>2, NoSwapTyped DEF Swap
  <2>4. swap' \in [Processes -> Swap] /\ Elsewhere(swap', swap, r) /\ swap'[r] = new
    BY <2>1, <2>3, OneChanges DEF TypeOK, Elsewhere
  <2> QED
    BY <2>4, Typed DEF Swap, Loaded, NoSwap, NoFile, File
<1>3. /\ load' \in [Processes -> Load] /\ Elsewhere(load', load, s)
      /\ load'[s].at = IF ready THEN "ready" ELSE "refused"
      /\ load'[s].to = load[s].to /\ load'[s].file = load[s].file /\ load'[s].stale = load[s].stale
  <2> DEFINE new == [load[s] EXCEPT !.at = IF ready THEN "ready" ELSE "refused"]
  <2>1. load' = [load EXCEPT ![s] = new]
    BY Typed DEF Loaded, Load
  <2>2. load[s] \in Load
    BY Typed DEF Loaded
  <2>3. new \in Load
    BY <2>2 DEF Load
  <2>4. load' \in [Processes -> Load] /\ Elsewhere(load', load, s) /\ load'[s] = new
    BY <2>1, <2>3, OneChanges DEF TypeOK, Elsewhere
  <2> QED
    BY <2>4, Typed DEF Load, Loaded, NoSwap, NoFile, File
<1>4. /\ load'[s].at = "ready" => ready
      /\ load'[s].at = "refused" => ~ready
  BY <1>3
<1> QED
  BY <1>1, <1>2, <1>3, <1>4, Typed DEF Loaded, Verified, verifyTransfer, TypeOK, Running

\* A replacement for /cwd, /resume or /new ends; nothing else changes.
LEMMA ReplacedDoes ==
  ASSUME TypeOK, NEW p \in Processes, Replaced(p)
  PROVE  /\ swap' \in [Processes -> Swap] /\ Elsewhere(swap', swap, p)
         /\ swap[p].kind \in {"cwd", "other"} /\ swap[p].at = "started"
         /\ swap'[p].kind = "none" /\ swap'[p].at = "before"
         /\ UNCHANGED <<pi, call, load>>
         /\ UNCHANGED <<disk, warned, cut>>
<1>1. /\ swap' \in [Processes -> Swap] /\ Elsewhere(swap', swap, p)
      /\ swap[p].kind \in {"cwd", "other"} /\ swap[p].at = "started"
      /\ swap'[p].kind = "none" /\ swap'[p].at = "before"
  <2> DEFINE new == NoSwap(p)
  <2>1. swap' = [swap EXCEPT ![p] = new]
    BY Typed DEF Replaced, Swap
  <2>2. p \in Files
    BY Typed DEF Replaced
  <2>3. new \in Swap
    BY <2>2, NoSwapTyped DEF Swap
  <2>4. swap' \in [Processes -> Swap] /\ Elsewhere(swap', swap, p) /\ swap'[p] = new
    BY <2>1, <2>3, OneChanges DEF TypeOK, Elsewhere
  <2> QED
    BY <2>4, Typed DEF Swap, Replaced, NoSwap, NoFile, File
<1> QED
  BY <1>1 DEF Replaced

\* A /switch claims the transfer flag of a process.
LEMMA SwitchDoes ==
  ASSUME TypeOK, NEW p \in Processes, Switch(p)
  PROVE  /\ pi' \in [Processes -> Process] /\ Elsewhere(pi', pi, p)
         /\ SessionKept(p) /\ RoleKept(p)
         /\ pi'[p].transferring /\ pi'[p].replacing = pi[p].replacing /\ ~pi[p].transferring
         /\ call' \in [Processes -> Call] /\ Elsewhere(call', call, p)
         /\ call'[p].at = "preparing"
         /\ UNCHANGED <<load, swap>>
         /\ UNCHANGED <<disk, warned, cut>>
         /\ swap[p].kind = "none" /\ pi[p].up = "running"
<1>1. /\ pi' \in [Processes -> Process] /\ Elsewhere(pi', pi, p)
      /\ SessionKept(p) /\ RoleKept(p)
      /\ pi'[p].transferring /\ pi'[p].replacing = pi[p].replacing /\ ~pi[p].transferring
  <2> DEFINE new == [pi[p] EXCEPT !.transferring = TRUE]
  <2>1. pi' = [pi EXCEPT ![p] = new]
    BY Typed DEF Switch, Process
  <2>2. pi[p] \in Process
    BY Typed DEF Switch
  <2>3. new \in Process
    BY <2>2 DEF Process
  <2>4. pi' \in [Processes -> Process] /\ Elsewhere(pi', pi, p) /\ pi'[p] = new
    BY <2>1, <2>3, OneChanges DEF TypeOK, Elsewhere
  <2> QED
    BY <2>4, Typed DEF Process, SessionKept, RoleKept, Switch, NoCall
<1>2. /\ call' \in [Processes -> Call] /\ Elsewhere(call', call, p)
      /\ call'[p].at = "preparing"
  <2> DEFINE new == [NoCall(p) EXCEPT !.at = "preparing"]
  <2>1. call' = [call EXCEPT ![p] = new]
    BY Typed DEF Switch, Call
  <2>2. p \in Files
    BY Typed DEF Switch
  <2>3. new \in Call
    BY <2>2 DEF Call, NoCall
  <2>4. call' \in [Processes -> Call] /\ Elsewhere(call', call, p) /\ call'[p] = new
    BY <2>1, <2>3, OneChanges DEF TypeOK, Elsewhere
  <2> QED
    BY <2>4, Typed DEF Call, Switch, NoCall
<1> QED
  BY <1>1, <1>2 DEF Switch, Act, Usable, Running

\* A /switch that is not under way gives the flag back.
LEMMA SwitchFailsDoes ==
  ASSUME TypeOK, NEW p \in Processes, SwitchFails(p)
  PROVE  /\ pi' \in [Processes -> Process] /\ Elsewhere(pi', pi, p)
         /\ SessionKept(p) /\ RoleKept(p)
         /\ ~pi'[p].transferring /\ pi'[p].replacing = pi[p].replacing
         /\ call' \in [Processes -> Call] /\ Elsewhere(call', call, p)
         /\ call[p].at = "preparing" /\ call'[p].at = "idle" /\ swap[p].kind # "switch"
         /\ UNCHANGED <<load, swap>>
         /\ UNCHANGED <<disk, warned, cut>>
<1>1. /\ pi' \in [Processes -> Process] /\ Elsewhere(pi', pi, p)
      /\ SessionKept(p) /\ RoleKept(p)
      /\ ~pi'[p].transferring /\ pi'[p].replacing = pi[p].replacing
  <2> DEFINE new == [pi[p] EXCEPT !.transferring = FALSE]
  <2>1. pi' = [pi EXCEPT ![p] = new]
    BY Typed DEF SwitchFails, Process
  <2>2. pi[p] \in Process
    BY Typed DEF SwitchFails
  <2>3. new \in Process
    BY <2>2 DEF Process
  <2>4. pi' \in [Processes -> Process] /\ Elsewhere(pi', pi, p) /\ pi'[p] = new
    BY <2>1, <2>3, OneChanges DEF TypeOK, Elsewhere
  <2> QED
    BY <2>4, Typed DEF Process, SessionKept, RoleKept, SwitchFails, NoCall
<1>2. /\ call' \in [Processes -> Call] /\ Elsewhere(call', call, p)
      /\ call[p].at = "preparing" /\ call'[p].at = "idle" /\ swap[p].kind # "switch"
  <2> DEFINE new == NoCall(p)
  <2>1. call' = [call EXCEPT ![p] = new]
    BY Typed DEF SwitchFails, Call
  <2>2. p \in Files
    BY Typed DEF SwitchFails
  <2>3. new \in Call
    BY <2>2 DEF Call, NoCall
  <2>4. call' \in [Processes -> Call] /\ Elsewhere(call', call, p) /\ call'[p] = new
    BY <2>1, <2>3, OneChanges DEF TypeOK, Elsewhere
  <2> QED
    BY <2>4, Typed DEF Call, SwitchFails, NoCall
<1> QED
  BY <1>1, <1>2 DEF SwitchFails

\* The file is set back to what it held.
LEMMA CwdCancelledDoes ==
  ASSUME TypeOK, NEW p \in Processes, CwdCancelled(p)
  PROVE  /\ swap' \in [Processes -> Swap] /\ Elsewhere(swap', swap, p)
         /\ swap[p].at = "cancelled" /\ swap'[p].kind = "none" /\ swap'[p].at = "before"
         /\ UNCHANGED <<pi, call, load>>
         /\ pi[p].up = "running"
         /\ disk' \in [Files -> File] /\ Elsewhere(disk', disk, swap[p].file)
         /\ disk'[swap[p].file] = swap[p].saved
         /\ UNCHANGED <<warned, cut>>
<1>1. /\ swap' \in [Processes -> Swap] /\ Elsewhere(swap', swap, p)
      /\ swap[p].at = "cancelled" /\ swap'[p].kind = "none" /\ swap'[p].at = "before"
  <2> DEFINE new == NoSwap(p)
  <2>1. swap' = [swap EXCEPT ![p] = new]
    BY Typed DEF CwdCancelled, Swap
  <2>2. p \in Files
    BY Typed DEF CwdCancelled
  <2>3. new \in Swap
    BY <2>2, NoSwapTyped DEF Swap
  <2>4. swap' \in [Processes -> Swap] /\ Elsewhere(swap', swap, p) /\ swap'[p] = new
    BY <2>1, <2>3, OneChanges DEF TypeOK, Elsewhere
  <2> QED
    BY <2>4, Typed DEF Swap, CwdCancelled, NoSwap, NoFile, File
<1>2. /\ disk' \in [Files -> File] /\ Elsewhere(disk', disk, swap[p].file)
      /\ disk'[swap[p].file] = swap[p].saved
  <2>1. swap[p].file \in Files /\ swap[p].saved \in File
    BY Typed
  <2>2. disk' = [disk EXCEPT ![swap[p].file] = swap[p].saved] /\ disk \in [Files -> File]
    BY DEF CwdCancelled, TypeOK
  <2> QED
    BY <2>1, <2>2, OneChanges DEF Elsewhere
<1> QED
  BY <1>1, <1>2 DEF CwdCancelled

\* The file is set to the view, and the replacement remembers what it held.
LEMMA CwdDoes ==
  ASSUME TypeOK, NEW p \in Processes, NEW cancelled \in BOOLEAN, Cwd(p, cancelled)
  PROVE  /\ swap' \in [Processes -> Swap] /\ Elsewhere(swap', swap, p)
         /\ swap[p].kind = "none" /\ swap'[p].kind = "cwd" /\ swap'[p].file = pi[p].file
         /\ swap'[p].at = (IF cancelled THEN "cancelled" ELSE "before") /\ swap'[p].saved = disk[pi[p].file]
         /\ UNCHANGED <<pi, call, load>>
         /\ pi[p].up = "running" /\ swap[p].at \notin {"cancelled", "torn"}
         /\ swap'[p].at = "before" => MaySwitch(p)
         /\ disk' \in [Files -> File] /\ Elsewhere(disk', disk, pi[p].file)
         /\ disk'[pi[p].file].entries = pi[p].view
         /\ UNCHANGED <<warned, cut>>
<1>1. /\ swap' \in [Processes -> Swap] /\ Elsewhere(swap', swap, p)
      /\ swap[p].kind = "none" /\ swap'[p].kind = "cwd" /\ swap'[p].file = pi[p].file
      /\ swap'[p].at = (IF cancelled THEN "cancelled" ELSE "before") /\ swap'[p].saved = disk[pi[p].file]
  <2> DEFINE new == [NoSwap(p) EXCEPT !.kind = "cwd", !.at = IF cancelled THEN "cancelled" ELSE "before",
                                !.file = pi[p].file, !.saved = disk[pi[p].file]]
  <2>1. swap' = [swap EXCEPT ![p] = new]
    BY Typed DEF Cwd, Swap
  <2>2. {p, pi[p].file} \subseteq Files /\ disk[pi[p].file] \in File
    BY Typed DEF Cwd
  <2>3. new \in Swap
    BY <2>2, NoSwapTyped DEF Swap
  <2>4. swap' \in [Processes -> Swap] /\ Elsewhere(swap', swap, p) /\ swap'[p] = new
    BY <2>1, <2>3, OneChanges DEF TypeOK, Elsewhere
  <2> QED
    BY <2>4, Typed DEF Swap, Cwd, NoSwap, NoFile, File, Act
<1>2. swap'[p].at = "before" => MaySwitch(p)
  BY <1>1 DEF Cwd
<1>3. /\ disk' \in [Files -> File] /\ Elsewhere(disk', disk, pi[p].file)
      /\ disk'[pi[p].file].entries = pi[p].view
  <2> DEFINE new == [entries |-> pi[p].view, cwd |-> 1]
  <2>1. pi[p].file \in Files /\ new \in File /\ new.entries = pi[p].view
    BY Typed DEF File
  <2>2. disk' = [disk EXCEPT ![pi[p].file] = new] /\ disk \in [Files -> File]
    BY DEF Cwd, TypeOK
  <2> HIDE DEF new
  <2> QED
    BY <2>1, <2>2, OneChanges DEF Elsewhere
<1> QED
  BY <1>1, <1>2, <1>3 DEF Cwd, Act, Usable, Running

\* A replacement begins, with a file of the process or one that nobody claims.
LEMMA ResumeDoes ==
  ASSUME TypeOK, NEW p \in Processes, NEW f \in Files, Resume(p, f)
  PROVE  /\ swap' \in [Processes -> Swap] /\ Elsewhere(swap', swap, p)
         /\ swap[p].kind = "none"
         /\ swap'[p].kind = "other" /\ swap'[p].at = "before" /\ swap'[p].file = f
         /\ UNCHANGED <<pi, call, load>>
         /\ MaySwitch(p) /\ pi[p].up = "running"
         /\ f = pi[p].file \/ \A q \in Processes : pi[q].file # f /\ (swap[q].kind # "none" => swap[q].file # f)
         /\ UNCHANGED <<disk, warned, cut>>
<1>1. /\ swap' \in [Processes -> Swap] /\ Elsewhere(swap', swap, p)
      /\ swap[p].kind = "none"
      /\ swap'[p].kind = "other" /\ swap'[p].at = "before" /\ swap'[p].file = f
  <2> DEFINE new == [NoSwap(p) EXCEPT !.kind = "other", !.file = f]
  <2>1. swap' = [swap EXCEPT ![p] = new]
    BY DEF Resume
  <2>2. new \in Swap
    BY NoSwapTyped DEF Swap
  <2>3. swap' \in [Processes -> Swap] /\ Elsewhere(swap', swap, p) /\ swap'[p] = new
    BY <2>1, <2>2, OneChanges DEF TypeOK, Elsewhere
  <2> QED
    BY <2>3, NoSwapTyped DEF Swap, Resume, Act
<1> QED
  BY <1>1 DEF Resume, Act, Usable, Running

\* A message is appended to the view and to the file, in a process without a role.
LEMMA MessageDoes ==
  ASSUME TypeOK, NEW p \in Processes, Message(p)
  PROVE  /\ pi' \in [Processes -> Process] /\ Elsewhere(pi', pi, p)
         /\ pi'[p].up = pi[p].up /\ pi'[p].file = pi[p].file /\ pi'[p].view = pi[p].view \cup {NewEntry}
         /\ RoleKept(p) /\ FlagsKept(p)
         /\ UNCHANGED <<call, load, swap>>
         /\ pi[p].up = "running" /\ swap[p].at \notin {"cancelled", "torn"} /\ pi[p].active = "none"
         /\ NewEntry \in Entries /\ disk' = AppendTo(pi[p].file) /\ UNCHANGED <<warned, cut>>
<1>1. /\ pi' \in [Processes -> Process] /\ Elsewhere(pi', pi, p)
      /\ pi'[p].up = pi[p].up /\ pi'[p].file = pi[p].file /\ pi'[p].view = pi[p].view \cup {NewEntry}
      /\ RoleKept(p) /\ FlagsKept(p)
  <2> DEFINE new == [pi[p] EXCEPT !.view = pi[p].view \cup {NewEntry}, !.busy = TRUE]
  <2>1. pi' = [pi EXCEPT ![p] = new]
    BY Typed DEF Message, Process
  <2>2. pi[p] \in Process /\ pi[p].view \cup {NewEntry} \subseteq Entries
    BY Typed DEF Message
  <2>3. new \in Process
    BY <2>2 DEF Process
  <2>4. pi' \in [Processes -> Process] /\ Elsewhere(pi', pi, p) /\ pi'[p] = new
    BY <2>1, <2>3, OneChanges DEF TypeOK, Elsewhere
  <2> QED
    BY <2>4, Typed DEF Process, RoleKept, FlagsKept, Message
<1> QED
  BY <1>1 DEF Message, Usable, Running, InputAccepted

\* A turn ends; nothing else changes.
LEMMA TurnEndsDoes ==
  ASSUME TypeOK, NEW p \in Processes, TurnEnds(p)
  PROVE  /\ pi' \in [Processes -> Process] /\ Elsewhere(pi', pi, p)
         /\ pi'[p].up = pi[p].up /\ pi'[p].file = pi[p].file /\ pi'[p].view = pi[p].view
         /\ RoleKept(p) /\ FlagsKept(p)
         /\ ~pi'[p].busy
         /\ UNCHANGED <<call, load, swap>>
         /\ UNCHANGED <<disk, warned, cut>>
<1>1. /\ pi' \in [Processes -> Process] /\ Elsewhere(pi', pi, p)
      /\ pi'[p].up = pi[p].up /\ pi'[p].file = pi[p].file /\ pi'[p].view = pi[p].view
         /\ RoleKept(p) /\ FlagsKept(p)
      /\ ~pi'[p].busy
  <2> DEFINE new == [pi[p] EXCEPT !.busy = FALSE]
  <2>1. pi' = [pi EXCEPT ![p] = new]
    BY Typed DEF TurnEnds, Process
  <2>2. pi[p] \in Process
    BY Typed DEF TurnEnds
  <2>3. new \in Process
    BY <2>2 DEF Process
  <2>4. pi' \in [Processes -> Process] /\ Elsewhere(pi', pi, p) /\ pi'[p] = new
    BY <2>1, <2>3, OneChanges DEF TypeOK, Elsewhere
  <2> QED
    BY <2>4, Typed DEF Process, RoleKept, FlagsKept, TurnEnds
<1> QED
  BY <1>1 DEF TurnEnds

\* A process that a human quits or that crashes keeps what it showed, and is gone.
LEMMA ExitsDoes ==
  ASSUME TypeOK, NEW p \in Processes, Exits(p)
  PROVE  /\ pi' \in [Processes -> Process] /\ Elsewhere(pi', pi, p)
         /\ pi[p].up = "running"
         /\ pi'[p].up = "gone" /\ pi'[p].file = pi[p].file /\ pi'[p].view = pi[p].view /\ pi'[p].busy = pi[p].busy
         /\ RoleKept(p) /\ FlagsKept(p)
         /\ UNCHANGED <<call, load, swap>>
         /\ UNCHANGED <<disk, warned, cut>>
<1>1. /\ pi' \in [Processes -> Process] /\ Elsewhere(pi', pi, p)
      /\ pi[p].up = "running"
      /\ pi'[p].up = "gone" /\ pi'[p].file = pi[p].file /\ pi'[p].view = pi[p].view /\ pi'[p].busy = pi[p].busy
      /\ RoleKept(p) /\ FlagsKept(p)
  <2> DEFINE new == [pi[p] EXCEPT !.up = "gone"]
  <2>1. pi' = [pi EXCEPT ![p] = new]
    BY Typed DEF Exits, Process
  <2>2. pi[p] \in Process
    BY Typed DEF Exits
  <2>3. new \in Process
    BY <2>2 DEF Process
  <2>4. pi' \in [Processes -> Process] /\ Elsewhere(pi', pi, p) /\ pi'[p] = new
    BY <2>1, <2>3, OneChanges DEF TypeOK, Elsewhere
  <2> QED
    BY <2>4, Typed DEF Process, RoleKept, FlagsKept, Exits
<1> QED
  BY <1>1 DEF Exits

\* A take becomes pending, refused or lost.
LEMMA TakeArrivesDoes ==
  ASSUME TypeOK, NEW r \in Processes, TakeArrives(r)
  PROVE  /\ call' \in [Processes -> Call] /\ Elsewhere(call', call, r)
         /\ call[r].at = "sent" /\ call'[r].at \in Offered /\ call'[r].peer = call[r].peer
         /\ UNCHANGED <<pi, load, swap>>
         /\ UNCHANGED <<disk, warned, cut>>
<1>1. PICK at \in Offered : call' = [call EXCEPT ![r].at = at]
  BY DEF TakeArrives, Arrives, Offered
<1>2. /\ call' \in [Processes -> Call] /\ Elsewhere(call', call, r)
      /\ call'[r].at = at /\ call'[r].peer = call[r].peer
  <2> DEFINE new == [call[r] EXCEPT !.at = at]
  <2>1. call' = [call EXCEPT ![r] = new]
    BY <1>1, Typed DEF Call
  <2>2. new \in Call
    BY Typed DEF Call, Offered
  <2>3. call' \in [Processes -> Call] /\ Elsewhere(call', call, r) /\ call'[r] = new
    BY <2>1, <2>2, OneChanges DEF TypeOK, Elsewhere
  <2> QED
    BY <2>3, Typed DEF Call
<1> QED
  BY <1>2 DEF TakeArrives

\* A load becomes pending, refused or lost.
LEMMA LoadArrivesDoes ==
  ASSUME TypeOK, NEW s \in Processes, LoadArrives(s)
  PROVE  /\ load' \in [Processes -> Load] /\ Elsewhere(load', load, s)
         /\ load[s].at = "sent" /\ load'[s].at \in Offered
         /\ load'[s].to = load[s].to /\ load'[s].file = load[s].file /\ load'[s].stale = load[s].stale
         /\ UNCHANGED <<pi, call, swap>>
         /\ UNCHANGED <<disk, warned, cut>>
<1>1. PICK at \in Offered : load' = [load EXCEPT ![s].at = at]
  BY DEF LoadArrives, Arrives, Offered
<1>2. /\ load' \in [Processes -> Load] /\ Elsewhere(load', load, s)
      /\ load'[s].at = at
      /\ load'[s].to = load[s].to /\ load'[s].file = load[s].file /\ load'[s].stale = load[s].stale
  <2> DEFINE new == [load[s] EXCEPT !.at = at]
  <2>1. load' = [load EXCEPT ![s] = new]
    BY <1>1, Typed DEF Load
  <2>2. new \in Load
    BY Typed DEF Load, Offered
  <2>3. load' \in [Processes -> Load] /\ Elsewhere(load', load, s) /\ load'[s] = new
    BY <2>1, <2>2, OneChanges DEF TypeOK, Elsewhere
  <2> QED
    BY <2>3, Typed DEF Load
<1> QED
  BY <1>2 DEF LoadArrives

\* The answer to the take that is served.
LEMMA Answered ==
  ASSUME TypeOK, NEW r \in Processes \cup {None}, NEW answer \in {"taken", "refused"},
         call' = Answer(r, answer)
  PROVE  /\ call' \in [Processes -> Call] /\ Elsewhere(call', call, r)
         /\ r \in Processes => /\ call'[r].at = (IF call[r].at = "serving" THEN answer ELSE call[r].at)
                               /\ call'[r].peer = call[r].peer
<1>1. CASE r \in Processes /\ call[r].at = "serving"
  <2> DEFINE new == [call[r] EXCEPT !.at = answer]
  <2>1. call' = [call EXCEPT ![r] = new]
    BY <1>1, Typed DEF Call, Answer
  <2>2. new \in Call
    BY <1>1, Typed DEF Call
  <2>3. call' \in [Processes -> Call] /\ Elsewhere(call', call, r) /\ call'[r] = new
    BY <1>1, <2>1, <2>2, OneChanges DEF TypeOK, Elsewhere
  <2> QED
    BY <1>1, <2>3, Typed DEF Call
<1>2. CASE ~(r \in Processes /\ call[r].at = "serving")
  <2>1. CASE call' = call
    BY <1>2, <2>1 DEF TypeOK, Elsewhere
  <2>2. CASE call' # call
    <3>1. r = None /\ call' = [call EXCEPT ![None].at = answer]
      BY <1>2, <2>2 DEF Answer
    <3>2. None \notin DOMAIN call
      BY TakeAssumption DEF TypeOK
    <3> QED
      BY <2>2, <3>1, <3>2 DEF TypeOK
  <2> QED
    BY <2>1, <2>2
<1> QED
  BY <1>1, <1>2

\* The source answers the take, drops its load, and leaves if its session is the one it offered.
LEMMA SourceReadyDoes ==
  ASSUME TypeOK, NEW s \in Processes, SourceReady(s)
  PROVE  /\ pi' \in [Processes -> Process] /\ Elsewhere(pi', pi, s)
         /\ pi'[s].file = pi[s].file /\ pi'[s].view = pi[s].view /\ pi'[s].busy = pi[s].busy
         /\ pi'[s].up = IF load[s].stale THEN pi[s].up ELSE "leaving"
         /\ RoleKept(s) /\ pi'[s].transferring = pi[s].transferring /\ ~pi'[s].replacing
         /\ pi[s].up = "running" /\ swap[s].at # "cancelled"
         /\ load' \in [Processes -> Load] /\ Elsewhere(load', load, s)
         /\ load[s].at = "ready" /\ load'[s].at = "idle"
         /\ call' \in [Processes -> Call] /\ Elsewhere(call', call, load[s].to)
         /\ load[s].to \in Processes =>
              /\ call'[load[s].to].peer = call[load[s].to].peer
              /\ call'[load[s].to].at =
                   (IF call[load[s].to].at = "serving" THEN "taken" ELSE call[load[s].to].at)
         /\ UNCHANGED swap
         /\ UNCHANGED <<disk, warned>> /\ cut' = cut \cup Cuts(s)
<1>1. /\ pi' \in [Processes -> Process] /\ Elsewhere(pi', pi, s)
      /\ pi'[s].file = pi[s].file /\ pi'[s].view = pi[s].view /\ pi'[s].busy = pi[s].busy
      /\ pi'[s].up = IF load[s].stale THEN pi[s].up ELSE "leaving"
      /\ RoleKept(s) /\ pi'[s].transferring = pi[s].transferring /\ ~pi'[s].replacing
  <2> DEFINE up == IF load[s].stale THEN pi[s].up ELSE "leaving"
  <2> DEFINE new == [pi[s] EXCEPT !.replacing = FALSE, !.restore = FALSE, !.up = up]
  <2>1. pi' = [pi EXCEPT ![s] = new]
    <3>1. HandlerEnds(s) = [pi EXCEPT ![s] = [pi[s] EXCEPT !.replacing = FALSE, !.restore = FALSE]]
      BY Typed DEF HandlerEnds, Process
    <3>2. [HandlerEnds(s) EXCEPT ![s].up = "leaving"]
            = [pi EXCEPT ![s] = [pi[s] EXCEPT !.replacing = FALSE, !.restore = FALSE, !.up = "leaving"]]
      BY <3>1, Typed DEF Process, TypeOK
    <3>3. pi' = IF load[s].stale THEN HandlerEnds(s) ELSE [HandlerEnds(s) EXCEPT ![s].up = "leaving"]
      BY DEF SourceReady
    <3>4. load[s].stale => new = [pi[s] EXCEPT !.replacing = FALSE, !.restore = FALSE]
      BY Typed DEF Process
    <3> QED
      BY <3>1, <3>2, <3>3, <3>4
  <2>2. pi[s] \in Process
    BY Typed
  <2>3. new \in Process
    BY <2>2 DEF Process
  <2>4. pi' \in [Processes -> Process] /\ Elsewhere(pi', pi, s) /\ pi'[s] = new
    BY <2>1, <2>3, OneChanges DEF TypeOK, Elsewhere
  <2> QED
    BY <2>4, Typed DEF Process, RoleKept
<1>2. load' \in [Processes -> Load] /\ Elsewhere(load', load, s) /\ load'[s].at = "idle"
  <2>1. load' = [load EXCEPT ![s] = NoLoad(s)]
    BY DEF SourceReady
  <2>2. NoLoad(s) \in Load
    BY NoLoadTyped
  <2>3. load' \in [Processes -> Load] /\ Elsewhere(load', load, s) /\ load'[s] = NoLoad(s)
    BY <2>1, <2>2, OneChanges DEF TypeOK, Elsewhere
  <2> QED
    BY <2>3 DEF NoLoad
<1>3. load[s].to \in Processes \cup {None} /\ call' = Answer(load[s].to, "taken")
  BY Typed DEF SourceReady
<1>4. pi[s].up = "running" /\ swap[s].at # "cancelled"
  BY DEF SourceReady, Running
<1> QED
  BY <1>1, <1>2, <1>3, <1>4, Answered DEF SourceReady

\* The source answers the take, drops its load, and goes on without a role.
LEMMA SourceFailsDoes ==
  ASSUME TypeOK, NEW s \in Processes, SourceFails(s)
  PROVE  /\ pi' \in [Processes -> Process] /\ Elsewhere(pi', pi, s)
         /\ SessionKept(s) /\ pi'[s].active = "none" /\ ~pi'[s].transferring /\ ~pi'[s].replacing
         /\ pi[s].up = "running" /\ swap[s].at # "cancelled"
         /\ load' \in [Processes -> Load] /\ Elsewhere(load', load, s) /\ load'[s].at = "idle"
         /\ \/ load[s].at = "refused"
            \/ load[s].at \in {"sent", "pending", "swapping", "lost"} /\ ~Connected(load[s].to)
         /\ call' \in [Processes -> Call] /\ Elsewhere(call', call, load[s].to)
         /\ load[s].to \in Processes =>
              /\ call'[load[s].to].peer = call[load[s].to].peer
              /\ call'[load[s].to].at =
                   (IF call[load[s].to].at = "serving" THEN "refused" ELSE call[load[s].to].at)
         /\ UNCHANGED swap
         /\ UNCHANGED <<disk, warned>> /\ cut' = cut \cup Cuts(s)
<1>1. /\ pi' \in [Processes -> Process] /\ Elsewhere(pi', pi, s)
      /\ SessionKept(s) /\ pi'[s].active = "none" /\ ~pi'[s].transferring /\ ~pi'[s].replacing
  <2> DEFINE new == [pi[s] EXCEPT !.replacing = FALSE, !.restore = FALSE,
                                  !.active = "none", !.peer = None, !.transferring = FALSE]
  <2>1. pi' = [pi EXCEPT ![s] = new]
    <3>1. HandlerEnds(s) = [pi EXCEPT ![s] = [pi[s] EXCEPT !.replacing = FALSE, !.restore = FALSE]]
      BY Typed DEF HandlerEnds, Process
    <3>2. pi' = [HandlerEnds(s) EXCEPT ![s].active = "none", ![s].peer = None, ![s].transferring = FALSE]
      BY DEF SourceFails
    <3> QED
      BY <3>1, <3>2, Typed DEF Process, TypeOK
  <2>2. pi[s] \in Process
    BY Typed
  <2>3. new \in Process
    BY <2>2 DEF Process
  <2>4. pi' \in [Processes -> Process] /\ Elsewhere(pi', pi, s) /\ pi'[s] = new
    BY <2>1, <2>3, OneChanges DEF TypeOK, Elsewhere
  <2> QED
    BY <2>4, Typed DEF Process, SessionKept
<1>2. load' \in [Processes -> Load] /\ Elsewhere(load', load, s) /\ load'[s].at = "idle"
  <2>1. load' = [load EXCEPT ![s] = NoLoad(s)]
    BY DEF SourceFails
  <2>2. NoLoad(s) \in Load
    BY NoLoadTyped
  <2>3. load' \in [Processes -> Load] /\ Elsewhere(load', load, s) /\ load'[s] = NoLoad(s)
    BY <2>1, <2>2, OneChanges DEF TypeOK, Elsewhere
  <2> QED
    BY <2>3 DEF NoLoad
<1>3. load[s].to \in Processes \cup {None} /\ call' = Answer(load[s].to, "refused")
  BY Typed DEF SourceFails
<1>4. pi[s].up = "running" /\ swap[s].at # "cancelled"
  BY DEF SourceFails, Running
<1> QED
  BY <1>1, <1>2, <1>3, <1>4, Answered DEF SourceFails

\* A session starts: its process has new handlers and the same role.
LEMMA SessionStartsDoes ==
  ASSUME TypeOK, NEW p \in Processes, NEW restores \in BOOLEAN, SessionStarts(p, restores)
  PROVE  /\ pi' \in [Processes -> Process] /\ Elsewhere(pi', pi, p)
         /\ SessionKept(p) /\ RoleKept(p) /\ FlagsKept(p)
         /\ swap' \in [Processes -> Swap] /\ Elsewhere(swap', swap, p)
         /\ swap[p].at = "torn" /\ swap'[p].at = "started"
         /\ swap'[p].kind = swap[p].kind /\ swap'[p].file = swap[p].file /\ swap'[p].from = swap[p].from
         /\ UNCHANGED <<call, load>>
         /\ UNCHANGED <<disk, warned, cut>>
<1>1. /\ pi' \in [Processes -> Process] /\ Elsewhere(pi', pi, p)
      /\ SessionKept(p) /\ RoleKept(p) /\ FlagsKept(p)
  <2>1. PICK restored \in BOOLEAN, restore \in BOOLEAN, dispatch \in {"none", "live", "stale"} :
          pi' = [pi EXCEPT ![p].restored = restored, ![p].restore = restore, ![p].dispatch = dispatch]
    <3>1. pi[p].restore \in BOOLEAN /\ pi[p].dispatch \in {"none", "live", "stale"}
      BY Typed DEF Process
    <3> DEFINE dispatch == CASE restores -> "live"
                             [] ~restores /\ pi[p].dispatch = "live" -> "stale"
                             [] OTHER -> pi[p].dispatch
    <3>2. dispatch \in {"none", "live", "stale"}
      BY <3>1
    <3>3. pi' = [pi EXCEPT ![p].restored = pi[p].restore /\ restores, ![p].restore = pi[p].restore /\ ~restores,
                           ![p].dispatch = dispatch]
      BY Typed DEF SessionStarts, Process
    <3> HIDE DEF dispatch
    <3> QED
      BY <3>1, <3>2, <3>3
  <2> DEFINE new == [pi[p] EXCEPT !.restored = restored, !.restore = restore, !.dispatch = dispatch]
  <2>2. pi' = [pi EXCEPT ![p] = new]
    BY <2>1, Typed DEF Process
  <2>3. pi[p] \in Process
    BY Typed
  <2>4. new \in Process
    BY <2>3 DEF Process
  <2>5. pi' \in [Processes -> Process] /\ Elsewhere(pi', pi, p) /\ pi'[p] = new
    BY <2>2, <2>4, OneChanges DEF TypeOK, Elsewhere
  <2> QED
    BY <2>3, <2>5 DEF Process, SessionKept, RoleKept, FlagsKept
<1>2. /\ swap' \in [Processes -> Swap] /\ Elsewhere(swap', swap, p)
      /\ swap[p].at = "torn" /\ swap'[p].at = "started"
      /\ swap'[p].kind = swap[p].kind /\ swap'[p].file = swap[p].file /\ swap'[p].from = swap[p].from
  <2> DEFINE new == [swap[p] EXCEPT !.at = "started"]
  <2>1. swap' = [swap EXCEPT ![p] = new]
    BY Typed DEF SessionStarts, Swap
  <2>2. new \in Swap
    BY Typed DEF Swap
  <2>3. swap' \in [Processes -> Swap] /\ Elsewhere(swap', swap, p) /\ swap'[p] = new
    BY <2>1, <2>2, OneChanges DEF TypeOK, Elsewhere
  <2> QED
    BY <2>3, Typed DEF Swap, SessionStarts
<1> QED
  BY <1>1, <1>2 DEF SessionStarts

\* Appending adds an entry to one file.
LEMMA AppendDoes ==
  ASSUME TypeOK, NEW f \in Files, NewEntry \in Entries
  PROVE  /\ AppendTo(f) \in [Files -> File]
         /\ AppendTo(f)[f].entries = disk[f].entries \cup {NewEntry}
         /\ Elsewhere(AppendTo(f), disk, f)
<1> DEFINE new == [disk[f] EXCEPT !.entries = disk[f].entries \cup {NewEntry}]
<1>1. disk[f] \in File /\ disk \in [Files -> File]
  BY DEF TypeOK
<1>2. new \in File /\ new.entries = disk[f].entries \cup {NewEntry}
  BY <1>1 DEF File
<1>3. AppendTo(f) = [disk EXCEPT ![f] = new]
  BY <1>1 DEF AppendTo, File
<1> QED
  BY <1>1, <1>2, <1>3 DEF Elsewhere

\* The process shows the other file as it is on disk; only a load keeps its role.
LEMMA TearsDownDoes ==
  ASSUME TypeOK, NEW p \in Processes, TearsDown(p)
  PROVE  /\ pi' \in [Processes -> Process] /\ Elsewhere(pi', pi, p)
         /\ pi'[p].up = pi[p].up /\ pi'[p].file = swap[p].file /\ pi'[p].view = disk[swap[p].file].entries
         /\ FlagsKept(p) /\ ~pi'[p].busy
         /\ IF pi[p].replacing /\ swap[p].kind # "other" THEN RoleKept(p) ELSE pi'[p].active = "none"
         /\ pi[p].up = "running"
         /\ call' \in [Processes -> Call]
         /\ \A q \in Processes :
              /\ call'[q].peer = call[q].peer
              /\ call'[q].at = call[q].at \/ (call[q].at = "pending" /\ call'[q].at = "refused")
         /\ load' \in [Processes -> Load]
         /\ \A q \in Processes :
              /\ load'[q].to = load[q].to /\ load'[q].file = load[q].file
              /\ load'[q].at = load[q].at \/ (load[q].at = "pending" /\ load'[q].at = "refused")
              /\ IF q = p THEN load[p].at # "idle" => load'[q].stale ELSE load'[q].stale = load[q].stale
         /\ swap' \in [Processes -> Swap] /\ Elsewhere(swap', swap, p)
         /\ swap[p].kind # "none" /\ swap[p].at = "before" /\ swap'[p].at = "torn"
         /\ swap'[p].kind = swap[p].kind /\ swap'[p].file = swap[p].file /\ swap'[p].from = swap[p].from
         /\ warned' = (IF load[p].at = "idle" THEN warned ELSE warned \cup {load[p].file})
         /\ UNCHANGED <<disk, cut>>
<1> DEFINE f == swap[p].file
           kept == pi[p].replacing /\ swap[p].kind # "other"
<1>1. /\ pi' \in [Processes -> Process] /\ Elsewhere(pi', pi, p)
      /\ pi'[p].up = pi[p].up /\ pi'[p].file = swap[p].file /\ pi'[p].view = disk[swap[p].file].entries
      /\ FlagsKept(p) /\ ~pi'[p].busy
      /\ IF kept THEN RoleKept(p) ELSE pi'[p].active = "none"
  <2> DEFINE shown == [pi[p] EXCEPT !.file = f, !.view = disk[f].entries, !.cwd = disk[f].cwd, !.busy = FALSE]
             lost == [shown EXCEPT !.dispatch = "none", !.active = "none", !.peer = None, !.restore = FALSE]
             new == IF kept THEN shown ELSE lost
  <2>1. pi' = [pi EXCEPT ![p] = new]
    BY DEF TearsDown
  <2>2. pi[p] \in Process /\ f \in Files /\ disk[f].entries \subseteq Entries /\ disk[f].cwd \in 0..1
    BY Typed DEF File
  <2>3. shown \in Process /\ lost \in Process
    BY <2>2 DEF Process
  <2>4. pi' \in [Processes -> Process] /\ Elsewhere(pi', pi, p) /\ pi'[p] = new
    BY <2>1, <2>3, OneChanges DEF TypeOK, Elsewhere
  <2> QED
    BY <2>2, <2>4 DEF Process, FlagsKept, RoleKept
<1>2. /\ call' \in [Processes -> Call]
      /\ \A q \in Processes :
           /\ call'[q].peer = call[q].peer
           /\ call'[q].at = call[q].at \/ (call[q].at = "pending" /\ call'[q].at = "refused")
  <2>1. /\ DOMAIN call' = Processes /\ call' = [q \in Processes |-> call'[q]]
        /\ call'[p] = [call[p] EXCEPT !.stale = call[p].at # "idle"]
        /\ \A q \in Processes \ {p} :
             call'[q] = call[q] \/ (call[q].at = "pending" /\ call'[q] = [call[q] EXCEPT !.at = "refused"])
    <3> DEFINE new(q) == CASE q = p -> [call[p] EXCEPT !.stale = call[p].at # "idle"]
                           [] q # p /\ ~kept /\ call[q].at = "pending" /\ call[q].peer = p ->
                                 [call[q] EXCEPT !.at = "refused"]
                           [] OTHER -> call[q]
    <3>1. call' = [q \in Processes |-> new(q)]
      BY DEF TearsDown
    <3>2. new(p) = [call[p] EXCEPT !.stale = call[p].at # "idle"]
      OBVIOUS
    <3>3. \A q \in Processes \ {p} :
            new(q) = call[q] \/ (call[q].at = "pending" /\ new(q) = [call[q] EXCEPT !.at = "refused"])
      OBVIOUS
    <3> HIDE DEF new
    <3> QED
      BY <3>1, <3>2, <3>3
  <2>2. ASSUME NEW q \in Processes
        PROVE  /\ call'[q] \in Call /\ call'[q].peer = call[q].peer
               /\ call'[q].at = call[q].at \/ (call[q].at = "pending" /\ call'[q].at = "refused")
    <3>1. call[q] \in Call /\ (call[q].at # "idle") \in BOOLEAN
      BY Typed
    <3>2. CASE q = p
      BY <2>1, <3>1, <3>2 DEF Call
    <3>3. CASE q # p /\ call'[q] = call[q]
      BY <3>1, <3>3
    <3>4. CASE q # p /\ call[q].at = "pending" /\ call'[q] = [call[q] EXCEPT !.at = "refused"]
      BY <3>1, <3>4 DEF Call
    <3> QED
      BY <2>1, <3>2, <3>3, <3>4
  <2> QED
    BY <2>1, <2>2
<1>3. /\ load' \in [Processes -> Load]
      /\ \A q \in Processes :
           /\ load'[q].to = load[q].to /\ load'[q].file = load[q].file
           /\ load'[q].at = load[q].at \/ (load[q].at = "pending" /\ load'[q].at = "refused")
           /\ IF q = p THEN load[p].at # "idle" => load'[q].stale ELSE load'[q].stale = load[q].stale
  <2>1. /\ DOMAIN load' = Processes /\ load' = [q \in Processes |-> load'[q]]
        /\ load'[p] = [load[p] EXCEPT !.stale = load[p].at # "idle"]
        /\ \A q \in Processes \ {p} :
             load'[q] = load[q] \/ (load[q].at = "pending" /\ load'[q] = [load[q] EXCEPT !.at = "refused"])
    <3> DEFINE new(q) == CASE q = p -> [load[p] EXCEPT !.stale = load[p].at # "idle"]
                           [] q # p /\ ~kept /\ load[q].at = "pending" /\ load[q].to = p ->
                                 [load[q] EXCEPT !.at = "refused"]
                           [] OTHER -> load[q]
    <3>1. load' = [q \in Processes |-> new(q)]
      BY DEF TearsDown
    <3>2. new(p) = [load[p] EXCEPT !.stale = load[p].at # "idle"]
      OBVIOUS
    <3>3. \A q \in Processes \ {p} :
            new(q) = load[q] \/ (load[q].at = "pending" /\ new(q) = [load[q] EXCEPT !.at = "refused"])
      OBVIOUS
    <3> HIDE DEF new
    <3> QED
      BY <3>1, <3>2, <3>3
  <2>2. ASSUME NEW q \in Processes
        PROVE  /\ load'[q] \in Load /\ load'[q].to = load[q].to /\ load'[q].file = load[q].file
               /\ load'[q].at = load[q].at \/ (load[q].at = "pending" /\ load'[q].at = "refused")
               /\ IF q = p THEN load[p].at # "idle" => load'[q].stale ELSE load'[q].stale = load[q].stale
    <3>1. load[q] \in Load /\ (load[q].at # "idle") \in BOOLEAN
      BY Typed
    <3>2. CASE q = p
      BY <2>1, <3>1, <3>2 DEF Load
    <3>3. CASE q # p /\ load'[q] = load[q]
      BY <3>1, <3>3
    <3>4. CASE q # p /\ load[q].at = "pending" /\ load'[q] = [load[q] EXCEPT !.at = "refused"]
      BY <3>1, <3>4 DEF Load
    <3> QED
      BY <2>1, <3>2, <3>3, <3>4
  <2> QED
    BY <2>1, <2>2
<1>4. /\ swap' \in [Processes -> Swap] /\ Elsewhere(swap', swap, p)
      /\ swap'[p].at = "torn" /\ swap'[p].kind = swap[p].kind
      /\ swap'[p].file = swap[p].file /\ swap'[p].from = swap[p].from
  <2> DEFINE new == [swap[p] EXCEPT !.at = "torn"]
  <2>1. swap' = [swap EXCEPT ![p] = new]
    BY Typed DEF TearsDown, Swap
  <2>2. new \in Swap
    BY Typed DEF Swap
  <2>3. swap' \in [Processes -> Swap] /\ Elsewhere(swap', swap, p) /\ swap'[p] = new
    BY <2>1, <2>2, OneChanges DEF TypeOK, Elsewhere
  <2> QED
    BY <2>3, Typed DEF Swap
<1> QED
  BY <1>1, <1>2, <1>3, <1>4 DEF TearsDown, Running

\* A /switch appends an entry to view and file, and the human is told of two views.
LEMMA SwitchReloadsDoes ==
  ASSUME TypeOK, NEW p \in Processes, NEW cancelled \in BOOLEAN, SwitchReloads(p, cancelled)
  PROVE  /\ pi' \in [Processes -> Process] /\ Elsewhere(pi', pi, p)
         /\ pi'[p].up = pi[p].up /\ pi'[p].file = pi[p].file /\ pi'[p].busy = pi[p].busy
         /\ RoleKept(p) /\ pi'[p].replacing = pi[p].replacing
         /\ IF cancelled THEN ~pi'[p].transferring ELSE pi'[p].transferring
         /\ call' \in [Processes -> Call] /\ Elsewhere(call', call, p)
         /\ call[p].at = "preparing"
         /\ IF cancelled THEN call'[p].at = "idle" /\ swap' = swap
            ELSE call' = call /\ swap'[p].kind = "switch" /\ swap'[p].at = "before" /\ swap'[p].file = pi[p].file
         /\ swap' \in [Processes -> Swap] /\ Elsewhere(swap', swap, p)
         /\ swap[p].kind = "none" /\ pi[p].up = "running"
         /\ cancelled \/ MaySwitch(p)
         /\ disk' = AppendTo(pi[p].file) /\ NewEntry \in Entries
         /\ warned' = warned \cup {pi[p].file}
         /\ UNCHANGED <<load, cut>>
<1>1. /\ pi' \in [Processes -> Process] /\ Elsewhere(pi', pi, p)
      /\ pi'[p].up = pi[p].up /\ pi'[p].file = pi[p].file /\ pi'[p].busy = pi[p].busy
      /\ RoleKept(p) /\ pi'[p].transferring = ~cancelled /\ pi'[p].replacing = pi[p].replacing
  <2> DEFINE new == [pi[p] EXCEPT !.view = pi[p].view \cup {NewEntry}, !.transferring = ~cancelled]
  <2>1. pi' = [pi EXCEPT ![p] = new]
    BY Typed DEF SwitchReloads, Process
  <2>2. pi[p] \in Process /\ pi[p].view \cup {NewEntry} \subseteq Entries /\ (~cancelled) \in BOOLEAN
    BY Typed DEF SwitchReloads
  <2>3. new \in Process
    BY <2>2 DEF Process
  <2>4. pi' \in [Processes -> Process] /\ Elsewhere(pi', pi, p) /\ pi'[p] = new
    BY <2>1, <2>3, OneChanges DEF TypeOK, Elsewhere
  <2> QED
    BY <2>2, <2>4 DEF Process, RoleKept
<1>2. /\ call' \in [Processes -> Call] /\ Elsewhere(call', call, p)
      /\ IF cancelled THEN call'[p].at = "idle" ELSE call' = call
  <2>1. NoCall(p) \in Call /\ NoCall(p).at = "idle"
    BY Typed DEF NoCall, Call
  <2>2. call' = IF cancelled THEN [call EXCEPT ![p] = NoCall(p)] ELSE call
    BY DEF SwitchReloads
  <2>3. CASE cancelled
    BY <2>1, <2>2, <2>3, OneChanges DEF TypeOK, Elsewhere
  <2>4. CASE ~cancelled
    BY <2>2, <2>4 DEF TypeOK, Elsewhere
  <2> QED
    BY <2>3, <2>4
<1>3. /\ swap' \in [Processes -> Swap] /\ Elsewhere(swap', swap, p)
      /\ IF cancelled THEN swap' = swap
         ELSE swap'[p].kind = "switch" /\ swap'[p].at = "before" /\ swap'[p].file = pi[p].file
  <2> DEFINE new == [NoSwap(p) EXCEPT !.kind = "switch", !.file = pi[p].file]
  <2>1. new \in Swap /\ new.kind = "switch" /\ new.at = "before" /\ new.file = pi[p].file
    BY Typed, NoSwapTyped DEF Swap
  <2>2. swap' = IF cancelled THEN swap ELSE [swap EXCEPT ![p] = new]
    BY DEF SwitchReloads
  <2> HIDE DEF new
  <2>3. CASE cancelled
    BY <2>2, <2>3 DEF TypeOK, Elsewhere
  <2>4. CASE ~cancelled
    BY <2>1, <2>2, <2>4, OneChanges DEF TypeOK, Elsewhere
  <2> QED
    BY <2>3, <2>4
<1> QED
  BY <1>1, <1>2, <1>3 DEF SwitchReloads, Idle, Usable, Running

\* A second process may come to show the file of a /switch.
LEMMA OpensDoes ==
  ASSUME TypeOK, NEW p \in Processes, NEW d \in Processes \cup {None}, Opens(p, d)
  PROVE  /\ pi' \in [Processes -> Process]
         /\ SessionKept(p) /\ RoleKept(p) /\ ~pi'[p].transferring /\ pi'[p].replacing = pi[p].replacing
         /\ pi'[p].busy = pi[p].busy
         /\ \A q \in Processes \ {p} : RoleKept(q) /\ FlagsKept(q) /\ pi'[q].busy = pi[q].busy
         /\ \A q \in Processes \ {d} : SessionKept(q)
         /\ d \in Processes => pi[d].up = "off" /\ pi'[d].up = "running" /\ pi'[d].file = pi[p].file
         /\ call' \in [Processes -> Call] /\ Elsewhere(call', call, p) /\ call'[p].at = "idle"
         /\ swap' \in [Processes -> Swap] /\ Elsewhere(swap', swap, p)
         /\ swap[p].kind = "switch" /\ swap[p].at = "started" /\ pi[p].up = "running"
         /\ swap'[p].kind = "none" /\ swap'[p].at = "before"
         /\ UNCHANGED <<load, disk, warned, cut>>
<1>1. p # d
  BY TakeAssumption DEF Opens, Frontend, Running, Processes
<1>2. /\ pi' \in [Processes -> Process]
      /\ SessionKept(p) /\ RoleKept(p) /\ ~pi'[p].transferring /\ pi'[p].replacing = pi[p].replacing
      /\ pi'[p].busy = pi[p].busy
      /\ \A q \in Processes \ {p} :
           IF q = d
           THEN /\ pi[d].up = "off" /\ pi'[d].up = "running" /\ pi'[d].file = pi[p].file
                /\ RoleKept(d) /\ FlagsKept(d) /\ pi'[d].busy = pi[d].busy
           ELSE pi'[q] = pi[q]
  <2> DEFINE f == pi[p].file
             started(q) == [pi[q] EXCEPT !.up = "running", !.dispatch = "live", !.file = f,
                                         !.view = disk[f].entries, !.cwd = disk[f].cwd]
             opened == [q \in Processes |-> IF q # d THEN pi[q] ELSE started(q)]
             new == [pi[p] EXCEPT !.transferring = FALSE]
  <2>1. pi' = [opened EXCEPT ![p].transferring = FALSE]
    BY DEF Opens
  <2>2. /\ pi[p] \in Process /\ f \in Files /\ disk[f].entries \subseteq Entries /\ disk[f].cwd \in 0..1
        /\ \A q \in Processes : pi[q] \in Process
    BY Typed DEF File
  <2>3. new \in Process
    BY <2>2 DEF Process
  <2>4. \A q \in Processes :
          /\ started(q) \in Process /\ started(q).up = "running" /\ started(q).file = f
          /\ started(q).active = pi[q].active /\ started(q).peer = pi[q].peer
          /\ started(q).transferring = pi[q].transferring /\ started(q).replacing = pi[q].replacing
          /\ started(q).busy = pi[q].busy
    BY <2>2 DEF Process
  <2> HIDE DEF started
  <2>5. opened \in [Processes -> Process] /\ opened[p] = pi[p]
    BY <1>1, <2>2, <2>4
  <2>6. pi' = [opened EXCEPT ![p] = new]
    BY <2>1, <2>5
  <2> HIDE DEF opened
  <2>7. pi' \in [Processes -> Process] /\ pi'[p] = new /\ \A q \in Processes : q # p => pi'[q] = opened[q]
    BY <2>3, <2>5, <2>6, OneChanges
  <2>8. d \in Processes => pi[d].up = "off"
    BY TakeAssumption DEF Opens
  <2>9. SessionKept(p) /\ RoleKept(p) /\ ~pi'[p].transferring /\ pi'[p].replacing = pi[p].replacing
        /\ pi'[p].busy = pi[p].busy
    BY <2>2, <2>7 DEF Process, SessionKept, RoleKept
  <2>10. \A q \in Processes \ {p} : pi'[q] = IF q = d THEN started(q) ELSE pi[q]
    BY <2>7 DEF opened
  <2> QED
    BY <2>4, <2>7, <2>8, <2>9, <2>10 DEF RoleKept, FlagsKept
<1>3. call' \in [Processes -> Call] /\ Elsewhere(call', call, p) /\ call'[p].at = "idle"
  <2>1. NoCall(p) \in Call /\ NoCall(p).at = "idle"
    BY Typed DEF NoCall, Call
  <2> QED
    BY <2>1, OneChanges DEF Opens, TypeOK, Elsewhere
<1>4. /\ swap' \in [Processes -> Swap] /\ Elsewhere(swap', swap, p)
      /\ swap'[p].kind = "none" /\ swap'[p].at = "before"
  BY NoSwapTyped, OneChanges DEF Opens, TypeOK, Elsewhere
<1>5. /\ \A q \in Processes \ {p} : RoleKept(q) /\ FlagsKept(q) /\ pi'[q].busy = pi[q].busy
      /\ \A q \in Processes \ {d} : SessionKept(q)
      /\ d \in Processes => pi[d].up = "off" /\ pi'[d].up = "running" /\ pi'[d].file = pi[p].file
  BY <1>1, <1>2 DEF RoleKept, FlagsKept, SessionKept
<1> QED
  BY <1>2, <1>3, <1>4, <1>5 DEF Opens, Running

-----------------------------------------------------------------------------
(* The inductive invariant *)

\* A process claims the file it shows, and the one that it is about to show.
Claims(p, f) ==
  /\ pi[p].up = "running"
  /\ \/ pi[p].file = f
     \/ swap[p].kind # "none" /\ swap[p].at = "before" /\ swap[p].file = f

\* A source and a receiver that both claim a file, neither of which accepts input.
Handing(s, r, f) ==
  /\ load[s].at \in {"swapping", "ready"} /\ load[s].to = r /\ load[s].file = f
  /\ pi[s].active = "source" /\ pi[r].active = "receiver"

\* One transfer operation at a time: the flag covers each take, switch and load, and
\* a receiver is one whose own take is under way.
Roles == \A p \in Processes :
  /\ call[p].at # "idle" => pi[p].transferring /\ load[p].at = "idle"
  /\ load[p].at # "idle" => pi[p].transferring
  /\ pi[p].active = "receiver" =>
       /\ call[p].at \in {"sent", "pending", "serving", "lost", "taken", "refused"}
       /\ pi[p].peer = call[p].peer
  /\ pi[p].up \in {"off", "leaving"} => call[p].at = "idle" /\ load[p].at = "idle"
  /\ pi[p].up = "off" => swap[p].kind = "none"

\* What a replacement of each kind goes with.
Swaps == \A p \in Processes :
  /\ pi[p].replacing => swap[p].kind = "load"
  /\ swap[p].kind = "none" => swap[p].at = "before"
  /\ swap[p].at = "cancelled" => swap[p].kind = "cwd"
  /\ swap[p].kind = "switch" =>
       call[p].at = "preparing" /\ swap[p].file \in warned /\ pi[p].file = swap[p].file
  /\ swap[p].kind = "cwd" => pi[p].file = swap[p].file
  /\ swap[p].kind = "load" /\ swap[p].at = "before" /\ ~pi[p].replacing => swap[p].file \in cut
  /\ swap[p].kind = "load" /\ pi[p].up = "running" =>
       LET s == swap[p].from
       IN s \in Processes /\ load[s].at = "swapping" /\ load[s].to = p /\ load[s].file = swap[p].file

\* A load belongs to the take that its source serves; its source stays in the session it
\* offered, or the human is told; and while its receiver swaps or is ready, the
\* receiver's session is the one that was loaded.
LoadHeld(s) ==
  LET r == load[s].to IN
  /\ r \in Processes /\ pi[r].up # "off"
  /\ \/ load[s].stale /\ load[s].file \in warned
     \/ ~load[s].stale /\ pi[s].file = load[s].file /\ pi[s].active = "source"
  /\ pi[s].up = "running" => call[r].at = "serving" /\ call[r].peer = s
  /\ load[s].at = "swapping" /\ pi[r].up = "running" => swap[r].kind = "load" /\ swap[r].from = s
  /\ load[s].at = "ready" /\ pi[s].up = "running" /\ pi[r].up = "running" /\ pi[r].active = "receiver" =>
       pi[r].file = load[s].file /\ (swap[r].kind = "none" \/ swap[r].at = "cancelled")

Loads == \A s \in Processes : load[s].at # "idle" => LoadHeld(s)

\* One process claims a file, or the source and the receiver of its load do.
Sole == \A p, q \in Processes, f \in Files :
  p # q /\ f \notin Excused /\ Claims(p, f) /\ Claims(q, f) => Handing(p, q, f) \/ Handing(q, p, f)

\* A file that is offered has no claim but its source's, and is offered once.
Reserved == \A s \in Processes : load[s].at \in Offered /\ load[s].file \notin Excused =>
  \A q \in Processes \ {s} :
    ~Claims(q, load[s].file) /\ (load[q].at \in Offered => load[q].file # load[s].file)

\* A view is what its file holds, and what the file is set back to is, too.
UpToDateIn(p) ==
  /\ pi[p].view = disk[pi[p].file].entries
  /\ swap[p].at = "cancelled" => swap[p].saved.entries = disk[pi[p].file].entries

Fresh == \A p \in Processes : pi[p].up = "running" /\ pi[p].file \notin Excused => UpToDateIn(p)

IInv == TypeOK /\ Roles /\ Swaps /\ Loads /\ Sole /\ Reserved /\ Fresh

\* Nobody else claims the file that a running process without a part in a transfer shows.
LEMMA Alone ==
  ASSUME IInv, NEW p \in Processes, NEW q \in Processes, p # q,
         pi[p].up = "running", pi[p].active = "none", pi[p].file \notin Excused
  PROVE  ~Claims(q, pi[p].file)
<1>1. pi[p].file \in Files /\ Claims(p, pi[p].file)
  BY Typed DEF IInv, Claims
<1> QED
  BY <1>1 DEF IInv, Sole, Handing

\* At the beginning each process shows its own empty file.
LEMMA InitIInv == Init => IInv
<1> SUFFICES ASSUME Init PROVE IInv
  OBVIOUS
<1>1. PICK off \in SUBSET Late : pi = [p \in Processes |->
       [up |-> IF p \in off THEN "off" ELSE "running",
        dispatch |-> IF p \in off THEN "none" ELSE "live", file |-> p, view |-> {}, cwd |-> 0, busy |-> FALSE,
        active |-> "none", peer |-> None, transferring |-> FALSE, replacing |-> FALSE, restore |-> FALSE,
        restored |-> FALSE]]
  BY DEF Init
<1>2. \A p \in Processes :
        /\ pi[p].up \in {"off", "running"} /\ pi[p].file = p /\ pi[p].view = {} /\ pi[p].active = "none"
        /\ ~pi[p].replacing
        /\ call[p].at = "idle" /\ load[p].at = "idle" /\ swap[p].kind = "none" /\ swap[p].at = "before"
        /\ disk[p].entries = {}
  BY <1>1 DEF Init, NoCall, NoLoad, NoSwap, NoFile, Files
<1>3. TypeOK
  <2>1. pi \in [Processes -> Process]
    BY <1>1 DEF Process, Files
  <2>2. call \in [Processes -> Call]
    BY DEF Init, NoCall, Call, Files
  <2>3. load \in [Processes -> Load]
    BY NoLoadTyped DEF Init
  <2>4. swap \in [Processes -> Swap]
    BY NoSwapTyped DEF Init
  <2>5. disk \in [Files -> File]
    BY DEF Init, NoFile, File
  <2> QED
    BY <2>1, <2>2, <2>3, <2>4, <2>5, TakeAssumption DEF TypeOK, Init
<1>4. Roles /\ Swaps /\ Loads
  BY <1>2 DEF Roles, Swaps, Loads, LoadHeld
<1>5. Sole
  BY <1>2 DEF Sole, Claims
<1>6. Reserved
  BY <1>2 DEF Reserved, Offered
<1>7. Fresh
  <2>1. \A p \in Processes : disk[pi[p].file].entries = {}
    BY <1>2
  <2> QED
    BY <1>2, <2>1 DEF Fresh, UpToDateIn
<1> QED
  BY <1>3, <1>4, <1>5, <1>6, <1>7 DEF IInv

-----------------------------------------------------------------------------
(* Each action keeps it *)

\* A receiver gives its role up when nothing is handed to it any more.
LEMMA TakeEndsKeeps ==
  ASSUME IInv, NEW p \in Processes, TakeEnds(p)
  PROVE  IInv'
<1> USE DEF IInv
<1>1. TypeOK'
  BY TakeEndsDoes DEF TypeOK, TakeEnds
<1>2. Roles'
  BY TakeEndsDoes DEF Roles, Offered, Elsewhere, SessionKept
<1>3. Swaps'
  BY TakeEndsDoes DEF Swaps, Elsewhere, SessionKept
<1>4. Loads'
  BY TakeEndsDoes, TakeAssumption DEF Roles, Swaps, Loads, LoadHeld, Offered, Elsewhere, SessionKept, Connected
<1>5. Sole'
  BY TakeEndsDoes, TakeAssumption
  DEF Sole, Claims, Handing, Excused, Elsewhere, SessionKept, Roles, Loads, LoadHeld, Connected
<1>6. Reserved'
  BY TakeEndsDoes DEF Reserved, Claims, Excused, Offered, Elsewhere, SessionKept
<1>7. Fresh'
  BY TakeEndsDoes DEF Fresh, UpToDateIn, Excused, Elsewhere, SessionKept
<1> QED
  BY <1>1, <1>2, <1>3, <1>4, <1>5, <1>6, <1>7

\* The step keeps the invariant: it changes no claim and no view.
LEMMA TakeArrivesKeeps ==
  ASSUME IInv, NEW r \in Processes, TakeArrives(r)
  PROVE  IInv'
<1> USE DEF IInv
<1>1. TypeOK'
  BY TakeArrivesDoes DEF TypeOK, TakeArrives
<1>2. Roles'
  BY TakeArrivesDoes DEF Roles, Offered, Elsewhere
<1>3. Swaps'
  BY TakeArrivesDoes DEF Swaps, Elsewhere
<1>4. Loads'
  BY TakeArrivesDoes DEF Roles, Swaps, Loads, LoadHeld, Offered, Elsewhere
<1>5. Sole'
  BY TakeArrivesDoes DEF Sole, Claims, Handing, Excused, Elsewhere
<1>6. Reserved'
  BY TakeArrivesDoes DEF Reserved, Claims, Excused, Offered, Elsewhere
<1>7. Fresh'
  BY TakeArrivesDoes DEF Fresh, UpToDateIn, Excused, Elsewhere
<1> QED
  BY <1>1, <1>2, <1>3, <1>4, <1>5, <1>6, <1>7

\* The step keeps the invariant: it changes no claim and no view.
LEMMA LoadArrivesKeeps ==
  ASSUME IInv, NEW s \in Processes, LoadArrives(s)
  PROVE  IInv'
<1> USE DEF IInv
<1>1. TypeOK'
  BY LoadArrivesDoes DEF TypeOK, LoadArrives
<1>2. Roles'
  BY LoadArrivesDoes DEF Roles, Offered, Elsewhere
<1>3. Swaps'
  BY LoadArrivesDoes DEF Swaps, Elsewhere
<1>4. Loads'
  BY LoadArrivesDoes DEF Roles, Swaps, Loads, LoadHeld, Offered, Elsewhere
<1>5. Sole'
  BY LoadArrivesDoes DEF Sole, Claims, Handing, Excused, Elsewhere
<1>6. Reserved'
  BY LoadArrivesDoes DEF Reserved, Claims, Excused, Offered, Elsewhere
<1>7. Fresh'
  BY LoadArrivesDoes DEF Fresh, UpToDateIn, Excused, Elsewhere
<1> QED
  BY <1>1, <1>2, <1>3, <1>4, <1>5, <1>6, <1>7

\* The source that leaves has no claim left; one that stays is excused.
LEMMA SourceReadyKeeps ==
  ASSUME IInv, NEW s \in Processes, SourceReady(s)
  PROVE  IInv'
<1> USE DEF IInv
<1>1. TypeOK'
  <2>1. acts' = acts /\ exits' = exits /\ Cuts(s) \subseteq Files
    BY Typed DEF SourceReady, Cuts
  <2> QED
    BY <2>1, SourceReadyDoes DEF TypeOK
<1>2. Roles'
  BY SourceReadyDoes DEF Roles, Offered, Elsewhere, RoleKept
<1>3. Swaps'
  BY SourceReadyDoes DEF Swaps, Cuts, Elsewhere, RoleKept
<1>4. Loads'
  BY SourceReadyDoes DEF Roles, Swaps, Loads, LoadHeld, Offered, Elsewhere, RoleKept
<1>5. Sole'
  BY SourceReadyDoes DEF Sole, Claims, Handing, Excused, Elsewhere, RoleKept, Loads, LoadHeld
<1>6. Reserved'
  BY SourceReadyDoes DEF Reserved, Claims, Excused, Offered, Elsewhere, RoleKept
<1>7. Fresh'
  BY SourceReadyDoes DEF Fresh, UpToDateIn, Excused, Elsewhere, RoleKept
<1> QED
  BY <1>1, <1>2, <1>3, <1>4, <1>5, <1>6, <1>7

\* A source that goes on shows the file alone, or the human was told.
LEMMA SourceFailsKeeps ==
  ASSUME IInv, NEW s \in Processes, SourceFails(s)
  PROVE  IInv'
<1> USE DEF IInv
<1>1. TypeOK'
  <2>1. acts' = acts /\ exits' = exits /\ Cuts(s) \subseteq Files
    BY Typed DEF SourceFails, Cuts
  <2> QED
    BY <2>1, SourceFailsDoes DEF TypeOK
<1>2. Roles'
  BY SourceFailsDoes DEF Roles, Offered, Elsewhere, SessionKept
<1>3. Swaps'
  BY SourceFailsDoes, TakeAssumption DEF Swaps, Cuts, Elsewhere, SessionKept, Connected
<1>4. Loads'
  BY SourceFailsDoes DEF Roles, Swaps, Loads, LoadHeld, Offered, Elsewhere, SessionKept
<1>5. Sole'
  BY SourceFailsDoes, TakeAssumption
  DEF Sole, Claims, Handing, Excused, Elsewhere, SessionKept, Roles, Loads, LoadHeld, Connected
<1>6. Reserved'
  BY SourceFailsDoes DEF Reserved, Claims, Excused, Offered, Elsewhere, SessionKept
<1>7. Fresh'
  BY SourceFailsDoes DEF Fresh, UpToDateIn, Excused, Elsewhere, SessionKept
<1> QED
  BY <1>1, <1>2, <1>3, <1>4, <1>5, <1>6, <1>7

\* The step keeps the invariant: it changes no claim and no view.
LEMMA LeavesKeeps ==
  ASSUME IInv, NEW s \in Processes, Leaves(s)
  PROVE  IInv'
<1> USE DEF IInv
<1>1. TypeOK'
  BY LeavesDoes DEF TypeOK, Leaves
<1>2. Roles'
  BY LeavesDoes DEF Roles, Offered, Elsewhere, RoleKept, FlagsKept
<1>3. Swaps'
  BY LeavesDoes DEF Swaps, Elsewhere, RoleKept, FlagsKept
<1>4. Loads'
  BY LeavesDoes DEF Roles, Swaps, Loads, LoadHeld, Offered, Elsewhere, RoleKept, FlagsKept
<1>5. Sole'
  BY LeavesDoes DEF Sole, Claims, Handing, Excused, Elsewhere, RoleKept, FlagsKept
<1>6. Reserved'
  BY LeavesDoes DEF Reserved, Claims, Excused, Offered, Elsewhere, RoleKept, FlagsKept
<1>7. Fresh'
  BY LeavesDoes DEF Fresh, UpToDateIn, Excused, Elsewhere, RoleKept, FlagsKept
<1> QED
  BY <1>1, <1>2, <1>3, <1>4, <1>5, <1>6, <1>7

\* A process that shows what it claimed claims no more than before; what it shows is fresh.
LEMMA TearsDownKeeps ==
  ASSUME IInv, NEW p \in Processes, TearsDown(p)
  PROVE  IInv'
<1> USE DEF IInv
<1>1. TypeOK'
  <2>1. acts' = acts /\ exits' = exits /\ warned' \subseteq Files
    BY Typed DEF TearsDown, TypeOK
  <2> QED
    BY <2>1, TearsDownDoes DEF TypeOK
<1>2. Roles'
  BY TearsDownDoes DEF Roles, Offered, Elsewhere, RoleKept, FlagsKept
<1>3. Swaps'
  <2>1. ASSUME NEW q \in Processes, swap'[q].kind = "load", pi'[q].up = "running"
        PROVE  LET s == swap'[q].from
               IN s \in Processes /\ load'[s].at = "swapping" /\ load'[s].to = q /\ load'[s].file = swap'[q].file
    <3>1. /\ swap[q].kind = "load" /\ pi[q].up = "running"
          /\ swap'[q].from = swap[q].from /\ swap'[q].file = swap[q].file
      BY <2>1, TearsDownDoes DEF Elsewhere
    <3> QED
      BY <3>1, TearsDownDoes DEF Swaps
  <2>2. ASSUME NEW q \in Processes
        PROVE  /\ pi'[q].replacing => swap'[q].kind = "load"
               /\ swap'[q].kind = "none" => swap'[q].at = "before"
               /\ swap'[q].at = "cancelled" => swap'[q].kind = "cwd"
               /\ swap'[q].kind = "switch" =>
                    call'[q].at = "preparing" /\ swap'[q].file \in warned' /\ pi'[q].file = swap'[q].file
               /\ swap'[q].kind = "cwd" => pi'[q].file = swap'[q].file
               /\ swap'[q].kind = "load" /\ swap'[q].at = "before" /\ ~pi'[q].replacing => swap'[q].file \in cut'
    BY TearsDownDoes DEF Swaps, Elsewhere, FlagsKept
  <2> QED
    BY <2>1, <2>2 DEF Swaps
<1>4. Loads'
  <2>1. ASSUME NEW q \in Processes, load'[q].at # "idle"
        PROVE  LoadHeld(q)'
    <3> DEFINE t == load[q].to
    <3>1. /\ load'[q].to = t /\ load'[q].file = load[q].file /\ load[q].at # "idle" /\ t \in Processes
          /\ pi'[t].up # "off"
      BY <2>1, TearsDownDoes DEF Loads, LoadHeld, Swaps, Elsewhere
    <3> HIDE DEF t
    <3>2. \/ load'[q].stale /\ load'[q].file \in warned'
          \/ ~load'[q].stale /\ pi'[q].file = load'[q].file /\ pi'[q].active = "source"
      BY <3>1, TearsDownDoes DEF Loads, LoadHeld, Roles, Elsewhere, RoleKept
    <3>3. pi'[q].up = "running" => call'[t].at = "serving" /\ call'[t].peer = q
      BY <3>1, TearsDownDoes DEF Loads, LoadHeld, Roles, Swaps, Elsewhere, t
    <3>4. load'[q].at = "swapping" /\ pi'[t].up = "running" => swap'[t].kind = "load" /\ swap'[t].from = q
      BY <3>1, TearsDownDoes DEF Loads, LoadHeld, Roles, Swaps, Elsewhere, t
    <3>5. load'[q].at = "ready" /\ pi'[q].up = "running" /\ pi'[t].up = "running" /\ pi'[t].active = "receiver" =>
            pi'[t].file = load'[q].file /\ (swap'[t].kind = "none" \/ swap'[t].at = "cancelled")
      BY <3>1, TearsDownDoes DEF Loads, LoadHeld, Roles, Swaps, Elsewhere, RoleKept, FlagsKept, t
    <3> QED
      BY <3>1, <3>2, <3>3, <3>4, <3>5 DEF LoadHeld
  <2> QED
    BY <2>1 DEF Loads
<1>5. Sole'
  <2>1. Excused \subseteq Excused' /\ cut' = cut /\ (load[p].at # "idle" => load[p].file \in Excused')
    BY TearsDownDoes DEF Excused
  <2>2. \A q \in Processes, f \in Files : Claims(q, f)' => Claims(q, f)
    BY TearsDownDoes DEF Claims, Elsewhere
  <2>3. ASSUME NEW a \in Processes, NEW b \in Processes, NEW f \in Files, f \notin Excused',
               Claims(a, f)', Claims(b, f)', Handing(a, b, f)
        PROVE  Handing(a, b, f)'
    <3>1. a # p
      BY <2>1, <2>3, TearsDownDoes DEF Handing
    <3>2. /\ load'[a].at = load[a].at /\ load'[a].to = load[a].to /\ load'[a].file = load[a].file
          /\ pi'[a] = pi[a] /\ pi[a].up = "running" /\ pi[b].up = "running"
      BY <2>3, <3>1, TearsDownDoes DEF Handing, Claims, Elsewhere
    <3>3. CASE b # p
      BY <2>3, <3>2, <3>3, TearsDownDoes DEF Handing, Elsewhere
    <3>4. CASE b = p
      <4>1. swap[p].kind = "load" /\ swap[p].from = a
        BY <2>3, <3>2, <3>4, TearsDownDoes DEF Handing, Loads, LoadHeld
      <4>2. pi[p].replacing
        BY <2>1, <2>3, <3>2, <3>4, <4>1, TearsDownDoes DEF Handing, Swaps, Excused
      <4>3. RoleKept(p)
        BY <4>1, <4>2, TearsDownDoes
      <4> QED
        BY <2>3, <3>2, <3>4, <4>3 DEF Handing, RoleKept
    <3> QED
      BY <3>3, <3>4
  <2> QED
    BY <2>1, <2>2, <2>3 DEF Sole
<1>6. Reserved'
  BY TearsDownDoes DEF Reserved, Claims, Excused, Offered, Elsewhere, RoleKept, FlagsKept
<1>7. Fresh'
  BY TearsDownDoes DEF Fresh, UpToDateIn, Excused, Elsewhere, RoleKept, FlagsKept
<1> QED
  BY <1>1, <1>2, <1>3, <1>4, <1>5, <1>6, <1>7

\* The step keeps the invariant: it changes no claim and no view.
LEMMA SessionStartsKeeps ==
  ASSUME IInv, NEW p \in Processes, NEW restores \in BOOLEAN, SessionStarts(p, restores)
  PROVE  IInv'
<1> USE DEF IInv
<1>1. TypeOK'
  BY SessionStartsDoes DEF TypeOK, SessionStarts
<1>2. Roles'
  BY SessionStartsDoes DEF Roles, Offered, Elsewhere, SessionKept, RoleKept, FlagsKept
<1>3. Swaps'
  BY SessionStartsDoes DEF Swaps, Elsewhere, SessionKept, RoleKept, FlagsKept
<1>4. Loads'
  BY SessionStartsDoes DEF Roles, Swaps, Loads, LoadHeld, Offered, Elsewhere, SessionKept, RoleKept, FlagsKept
<1>5. Sole'
  BY SessionStartsDoes DEF Sole, Claims, Handing, Excused, Elsewhere, SessionKept, RoleKept, FlagsKept
<1>6. Reserved'
  BY SessionStartsDoes DEF Reserved, Claims, Excused, Offered, Elsewhere, SessionKept, RoleKept, FlagsKept
<1>7. Fresh'
  BY SessionStartsDoes DEF Fresh, UpToDateIn, Excused, Elsewhere, SessionKept, RoleKept, FlagsKept
<1> QED
  BY <1>1, <1>2, <1>3, <1>4, <1>5, <1>6, <1>7

\* The step keeps the invariant: it changes no claim and no view.
LEMMA ReplacedKeeps ==
  ASSUME IInv, NEW p \in Processes, Replaced(p)
  PROVE  IInv'
<1> USE DEF IInv
<1>1. TypeOK'
  BY ReplacedDoes DEF TypeOK, Replaced
<1>2. Roles'
  BY ReplacedDoes DEF Roles, Offered, Elsewhere
<1>3. Swaps'
  BY ReplacedDoes DEF Swaps, Elsewhere
<1>4. Loads'
  BY ReplacedDoes DEF Roles, Swaps, Loads, LoadHeld, Offered, Elsewhere
<1>5. Sole'
  BY ReplacedDoes DEF Sole, Claims, Handing, Excused, Elsewhere
<1>6. Reserved'
  BY ReplacedDoes DEF Reserved, Claims, Excused, Offered, Elsewhere
<1>7. Fresh'
  BY ReplacedDoes DEF Fresh, UpToDateIn, Excused, Elsewhere
<1> QED
  BY <1>1, <1>2, <1>3, <1>4, <1>5, <1>6, <1>7

\* The file is set back to what it holds, unless it is excused.
LEMMA CwdCancelledKeeps ==
  ASSUME IInv, NEW p \in Processes, CwdCancelled(p)
  PROVE  IInv'
<1> USE DEF IInv
<1>1. TypeOK'
  BY CwdCancelledDoes DEF TypeOK, CwdCancelled
<1>2. Roles'
  BY CwdCancelledDoes DEF Roles, Offered, Elsewhere
<1>3. Swaps'
  BY CwdCancelledDoes DEF Swaps, Elsewhere
<1>4. Loads'
  BY CwdCancelledDoes DEF Roles, Swaps, Loads, LoadHeld, Offered, Elsewhere
<1>5. Sole'
  BY CwdCancelledDoes DEF Sole, Claims, Handing, Excused, Elsewhere
<1>6. Reserved'
  BY CwdCancelledDoes DEF Reserved, Claims, Excused, Offered, Elsewhere
<1>7. Fresh'
  <2>1. pi' = pi /\ Excused' = Excused /\ pi[p].file \in Files /\ pi[p].up = "running"
    BY CwdCancelledDoes, Typed DEF Excused
  <2>2. pi[p].file \notin Excused => disk'[pi[p].file].entries = disk[pi[p].file].entries
    BY <2>1, CwdCancelledDoes DEF Fresh, UpToDateIn, Swaps
  <2>3. \A f \in Files : f # pi[p].file => disk'[f] = disk[f]
    BY CwdCancelledDoes DEF Elsewhere, Swaps, Files
  <2>4. ASSUME NEW q \in Processes, pi'[q].up = "running", pi'[q].file \notin Excused'
        PROVE  UpToDateIn(q)'
    <3>1. pi[q].file \in Files /\ disk'[pi[q].file].entries = disk[pi[q].file].entries
      BY <2>1, <2>2, <2>3, <2>4, Typed
    <3>2. swap'[q].at = "cancelled" => swap'[q].saved.entries = disk[pi[q].file].entries
      BY <2>1, <2>4, CwdCancelledDoes DEF Fresh, UpToDateIn, Elsewhere
    <3> QED
      BY <2>1, <2>4, <3>1, <3>2 DEF Fresh, UpToDateIn
  <2> QED
    BY <2>4 DEF Fresh
<1> QED
  BY <1>1, <1>2, <1>3, <1>4, <1>5, <1>6, <1>7

\* The file that is appended to is one the human was told of.
LEMMA SwitchReloadsKeeps ==
  ASSUME IInv, NEW p \in Processes, NEW cancelled \in BOOLEAN, SwitchReloads(p, cancelled)
  PROVE  IInv'
<1> USE DEF IInv
<1>1. TypeOK'
  <2>1. acts' = acts /\ exits' = exits
    BY DEF SwitchReloads
  <2> QED
    BY <2>1, SwitchReloadsDoes, Typed, AppendDoes DEF TypeOK
<1>2. Roles'
  BY SwitchReloadsDoes DEF Roles, Offered, Elsewhere, RoleKept
<1>3. Swaps'
  BY SwitchReloadsDoes DEF Swaps, Elsewhere, RoleKept
<1>4. Loads'
  BY SwitchReloadsDoes DEF Roles, Swaps, Loads, LoadHeld, Offered, Elsewhere, RoleKept
<1>5. Sole'
  BY SwitchReloadsDoes DEF Sole, Claims, Handing, Excused, Elsewhere, RoleKept
<1>6. Reserved'
  BY SwitchReloadsDoes DEF Reserved, Claims, Excused, Offered, Elsewhere, RoleKept
<1>7. Fresh'
  <2>1. /\ pi[p].file \in Files /\ pi[p].file \in Excused' /\ Excused \subseteq Excused' /\ pi'[p].file = pi[p].file
        /\ swap'[p].at = "cancelled" => swap[p].at = "cancelled"
    BY SwitchReloadsDoes, Typed DEF Excused
  <2>2. Elsewhere(disk', disk, pi[p].file)
    BY <2>1, SwitchReloadsDoes, AppendDoes
  <2>3. ASSUME NEW q \in Processes, pi'[q].up = "running", pi'[q].file \notin Excused'
        PROVE  UpToDateIn(q)'
    <3>1. q # p
      BY <2>1, <2>3
    <3>2. pi'[q] = pi[q] /\ swap'[q] = swap[q] /\ pi[q].file \in Files
      BY <3>1, SwitchReloadsDoes, Typed DEF Elsewhere, Files
    <3>3. disk'[pi[q].file] = disk[pi[q].file]
      BY <2>1, <2>2, <2>3, <3>2 DEF Elsewhere, Files
    <3> QED
      BY <2>1, <2>3, <3>2, <3>3 DEF Fresh, UpToDateIn
  <2> QED
    BY <2>3 DEF Fresh
<1> QED
  BY <1>1, <1>2, <1>3, <1>4, <1>5, <1>6, <1>7

\* The step keeps the invariant: it changes no claim and no view.
LEMMA SwitchFailsKeeps ==
  ASSUME IInv, NEW p \in Processes, SwitchFails(p)
  PROVE  IInv'
<1> USE DEF IInv
<1>1. TypeOK'
  BY SwitchFailsDoes DEF TypeOK, SwitchFails
<1>2. Roles'
  BY SwitchFailsDoes DEF Roles, Offered, Elsewhere, SessionKept, RoleKept
<1>3. Swaps'
  BY SwitchFailsDoes DEF Swaps, Elsewhere, SessionKept, RoleKept
<1>4. Loads'
  BY SwitchFailsDoes DEF Roles, Swaps, Loads, LoadHeld, Offered, Elsewhere, SessionKept, RoleKept
<1>5. Sole'
  BY SwitchFailsDoes DEF Sole, Claims, Handing, Excused, Elsewhere, SessionKept, RoleKept
<1>6. Reserved'
  BY SwitchFailsDoes DEF Reserved, Claims, Excused, Offered, Elsewhere, SessionKept, RoleKept
<1>7. Fresh'
  BY SwitchFailsDoes DEF Fresh, UpToDateIn, Excused, Elsewhere, SessionKept, RoleKept
<1> QED
  BY <1>1, <1>2, <1>3, <1>4, <1>5, <1>6, <1>7

\* The process that is opened shows a file the human was told of.
LEMMA OpensKeeps ==
  ASSUME IInv, NEW p \in Processes, NEW d \in Processes \cup {None}, Opens(p, d)
  PROVE  IInv'
<1> USE DEF IInv
<1>1. TypeOK'
  BY OpensDoes DEF TypeOK, Opens
<1>2. Roles'
  BY OpensDoes DEF Roles, Offered, Elsewhere, SessionKept, RoleKept, FlagsKept, Swaps
<1>3. Swaps'
  BY OpensDoes DEF Swaps, Elsewhere, SessionKept, RoleKept, FlagsKept, Roles
<1>4. Loads'
  <2>1. ASSUME NEW q \in Processes, load'[q].at # "idle"
        PROVE  LoadHeld(q)'
    <3> DEFINE t == load[q].to
    <3>1. /\ load'[q].to = t /\ load'[q].file = load[q].file /\ load[q].at # "idle" /\ t \in Processes
          /\ pi'[t].up # "off"
      BY <2>1, OpensDoes DEF Loads, LoadHeld, Swaps, Elsewhere, SessionKept
    <3> HIDE DEF t
    <3>2. \/ load'[q].stale /\ load'[q].file \in warned'
          \/ ~load'[q].stale /\ pi'[q].file = load'[q].file /\ pi'[q].active = "source"
      BY <3>1, OpensDoes DEF Loads, LoadHeld, Roles, Elsewhere, SessionKept, RoleKept
    <3>3. pi'[q].up = "running" => call'[t].at = "serving" /\ call'[t].peer = q
      BY <3>1, OpensDoes DEF Loads, LoadHeld, Roles, Swaps, Elsewhere, SessionKept, t
    <3>4. load'[q].at = "swapping" /\ pi'[t].up = "running" => swap'[t].kind = "load" /\ swap'[t].from = q
      BY <3>1, OpensDoes DEF Loads, LoadHeld, Roles, Swaps, Elsewhere, SessionKept, t
    <3>5. load'[q].at = "ready" /\ pi'[q].up = "running" /\ pi'[t].up = "running" /\ pi'[t].active = "receiver" =>
            pi'[t].file = load'[q].file /\ (swap'[t].kind = "none" \/ swap'[t].at = "cancelled")
      BY <3>1, OpensDoes DEF Loads, LoadHeld, Roles, Swaps, Elsewhere, SessionKept, RoleKept, FlagsKept, t
    <3> QED
      BY <3>1, <3>2, <3>3, <3>4, <3>5 DEF LoadHeld
  <2> QED
    BY <2>1 DEF Loads
<1>5. Sole'
  BY OpensDoes DEF Sole, Claims, Handing, Excused, Elsewhere, SessionKept, RoleKept, FlagsKept, Swaps, Roles
<1>6. Reserved'
  BY OpensDoes DEF Reserved, Claims, Excused, Offered, Elsewhere, SessionKept, RoleKept, FlagsKept, Swaps, Roles
<1>7. Fresh'
  BY OpensDoes DEF Fresh, UpToDateIn, Excused, Elsewhere, SessionKept, RoleKept, FlagsKept, Swaps, Roles
<1> QED
  BY <1>1, <1>2, <1>3, <1>4, <1>5, <1>6, <1>7

\* The step keeps the invariant: it changes no claim and no view.
LEMMA TurnEndsKeeps ==
  ASSUME IInv, NEW p \in Processes, TurnEnds(p)
  PROVE  IInv'
<1> USE DEF IInv
<1>1. TypeOK'
  BY TurnEndsDoes DEF TypeOK, TurnEnds
<1>2. Roles'
  BY TurnEndsDoes DEF Roles, Offered, Elsewhere, RoleKept, FlagsKept
<1>3. Swaps'
  BY TurnEndsDoes DEF Swaps, Elsewhere, RoleKept, FlagsKept
<1>4. Loads'
  BY TurnEndsDoes DEF Roles, Swaps, Loads, LoadHeld, Offered, Elsewhere, RoleKept, FlagsKept
<1>5. Sole'
  BY TurnEndsDoes DEF Sole, Claims, Handing, Excused, Elsewhere, RoleKept, FlagsKept
<1>6. Reserved'
  BY TurnEndsDoes DEF Reserved, Claims, Excused, Offered, Elsewhere, RoleKept, FlagsKept
<1>7. Fresh'
  BY TurnEndsDoes DEF Fresh, UpToDateIn, Excused, Elsewhere, RoleKept, FlagsKept
<1> QED
  BY <1>1, <1>2, <1>3, <1>4, <1>5, <1>6, <1>7

\* The source claims its file alone, so the file can be offered.
LEMMA ServeTakeKeeps ==
  ASSUME IInv, NEW s \in Processes, NEW r \in Processes, ServeTake(s, r)
  PROVE  IInv'
<1> USE DEF IInv
<1>1. TypeOK'
  <2>1. acts' = acts /\ exits' = exits
    BY DEF ServeTake
  <2> QED
    BY <2>1, ServeTakeDoes, Typed, AppendDoes DEF TypeOK
<1>2. Roles'
  BY ServeTakeDoes DEF Roles, Offered, Elsewhere
<1>3. Swaps'
  BY ServeTakeDoes DEF Swaps, Elsewhere, Roles
<1>4. Loads'
  <2> SUFFICES ASSUME NEW q \in Processes, load'[q].at # "idle" PROVE LoadHeld(q)'
    BY DEF Loads
  <2>1. CASE q = s
    BY <2>1, ServeTakeDoes, Typed DEF LoadHeld, Roles, Offered, Elsewhere
  <2>2. CASE q # s
    <3>1. load'[q] = load[q] /\ pi'[q] = pi[q] /\ load[q].at # "idle" /\ LoadHeld(q)
      BY <2>2, ServeTakeDoes DEF Loads, Elsewhere
    <3> QED
      BY <3>1, ServeTakeDoes DEF LoadHeld, Roles, Swaps, Offered, Elsewhere
  <2> QED
    BY <2>1, <2>2
<1>5. Sole'
  BY ServeTakeDoes DEF Sole, Claims, Handing, Excused, Elsewhere
<1>6. Reserved'
  <2> DEFINE f == pi[s].file
  <2>1. /\ f \in Files /\ Excused' = Excused /\ Claims(s, f) /\ pi[s].active = "none" /\ pi[s].up = "running"
        /\ \A q \in Processes, g \in Files : Claims(q, g)' = Claims(q, g)
    BY ServeTakeDoes, Typed DEF Claims, Excused, Elsewhere
  <2>2. f \notin Excused => \A q \in Processes \ {s} : ~Claims(q, f)
    BY <2>1, Alone
  <2>3. f \notin Excused => \A q \in Processes \ {s} : load[q].at \in Offered => load[q].file # f
    BY <2>1 DEF Reserved
  <2>4. /\ load'[s].file = f /\ Elsewhere(load', load, s)
        /\ \A q \in Processes : load[q].file \in Files
    BY ServeTakeDoes, Typed
  <2> HIDE DEF f
  <2>5. ASSUME NEW a \in Processes, NEW g \in Files, load'[a].at \in Offered, load'[a].file = g, g \notin Excused',
               NEW q \in Processes \ {a}
        PROVE  ~Claims(q, g)' /\ (load'[q].at \in Offered => load'[q].file # g)
    <3>1. CASE a = s
      BY <2>1, <2>2, <2>3, <2>4, <2>5, <3>1 DEF Elsewhere
    <3>2. CASE a # s
      <4>1. load'[a] = load[a]
        BY <2>4, <3>2 DEF Elsewhere
      <4>2. ~Claims(q, g) /\ (load[q].at \in Offered => load[q].file # g)
        BY <2>1, <2>5, <4>1 DEF Reserved
      <4>3. CASE q = s
        BY <2>1, <2>4, <4>1, <4>2, <4>3
      <4>4. CASE q # s
        BY <2>1, <2>4, <4>1, <4>2, <4>4 DEF Elsewhere
      <4> QED
        BY <4>3, <4>4
    <3> QED
      BY <3>1, <3>2
  <2>6. \A a \in Processes : load'[a].file \in Files
    BY <2>1, <2>4 DEF Elsewhere
  <2> QED
    BY <2>5, <2>6 DEF Reserved
<1>7. Fresh'
  <2>1. ASSUME NEW q \in Processes, pi'[q].up = "running", pi'[q].file \notin Excused'
        PROVE  UpToDateIn(q)'
    <3>1. Excused' = Excused /\ swap' = swap /\ pi[s].file \in Files
      BY ServeTakeDoes, Typed DEF Excused
    <3>2. /\ disk'[pi[s].file].entries = disk[pi[s].file].entries \cup {NewEntry}
          /\ Elsewhere(disk', disk, pi[s].file)
      BY <3>1, ServeTakeDoes, AppendDoes
    <3>3. CASE q = s
      <4>1. pi[s].up = "running" /\ pi[s].file \notin Excused /\ swap[s].at # "cancelled" /\ pi'[s].file = pi[s].file
        BY <2>1, <3>1, <3>3, ServeTakeDoes
      <4>2. pi'[s].view = disk[pi[s].file].entries \cup {NewEntry}
        BY <4>1, ServeTakeDoes DEF Fresh, UpToDateIn
      <4> QED
        BY <3>1, <3>2, <3>3, <4>1, <4>2 DEF UpToDateIn
    <3>4. CASE q # s
      <4>1. pi'[q] = pi[q] /\ pi[q].file \in Files
        BY <3>4, ServeTakeDoes, Typed DEF Elsewhere, Files
      <4>2. pi[q].file # pi[s].file
        BY <2>1, <3>1, <3>4, <4>1, Alone, ServeTakeDoes DEF Claims
      <4>3. disk'[pi[q].file] = disk[pi[q].file]
        BY <3>2, <4>1, <4>2 DEF Elsewhere, Files
      <4> QED
        BY <2>1, <3>1, <4>1, <4>3 DEF Fresh, UpToDateIn
    <3> QED
      BY <3>3, <3>4
  <2> QED
    BY <2>1 DEF Fresh
<1> QED
  BY <1>1, <1>2, <1>3, <1>4, <1>5, <1>6, <1>7

\* The step keeps the invariant: it changes no claim and no view.
LEMMA RefuseTakeKeeps ==
  ASSUME IInv, NEW s \in Processes, NEW r \in Processes, RefuseTake(s, r)
  PROVE  IInv'
<1> USE DEF IInv
<1>1. TypeOK'
  <2>1. acts' = acts /\ exits' = exits /\ Cuts(s) \subseteq Files
    BY Typed DEF RefuseTake, Cuts
  <2> QED
    BY <2>1, RefuseTakeDoes DEF TypeOK
<1>2. Roles'
  BY RefuseTakeDoes DEF Roles, Offered, Elsewhere, SessionKept, RoleKept
<1>3. Swaps'
  BY RefuseTakeDoes DEF Swaps, Cuts, Elsewhere, SessionKept, RoleKept
<1>4. Loads'
  BY RefuseTakeDoes DEF Roles, Swaps, Loads, LoadHeld, Offered, Elsewhere, SessionKept, RoleKept
<1>5. Sole'
  BY RefuseTakeDoes DEF Sole, Claims, Handing, Excused, Elsewhere, SessionKept, RoleKept
<1>6. Reserved'
  BY RefuseTakeDoes DEF Reserved, Claims, Excused, Offered, Elsewhere, SessionKept, RoleKept
<1>7. Fresh'
  BY RefuseTakeDoes DEF Fresh, UpToDateIn, Excused, Elsewhere, SessionKept, RoleKept
<1> QED
  BY <1>1, <1>2, <1>3, <1>4, <1>5, <1>6, <1>7

\* The receiver comes to claim a file that was offered, and nobody but the source does.
LEMMA LoadBeginsKeeps ==
  ASSUME IInv, NEW r \in Processes, NEW s \in Processes, LoadBegins(r, s)
  PROVE  IInv'
<1> USE DEF IInv
<1>1. TypeOK'
  BY LoadBeginsDoes DEF TypeOK, LoadBegins
<1>2. Roles'
  BY LoadBeginsDoes DEF Roles, Offered, Elsewhere, SessionKept, RoleKept
<1>3. Swaps'
  BY LoadBeginsDoes DEF Swaps, Elsewhere, SessionKept, RoleKept
<1>4. Loads'
  BY LoadBeginsDoes DEF Roles, Swaps, Loads, LoadHeld, Offered, Elsewhere, SessionKept, RoleKept
<1>5. Sole'
  BY LoadBeginsDoes
  DEF Sole, Claims, Handing, Excused, Elsewhere, SessionKept, RoleKept, Reserved, Loads, LoadHeld, Offered
<1>6. Reserved'
  BY LoadBeginsDoes DEF Reserved, Claims, Excused, Offered, Elsewhere, SessionKept, RoleKept
<1>7. Fresh'
  BY LoadBeginsDoes DEF Fresh, UpToDateIn, Excused, Elsewhere, SessionKept, RoleKept
<1> QED
  BY <1>1, <1>2, <1>3, <1>4, <1>5, <1>6, <1>7

\* The step keeps the invariant: it changes no claim and no view.
LEMMA LoadRefusedKeeps ==
  ASSUME IInv, NEW r \in Processes, NEW s \in Processes, LoadRefused(r, s)
  PROVE  IInv'
<1> USE DEF IInv
<1>1. TypeOK'
  <2>1. acts' = acts /\ exits' = exits /\ Cuts(r) \subseteq Files
    BY Typed DEF LoadRefused, Cuts
  <2> QED
    BY <2>1, LoadRefusedDoes DEF TypeOK
<1>2. Roles'
  BY LoadRefusedDoes DEF Roles, Offered, Elsewhere, SessionKept, RoleKept
<1>3. Swaps'
  BY LoadRefusedDoes DEF Swaps, Cuts, Elsewhere, SessionKept, RoleKept
<1>4. Loads'
  BY LoadRefusedDoes DEF Roles, Swaps, Loads, LoadHeld, Offered, Elsewhere, SessionKept, RoleKept
<1>5. Sole'
  BY LoadRefusedDoes DEF Sole, Claims, Handing, Excused, Elsewhere, SessionKept, RoleKept
<1>6. Reserved'
  BY LoadRefusedDoes DEF Reserved, Claims, Excused, Offered, Elsewhere, SessionKept, RoleKept
<1>7. Fresh'
  BY LoadRefusedDoes DEF Fresh, UpToDateIn, Excused, Elsewhere, SessionKept, RoleKept
<1> QED
  BY <1>1, <1>2, <1>3, <1>4, <1>5, <1>6, <1>7

\* A receiver that is ready shows the file that was loaded; otherwise the human is told.
LEMMA LoadedKeeps ==
  ASSUME IInv, NEW r \in Processes, NEW s \in Processes, NEW ready \in BOOLEAN, Loaded(r, s, ready)
  PROVE  IInv'
<1> USE DEF IInv
<1>1. TypeOK'
  BY LoadedDoes DEF TypeOK, Loaded
<1>2. Roles'
  BY LoadedDoes DEF Roles, Offered, Elsewhere, SessionKept, RoleKept, Swaps
<1>3. Swaps'
  BY LoadedDoes DEF Swaps, Elsewhere, SessionKept, RoleKept
<1>4. Loads'
  <2>1. ASSUME NEW q \in Processes, load'[q].at # "idle"
        PROVE  LoadHeld(q)'
    <3> DEFINE t == load[q].to
    <3>1. /\ load'[q].to = t /\ load'[q].file = load[q].file /\ load[q].at # "idle" /\ t \in Processes
          /\ pi'[t].up # "off"
      BY <2>1, LoadedDoes DEF Loads, LoadHeld, Swaps, Elsewhere, SessionKept
    <3> HIDE DEF t
    <3>2. \/ load'[q].stale /\ load'[q].file \in warned'
          \/ ~load'[q].stale /\ pi'[q].file = load'[q].file /\ pi'[q].active = "source"
      BY <3>1, LoadedDoes DEF Loads, LoadHeld, Roles, Elsewhere, SessionKept, RoleKept
    <3>3. pi'[q].up = "running" => call'[t].at = "serving" /\ call'[t].peer = q
      BY <3>1, LoadedDoes DEF Loads, LoadHeld, Roles, Swaps, Elsewhere, SessionKept, t
    <3>4. load'[q].at = "swapping" /\ pi'[t].up = "running" => swap'[t].kind = "load" /\ swap'[t].from = q
      BY <3>1, LoadedDoes DEF Loads, LoadHeld, Roles, Swaps, Elsewhere, SessionKept, t
    <3>5. load'[q].at = "ready" /\ pi'[q].up = "running" /\ pi'[t].up = "running" /\ pi'[t].active = "receiver" =>
            pi'[t].file = load'[q].file /\ (swap'[t].kind = "none" \/ swap'[t].at = "cancelled")
      BY <3>1, LoadedDoes DEF Loads, LoadHeld, Roles, Swaps, Elsewhere, SessionKept, RoleKept, t
    <3> QED
      BY <3>1, <3>2, <3>3, <3>4, <3>5 DEF LoadHeld
  <2> QED
    BY <2>1 DEF Loads
<1>5. Sole'
  BY LoadedDoes DEF Sole, Claims, Handing, Excused, Elsewhere, SessionKept, RoleKept
<1>6. Reserved'
  BY LoadedDoes DEF Reserved, Claims, Excused, Offered, Elsewhere, SessionKept, RoleKept
<1>7. Fresh'
  BY LoadedDoes DEF Fresh, UpToDateIn, Excused, Elsewhere, SessionKept, RoleKept
<1> QED
  BY <1>1, <1>2, <1>3, <1>4, <1>5, <1>6, <1>7

\* The step keeps the invariant: it changes no claim and no view.
LEMMA TakeKeeps ==
  ASSUME IInv, NEW p \in Processes, Take(p)
  PROVE  IInv'
<1> USE DEF IInv
<1>1. TypeOK'
  <2>1. acts' \in 0..MaxActs /\ exits' \in 0..MaxExits
    BY TakeAssumption DEF TypeOK, Take, Act
  <2> QED
    BY <2>1, TakeDoes DEF TypeOK
<1>2. Roles'
  BY TakeDoes DEF Roles, Offered, Elsewhere, SessionKept, RoleKept
<1>3. Swaps'
  BY TakeDoes DEF Swaps, Elsewhere, SessionKept, RoleKept
<1>4. Loads'
  BY TakeDoes DEF Roles, Swaps, Loads, LoadHeld, Offered, Elsewhere, SessionKept, RoleKept
<1>5. Sole'
  BY TakeDoes DEF Sole, Claims, Handing, Excused, Elsewhere, SessionKept, RoleKept
<1>6. Reserved'
  BY TakeDoes DEF Reserved, Claims, Excused, Offered, Elsewhere, SessionKept, RoleKept
<1>7. Fresh'
  BY TakeDoes DEF Fresh, UpToDateIn, Excused, Elsewhere, SessionKept, RoleKept
<1> QED
  BY <1>1, <1>2, <1>3, <1>4, <1>5, <1>6, <1>7

\* The step keeps the invariant: it changes no claim and no view.
LEMMA ListKeeps ==
  ASSUME IInv, NEW p \in Processes, NEW s \in Processes, List(p, s)
  PROVE  IInv'
<1> USE DEF IInv
<1>1. TypeOK'
  BY ListDoes DEF TypeOK, List
<1>2. Roles'
  BY ListDoes DEF Roles, Offered, Elsewhere
<1>3. Swaps'
  BY ListDoes DEF Swaps, Elsewhere
<1>4. Loads'
  BY ListDoes DEF Roles, Swaps, Loads, LoadHeld, Offered, Elsewhere
<1>5. Sole'
  BY ListDoes DEF Sole, Claims, Handing, Excused, Elsewhere
<1>6. Reserved'
  BY ListDoes DEF Reserved, Claims, Excused, Offered, Elsewhere
<1>7. Fresh'
  BY ListDoes DEF Fresh, UpToDateIn, Excused, Elsewhere
<1> QED
  BY <1>1, <1>2, <1>3, <1>4, <1>5, <1>6, <1>7

\* The step keeps the invariant: it changes no claim and no view.
LEMMA ChooseKeeps ==
  ASSUME IInv, NEW p \in Processes, Choose(p)
  PROVE  IInv'
<1> USE DEF IInv
<1>1. TypeOK'
  BY ChooseDoes DEF TypeOK, Choose
<1>2. Roles'
  BY ChooseDoes DEF Roles, Offered, Elsewhere, SessionKept, FlagsKept
<1>3. Swaps'
  BY ChooseDoes DEF Swaps, Elsewhere, SessionKept, FlagsKept
<1>4. Loads'
  BY ChooseDoes DEF Roles, Swaps, Loads, LoadHeld, Offered, Elsewhere, SessionKept, FlagsKept
<1>5. Sole'
  BY ChooseDoes DEF Sole, Claims, Handing, Excused, Elsewhere, SessionKept, FlagsKept, Roles
<1>6. Reserved'
  BY ChooseDoes DEF Reserved, Claims, Excused, Offered, Elsewhere, SessionKept, FlagsKept
<1>7. Fresh'
  BY ChooseDoes DEF Fresh, UpToDateIn, Excused, Elsewhere, SessionKept, FlagsKept
<1> QED
  BY <1>1, <1>2, <1>3, <1>4, <1>5, <1>6, <1>7

\* The step keeps the invariant: it changes no claim and no view.
LEMMA SwitchKeeps ==
  ASSUME IInv, NEW p \in Processes, Switch(p)
  PROVE  IInv'
<1> USE DEF IInv
<1>1. TypeOK'
  <2>1. acts' \in 0..MaxActs /\ exits' \in 0..MaxExits
    BY TakeAssumption DEF TypeOK, Switch, Act
  <2> QED
    BY <2>1, SwitchDoes DEF TypeOK
<1>2. Roles'
  BY SwitchDoes DEF Roles, Offered, Elsewhere, SessionKept, RoleKept
<1>3. Swaps'
  BY SwitchDoes DEF Swaps, Elsewhere, SessionKept, RoleKept
<1>4. Loads'
  BY SwitchDoes DEF Roles, Swaps, Loads, LoadHeld, Offered, Elsewhere, SessionKept, RoleKept
<1>5. Sole'
  BY SwitchDoes DEF Sole, Claims, Handing, Excused, Elsewhere, SessionKept, RoleKept
<1>6. Reserved'
  BY SwitchDoes DEF Reserved, Claims, Excused, Offered, Elsewhere, SessionKept, RoleKept
<1>7. Fresh'
  BY SwitchDoes DEF Fresh, UpToDateIn, Excused, Elsewhere, SessionKept, RoleKept
<1> QED
  BY <1>1, <1>2, <1>3, <1>4, <1>5, <1>6, <1>7

\* The file is rewritten with what it holds, unless it is excused.
LEMMA CwdKeeps ==
  ASSUME IInv, NEW p \in Processes, NEW cancelled \in BOOLEAN, Cwd(p, cancelled)
  PROVE  IInv'
<1> USE DEF IInv
<1>1. TypeOK'
  <2>1. acts' \in 0..MaxActs /\ exits' \in 0..MaxExits
    BY TakeAssumption DEF TypeOK, Cwd, Act
  <2> QED
    BY <2>1, CwdDoes DEF TypeOK
<1>2. Roles'
  BY CwdDoes DEF Roles, Offered, Elsewhere
<1>3. Swaps'
  BY CwdDoes DEF Swaps, Elsewhere
<1>4. Loads'
  <2>1. ASSUME NEW s \in Processes, load'[s].at # "idle"
        PROVE  LoadHeld(s)'
    BY <2>1, CwdDoes DEF Roles, Swaps, Loads, LoadHeld, Elsewhere, MaySwitch
  <2> QED
    BY <2>1 DEF Loads
<1>5. Sole'
  BY CwdDoes DEF Sole, Claims, Handing, Excused, Elsewhere
<1>6. Reserved'
  BY CwdDoes DEF Reserved, Claims, Excused, Offered, Elsewhere
<1>7. Fresh'
  <2>1. pi' = pi /\ Excused' = Excused /\ pi[p].file \in Files /\ pi[p].up = "running"
    BY CwdDoes, Typed DEF Excused
  <2>2. pi[p].file \notin Excused => disk'[pi[p].file].entries = disk[pi[p].file].entries
    BY <2>1, CwdDoes DEF Fresh, UpToDateIn, Swaps
  <2>3. \A f \in Files : f # pi[p].file => disk'[f] = disk[f]
    BY CwdDoes DEF Elsewhere, Swaps, Files
  <2>4. ASSUME NEW q \in Processes, pi'[q].up = "running", pi'[q].file \notin Excused'
        PROVE  UpToDateIn(q)'
    <3>1. pi[q].file \in Files /\ disk'[pi[q].file].entries = disk[pi[q].file].entries
      BY <2>1, <2>2, <2>3, <2>4, Typed
    <3>2. swap'[q].at = "cancelled" => swap'[q].saved.entries = disk[pi[q].file].entries
      BY <2>1, <2>4, CwdDoes DEF Fresh, UpToDateIn, Elsewhere
    <3> QED
      BY <2>1, <2>4, <3>1, <3>2 DEF Fresh, UpToDateIn
  <2> QED
    BY <2>4 DEF Fresh
<1> QED
  BY <1>1, <1>2, <1>3, <1>4, <1>5, <1>6, <1>7

\* The process comes to claim its own file, or one that nobody else claims.
LEMMA ResumeKeeps ==
  ASSUME IInv, NEW p \in Processes, NEW f \in Files, Resume(p, f)
  PROVE  IInv'
<1> USE DEF IInv
<1>1. TypeOK'
  <2>1. acts' \in 0..MaxActs /\ exits' \in 0..MaxExits
    BY TakeAssumption DEF TypeOK, Resume, Act
  <2> QED
    BY <2>1, ResumeDoes DEF TypeOK
<1>2. Roles'
  BY ResumeDoes DEF Roles, Offered, Elsewhere
<1>3. Swaps'
  BY ResumeDoes DEF Swaps, Elsewhere
<1>4. Loads'
  BY ResumeDoes DEF Roles, Swaps, Loads, LoadHeld, Offered, Elsewhere, MaySwitch
<1>5. Sole'
  BY ResumeDoes DEF Sole, Claims, Handing, Excused, Elsewhere
<1>6. Reserved'
  BY ResumeDoes DEF Reserved, Claims, Excused, Offered, Elsewhere, Loads, LoadHeld
<1>7. Fresh'
  BY ResumeDoes DEF Fresh, UpToDateIn, Excused, Elsewhere
<1> QED
  BY <1>1, <1>2, <1>3, <1>4, <1>5, <1>6, <1>7

\* The process shows its file alone, so no other view becomes stale.
LEMMA MessageKeeps ==
  ASSUME IInv, NEW p \in Processes, Message(p)
  PROVE  IInv'
<1> USE DEF IInv
<1>1. TypeOK'
  <2>1. acts' \in 0..MaxActs /\ exits' \in 0..MaxExits
    BY TakeAssumption DEF TypeOK, Message
  <2> QED
    BY <2>1, MessageDoes, Typed, AppendDoes DEF TypeOK
<1>2. Roles'
  BY MessageDoes DEF Roles, Offered, Elsewhere, RoleKept, FlagsKept
<1>3. Swaps'
  BY MessageDoes DEF Swaps, Elsewhere, RoleKept, FlagsKept
<1>4. Loads'
  BY MessageDoes DEF Roles, Swaps, Loads, LoadHeld, Offered, Elsewhere, RoleKept, FlagsKept
<1>5. Sole'
  BY MessageDoes DEF Sole, Claims, Handing, Excused, Elsewhere, RoleKept, FlagsKept
<1>6. Reserved'
  BY MessageDoes DEF Reserved, Claims, Excused, Offered, Elsewhere, RoleKept, FlagsKept
<1>7. Fresh'
  <2>1. ASSUME NEW q \in Processes, pi'[q].up = "running", pi'[q].file \notin Excused'
        PROVE  UpToDateIn(q)'
    <3>1. Excused' = Excused /\ swap' = swap /\ pi[p].file \in Files
      BY MessageDoes, Typed DEF Excused
    <3>2. /\ disk'[pi[p].file].entries = disk[pi[p].file].entries \cup {NewEntry}
          /\ Elsewhere(disk', disk, pi[p].file)
      BY <3>1, MessageDoes, AppendDoes
    <3>3. CASE q = p
      BY <2>1, <3>1, <3>2, <3>3, MessageDoes DEF Fresh, UpToDateIn
    <3>4. CASE q # p
      <4>1. pi'[q] = pi[q] /\ pi[q].file \in Files
        BY <3>4, MessageDoes, Typed DEF Elsewhere, Files
      <4>2. pi[q].file # pi[p].file
        BY <2>1, <3>1, <3>4, <4>1, Alone, MessageDoes DEF Claims
      <4>3. disk'[pi[q].file] = disk[pi[q].file]
        BY <3>2, <4>1, <4>2 DEF Elsewhere, Files
      <4> QED
        BY <2>1, <3>1, <4>1, <4>3 DEF Fresh, UpToDateIn
    <3> QED
      BY <3>3, <3>4
  <2> QED
    BY <2>1 DEF Fresh
<1> QED
  BY <1>1, <1>2, <1>3, <1>4, <1>5, <1>6, <1>7

\* A process that is gone claims nothing.
LEMMA ExitsKeeps ==
  ASSUME IInv, NEW p \in Processes, Exits(p)
  PROVE  IInv'
<1> USE DEF IInv
<1>1. TypeOK'
  <2>1. acts' \in 0..MaxActs /\ exits' \in 0..MaxExits
    BY TakeAssumption DEF TypeOK, Exits
  <2> QED
    BY <2>1, ExitsDoes DEF TypeOK
<1>2. Roles'
  BY ExitsDoes DEF Roles, Offered, Elsewhere, RoleKept, FlagsKept
<1>3. Swaps'
  BY ExitsDoes DEF Swaps, Elsewhere, RoleKept, FlagsKept
<1>4. Loads'
  BY ExitsDoes DEF Roles, Swaps, Loads, LoadHeld, Offered, Elsewhere, RoleKept, FlagsKept
<1>5. Sole'
  BY ExitsDoes DEF Sole, Claims, Handing, Excused, Elsewhere, RoleKept, FlagsKept
<1>6. Reserved'
  BY ExitsDoes DEF Reserved, Claims, Excused, Offered, Elsewhere, RoleKept, FlagsKept
<1>7. Fresh'
  BY ExitsDoes DEF Fresh, UpToDateIn, Excused, Elsewhere, RoleKept, FlagsKept
<1> QED
  BY <1>1, <1>2, <1>3, <1>4, <1>5, <1>6, <1>7

-----------------------------------------------------------------------------
(* The theorems *)

\* Every step keeps the invariant.
LEMMA NextKeeps == IInv /\ [Next]_vars => IInv'
<1> SUFFICES ASSUME IInv, [Next]_vars PROVE IInv'
  OBVIOUS
<1>1. CASE UNCHANGED vars
  BY <1>1
  DEF vars, IInv, TypeOK, Roles, Swaps, Loads, LoadHeld, Sole, Reserved, Fresh, UpToDateIn, Claims, Handing, Excused
<1>2. ASSUME NEW p \in Processes, Step(p) PROVE IInv'
  <2>1. CASE TakeEnds(p) \/ TakeArrives(p) \/ LoadArrives(p) \/ SourceReady(p) \/ SourceFails(p) \/ Leaves(p)
    BY <2>1, TakeEndsKeeps, TakeArrivesKeeps, LoadArrivesKeeps, SourceReadyKeeps, SourceFailsKeeps, LeavesKeeps
  <2>2. CASE TearsDown(p) \/ (\E restores \in BOOLEAN : SessionStarts(p, restores)) \/ Replaced(p)
    BY <2>2, TearsDownKeeps, SessionStartsKeeps, ReplacedKeeps
  <2>3. CASE CwdCancelled(p) \/ (\E cancelled \in BOOLEAN : SwitchReloads(p, cancelled)) \/ SwitchFails(p)
    BY <2>3, CwdCancelledKeeps, SwitchReloadsKeeps, SwitchFailsKeeps
  <2>4. CASE (\E d \in Processes \cup {None} : Opens(p, d)) \/ TurnEnds(p)
    BY <2>4, OpensKeeps, TurnEndsKeeps
  <2>5. ASSUME NEW q \in Processes,
               \/ ServeTake(p, q) \/ RefuseTake(p, q) \/ LoadBegins(p, q) \/ LoadRefused(p, q)
               \/ \E ready \in BOOLEAN : Loaded(p, q, ready)
        PROVE  IInv'
    BY <2>5, ServeTakeKeeps, RefuseTakeKeeps, LoadBeginsKeeps, LoadRefusedKeeps, LoadedKeeps
  <2> QED
    BY <1>2, <2>1, <2>2, <2>3, <2>4, <2>5 DEF Step
<1>3. ASSUME NEW p \in Processes, Human(p) PROVE IInv'
  <2>1. CASE Take(p) \/ (\E s \in Processes : List(p, s)) \/ Choose(p) \/ Switch(p)
    BY <2>1, TakeKeeps, ListKeeps, ChooseKeeps, SwitchKeeps
  <2>2. CASE (\E cancelled \in BOOLEAN : Cwd(p, cancelled)) \/ (\E f \in Files : Resume(p, f))
    BY <2>2, CwdKeeps, ResumeKeeps
  <2>3. CASE Message(p) \/ Exits(p)
    BY <2>3, MessageKeeps, ExitsKeeps
  <2> QED
    BY <1>3, <2>1, <2>2, <2>3 DEF Human
<1> QED
  BY <1>1, <1>2, <1>3 DEF Next

\* The inductive invariant holds in every reachable state.
THEOREM Inductive == Spec => []IInv
BY InitIInv, NextKeeps, PTL DEF Spec

\* Processes, calls, files and replacements keep their types.
THEOREM TypeCorrect == Spec => []TypeOK
<1>1. IInv => TypeOK
  BY DEF IInv
<1> QED
  BY <1>1, Inductive, PTL

\* A process leaves as a source whose receiver is ready.
LEMMA LeavingStep ==
  ASSUME IInv, [Next]_vars, NEW s \in Processes, pi[s].up = "running", pi'[s].up = "leaving"
  PROVE  SourceReady(s) /\ ~load[s].stale
<1>1. CASE UNCHANGED vars
  BY <1>1 DEF vars
<1>2. ASSUME NEW p \in Processes, Step(p) PROVE SourceReady(s) /\ ~load[s].stale
  <2>1. CASE SourceReady(p)
    BY <2>1, SourceReadyDoes DEF IInv, Elsewhere
  <2>2. CASE TakeEnds(p) \/ TakeArrives(p) \/ LoadArrives(p) \/ SourceFails(p) \/ Leaves(p)
    BY <2>2, TakeEndsDoes, TakeArrivesDoes, LoadArrivesDoes, SourceFailsDoes, LeavesDoes
    DEF IInv, Elsewhere, SessionKept
  <2>3. CASE TearsDown(p) \/ (\E restores \in BOOLEAN : SessionStarts(p, restores)) \/ Replaced(p)
    BY <2>3, TearsDownDoes, SessionStartsDoes, ReplacedDoes DEF IInv, Elsewhere, SessionKept
  <2>4. CASE CwdCancelled(p) \/ (\E cancelled \in BOOLEAN : SwitchReloads(p, cancelled)) \/ SwitchFails(p)
    BY <2>4, CwdCancelledDoes, SwitchReloadsDoes, SwitchFailsDoes DEF IInv, Elsewhere, SessionKept
  <2>5. CASE (\E d \in Processes \cup {None} : Opens(p, d)) \/ TurnEnds(p)
    BY <2>5, OpensDoes, TurnEndsDoes DEF IInv, Elsewhere, SessionKept
  <2>6. ASSUME NEW q \in Processes,
               \/ ServeTake(p, q) \/ RefuseTake(p, q) \/ LoadBegins(p, q) \/ LoadRefused(p, q)
               \/ \E ready \in BOOLEAN : Loaded(p, q, ready)
        PROVE  FALSE
    BY <2>6, ServeTakeDoes, RefuseTakeDoes, LoadBeginsDoes, LoadRefusedDoes, LoadedDoes
    DEF IInv, Elsewhere, SessionKept
  <2> QED
    BY <1>2, <2>1, <2>2, <2>3, <2>4, <2>5, <2>6 DEF Step
<1>3. ASSUME NEW p \in Processes, Human(p) PROVE FALSE
  <2>1. CASE Take(p) \/ (\E q \in Processes : List(p, q)) \/ Choose(p) \/ Switch(p)
    BY <2>1, TakeDoes, ListDoes, ChooseDoes, SwitchDoes DEF IInv, Elsewhere, SessionKept
  <2>2. CASE (\E cancelled \in BOOLEAN : Cwd(p, cancelled)) \/ (\E f \in Files : Resume(p, f))
    BY <2>2, CwdDoes, ResumeDoes DEF IInv
  <2>3. CASE Message(p) \/ Exits(p)
    BY <2>3, MessageDoes, ExitsDoes DEF IInv, Elsewhere
  <2> QED
    BY <1>3, <2>1, <2>2, <2>3 DEF Human
<1> QED
  BY <1>1, <1>2, <1>3 DEF Next

\* A source exits only from the session it handed over, and, unless the file is excused, from
\* one that its receiver shows in full (take.ts).
THEOREM HandedOverHolds == Spec => HandedOver
<1> DEFINE Over(s) ==
      LET r == load[s].to
      IN /\ pi[s].file = load[s].file
         /\ pi[s].view \subseteq disk[pi[s].file].entries \/ pi[s].file \in Excused
         /\ Connected(r) /\ pi[r].active = "receiver" =>
              pi[r].file = pi[s].file /\ (pi[s].view \subseteq pi[r].view \/ pi[s].file \in Excused)
           Hands == \A s \in Processes : pi[s].up = "running" /\ pi'[s].up = "leaving" => Over(s)
<1>1. ASSUME IInv, [Next]_vars PROVE Hands
  <2> SUFFICES ASSUME NEW s \in Processes, pi[s].up = "running", pi'[s].up = "leaving" PROVE Over(s)
    OBVIOUS
  <2> DEFINE r == load[s].to
  <2>1. load[s].at = "ready" /\ ~load[s].stale
    BY <1>1, LeavingStep DEF SourceReady
  <2>2. r \in Processes /\ pi[s].file = load[s].file /\ call[r].at = "serving" /\ pi[r].up # "off"
    BY <1>1, <2>1 DEF IInv, Loads, LoadHeld
  <2>3. pi[s].file \notin Excused => pi[s].view = disk[pi[s].file].entries
    BY <1>1 DEF IInv, Fresh, UpToDateIn
  <2>4. ASSUME Connected(r), pi[r].active = "receiver"
        PROVE  pi[r].file = pi[s].file /\ (pi[s].view \subseteq pi[r].view \/ pi[s].file \in Excused)
    <3>1. pi[r].up = "running"
      <4>1. pi[r].up \in {"off", "running", "leaving", "gone"}
        BY <1>1, <2>2, Typed DEF IInv, Process
      <4> QED
        BY <1>1, <2>2, <2>4, <4>1 DEF IInv, Connected, Roles
    <3>2. pi[r].file = load[s].file
      BY <1>1, <2>1, <2>2, <2>4, <3>1 DEF IInv, Loads, LoadHeld
    <3>3. pi[r].file \notin Excused => pi[r].view = disk[pi[r].file].entries
      BY <1>1, <2>2, <3>1 DEF IInv, Fresh, UpToDateIn
    <3> QED
      BY <2>2, <2>3, <3>2, <3>3
  <2> QED
    BY <2>2, <2>3, <2>4
<1>2. IInv /\ [Next]_vars => [Hands]_vars
  BY <1>1
<1>3. [][Hands]_vars => HandedOver
  BY PTL DEF HandedOver
<1> QED
  BY <1>2, <1>3, Inductive, PTL DEF Spec

\* A turn begins with a message.
LEMMA TurnStep ==
  ASSUME IInv, [Next]_vars, NEW p \in Processes, ~pi[p].busy, pi'[p].busy
  PROVE  Message(p)
<1>1. CASE UNCHANGED vars
  BY <1>1 DEF vars
<1>2. ASSUME NEW q \in Processes, Step(q) PROVE FALSE
  <2>1. CASE TakeEnds(q) \/ TakeArrives(q) \/ LoadArrives(q) \/ SourceReady(q) \/ SourceFails(q) \/ Leaves(q)
    BY <2>1, TakeEndsDoes, TakeArrivesDoes, LoadArrivesDoes, SourceReadyDoes, SourceFailsDoes, LeavesDoes
    DEF IInv, Elsewhere, SessionKept
  <2>2. CASE TearsDown(q) \/ (\E restores \in BOOLEAN : SessionStarts(q, restores)) \/ Replaced(q)
    BY <2>2, TearsDownDoes, SessionStartsDoes, ReplacedDoes DEF IInv, Elsewhere, SessionKept
  <2>3. CASE CwdCancelled(q) \/ (\E cancelled \in BOOLEAN : SwitchReloads(q, cancelled)) \/ SwitchFails(q)
    BY <2>3, CwdCancelledDoes, SwitchReloadsDoes, SwitchFailsDoes DEF IInv, Elsewhere, SessionKept
  <2>4. CASE (\E d \in Processes \cup {None} : Opens(q, d)) \/ TurnEnds(q)
    BY <2>4, OpensDoes, TurnEndsDoes DEF IInv, Elsewhere, SessionKept
  <2>5. ASSUME NEW r \in Processes,
               \/ ServeTake(q, r) \/ RefuseTake(q, r) \/ LoadBegins(q, r) \/ LoadRefused(q, r)
               \/ \E ready \in BOOLEAN : Loaded(q, r, ready)
        PROVE  FALSE
    BY <2>5, ServeTakeDoes, RefuseTakeDoes, LoadBeginsDoes, LoadRefusedDoes, LoadedDoes
    DEF IInv, Elsewhere, SessionKept
  <2> QED
    BY <1>2, <2>1, <2>2, <2>3, <2>4, <2>5 DEF Step
<1>3. ASSUME NEW q \in Processes, Human(q) PROVE Message(p)
  <2>1. CASE Take(q) \/ (\E s \in Processes : List(q, s)) \/ Choose(q) \/ Switch(q)
    BY <2>1, TakeDoes, ListDoes, ChooseDoes, SwitchDoes DEF IInv, Elsewhere, SessionKept
  <2>2. CASE (\E cancelled \in BOOLEAN : Cwd(q, cancelled)) \/ (\E f \in Files : Resume(q, f))
    BY <2>2, CwdDoes, ResumeDoes DEF IInv
  <2>3. CASE Message(q) \/ Exits(q)
    BY <2>3, MessageDoes, ExitsDoes DEF IInv, Elsewhere
  <2> QED
    BY <1>3, <2>1, <2>2, <2>3 DEF Human
<1> QED
  BY <1>1, <1>2, <1>3 DEF Next

\* Nobody continues a conversation from a view that lacks some of its entries, except in an
\* excused file (take.ts).
THEOREM UpToDateHolds == Spec => UpToDate
<1> DEFINE Fine == \A p \in Processes : ~pi[p].busy /\ pi'[p].busy =>
       pi[p].view = disk[pi[p].file].entries \/ pi[p].file \in Excused
<1>1. ASSUME IInv, [Next]_vars PROVE Fine
  <2> SUFFICES ASSUME NEW p \in Processes, ~pi[p].busy, pi'[p].busy, pi[p].file \notin Excused
               PROVE  pi[p].view = disk[pi[p].file].entries
    OBVIOUS
  <2>1. pi[p].up = "running"
    BY <1>1, TurnStep DEF Message, Usable, Running
  <2> QED
    BY <1>1, <2>1 DEF IInv, Fresh, UpToDateIn
<1>2. IInv /\ [Next]_vars => [Fine]_vars
  BY <1>1
<1>3. [][Fine]_vars => UpToDate
  BY PTL DEF UpToDate
<1> QED
  BY <1>2, <1>3, Inductive, PTL DEF Spec

\* A step removes no entry from a file that is not excused.
LEMMA DiskStep ==
  ASSUME IInv, [Next]_vars, NEW f \in Files, f \notin Excused
  PROVE  disk[f].entries \subseteq disk'[f].entries
<1>1. CASE disk' = disk
  BY <1>1
<1>2. ASSUME NEW p \in Processes, NewEntry \in Entries, disk' = AppendTo(pi[p].file)
      PROVE  disk[f].entries \subseteq disk'[f].entries
  <2>1. pi[p].file \in Files /\ TypeOK
    BY Typed DEF IInv
  <2> QED
    BY <1>2, <2>1, AppendDoes DEF Elsewhere, Files
<1>3. ASSUME NEW p \in Processes, NEW cancelled \in BOOLEAN, Cwd(p, cancelled)
      PROVE  disk[f].entries \subseteq disk'[f].entries
  <2>1. pi[p].up = "running" /\ Elsewhere(disk', disk, pi[p].file) /\ disk'[pi[p].file].entries = pi[p].view
    BY <1>3, CwdDoes DEF IInv
  <2>2. pi[p].file = f => pi[p].view = disk[f].entries
    BY <2>1 DEF IInv, Fresh, UpToDateIn
  <2> QED
    BY <2>1, <2>2 DEF Elsewhere, Files
<1>4. ASSUME NEW p \in Processes, CwdCancelled(p)
      PROVE  disk[f].entries \subseteq disk'[f].entries
  <2>1. /\ pi[p].up = "running" /\ swap[p].at = "cancelled" /\ pi[p].file = swap[p].file
        /\ Elsewhere(disk', disk, swap[p].file) /\ disk'[swap[p].file] = swap[p].saved
    BY <1>4, CwdCancelledDoes DEF IInv, Swaps
  <2>2. swap[p].file = f => swap[p].saved.entries = disk[f].entries
    BY <2>1 DEF IInv, Fresh, UpToDateIn
  <2> QED
    BY <2>1, <2>2 DEF Elsewhere, Files
<1>5. CASE UNCHANGED vars
  BY <1>1, <1>5 DEF vars
<1>6. ASSUME NEW p \in Processes, Step(p)
      PROVE  disk[f].entries \subseteq disk'[f].entries
  <2>1. CASE TakeEnds(p) \/ TakeArrives(p) \/ LoadArrives(p) \/ SourceReady(p) \/ SourceFails(p) \/ Leaves(p)
    BY <1>1, <2>1 DEF TakeEnds, TakeArrives, LoadArrives, SourceReady, SourceFails, Leaves
  <2>2. CASE TearsDown(p) \/ (\E restores \in BOOLEAN : SessionStarts(p, restores)) \/ Replaced(p)
    BY <1>1, <2>2 DEF TearsDown, SessionStarts, Replaced
  <2>3. CASE CwdCancelled(p) \/ (\E cancelled \in BOOLEAN : SwitchReloads(p, cancelled)) \/ SwitchFails(p)
    BY <1>1, <1>2, <1>4, <2>3 DEF SwitchReloads, SwitchFails
  <2>4. CASE (\E d \in Processes \cup {None} : Opens(p, d)) \/ TurnEnds(p)
    BY <1>1, <2>4 DEF Opens, TurnEnds
  <2>5. ASSUME NEW q \in Processes,
               \/ ServeTake(p, q) \/ RefuseTake(p, q) \/ LoadBegins(p, q) \/ LoadRefused(p, q)
               \/ \E ready \in BOOLEAN : Loaded(p, q, ready)
        PROVE  disk[f].entries \subseteq disk'[f].entries
    BY <1>1, <1>2, <2>5 DEF ServeTake, RefuseTake, LoadBegins, LoadRefused, Loaded
  <2> QED
    BY <1>6, <2>1, <2>2, <2>3, <2>4, <2>5 DEF Step
<1>7. ASSUME NEW p \in Processes, Human(p)
      PROVE  disk[f].entries \subseteq disk'[f].entries
  <2>1. CASE Take(p) \/ (\E s \in Processes : List(p, s)) \/ Choose(p) \/ Switch(p)
    BY <1>1, <2>1 DEF Take, List, Choose, Switch
  <2>2. CASE (\E cancelled \in BOOLEAN : Cwd(p, cancelled)) \/ (\E g \in Files : Resume(p, g))
    BY <1>1, <1>3, <2>2 DEF Resume
  <2>3. CASE Message(p) \/ Exits(p)
    BY <1>1, <1>2, <2>3 DEF Message, Exits
  <2> QED
    BY <1>7, <2>1, <2>2, <2>3 DEF Human
<1> QED
  BY <1>5, <1>6, <1>7 DEF Next

\* Neither /cwd nor undoing it loses an entry of a session file, except of an excused one (cwd.ts).
THEOREM HistoryKeptHolds == Spec => HistoryKept
<1> DEFINE Kept == \A f \in Files : disk[f].entries \subseteq disk'[f].entries \/ f \in Excused
<1>1. IInv /\ [Next]_vars => [Kept]_vars
  BY DiskStep
<1>2. [][Kept]_vars => HistoryKept
  BY PTL DEF HistoryKept
<1> QED
  BY <1>1, <1>2, Inductive, PTL DEF Spec

-----------------------------------------------------------------------------
(* Conversations *)

\* The largest number of a nonempty set of numbers up to n.
LEMMA LargestOf ==
  ASSUME NEW n \in Nat, NEW S, S \subseteq 0..n, S # {}
  PROVE  Max(S) \in S /\ \A y \in S : y <= Max(S)
<1> DEFINE Below == {n - x : x \in S}
<1>1. Below \subseteq Nat /\ Below # {}
  <2>1. \A x \in S : n - x \in Nat
    OBVIOUS
  <2> QED
    BY <2>1, Zenon
<1>2. PICK e \in Below : \A y \in Below : ~(<<y, e>> \in OpToRel(<, Nat))
  BY <1>1, WFMin, NatLessThanWellFounded
<1>3. PICK x \in S : e = n - x
  BY <1>2
<1>4. \A y \in S : x >= y
  <2> TAKE y \in S
  <2>1. n - y \in Below /\ n - y \in Nat /\ e \in Nat
    BY <1>1
  <2>2. ~(n - y < e)
    BY <1>2, <2>1 DEF OpToRel
  <2>3. x \in Nat /\ y \in Nat
    OBVIOUS
  <2> QED
    BY <1>3, <2>2, <2>3
<1> DEFINE Top(z) == \A y \in S : z >= y
<1>5. Max(S) \in S /\ Top(Max(S))
  <2>1. Top(x)
    BY <1>4
  <2>2. Max(S) = CHOOSE z \in S : Top(z)
    BY DEF Max
  <2> HIDE DEF Top
  <2> QED
    BY <2>1, <2>2
<1>6. S \subseteq Nat
  OBVIOUS
<1> QED
  BY <1>5, <1>6

\* An entry that is appended is in no file yet.
LEMMA NewIsNew ==
  ASSUME TypeOK, NEW f \in Files
  PROVE  NewEntry \notin disk[f].entries
<1> DEFINE S == {0} \cup UNION {disk[g].entries : g \in Files}
           n == 2 * MaxActs
<1>1. n \in Nat
  BY TakeAssumption
<1>2. \A g \in Files : disk[g].entries \subseteq 1..n
  BY DEF TypeOK, File, Entries
<1> HIDE DEF n
<1>3. S \subseteq 0..n /\ S # {}
  BY <1>1, <1>2
<1>4. disk[f].entries \subseteq S
  OBVIOUS
<1>5. NewEntry = Max(S) + 1
  BY DEF NewEntry
<1> HIDE DEF S
<1>6. Max(S) \in S /\ \A y \in S : y <= Max(S)
  BY <1>1, <1>3, LargestOf
<1> DEFINE m == Max(S)
<1> HIDE DEF m
<1>7. m \in S /\ \A y \in S : y <= m
  BY <1>6 DEF m
<1>8. m \in Nat
  BY <1>1, <1>3, <1>7
<1>9. m + 1 \notin S
  BY <1>7, <1>8
<1> QED
  BY <1>4, <1>5, <1>9 DEF m

\* What the processes show, and what the files hold, as Conversations has them.
Shows == [p \in Processes |-> pi[p].file]
View == [p \in Processes |-> pi[p].view]
History == [f \in Files |-> disk[f].entries]

\* No process but p comes to show another file, or a file differently.
SessionElsewhere(p) ==
  \A q \in Processes \ {p} : pi'[q].file = pi[q].file /\ pi'[q].view = pi[q].view

\* Files are excused and stay so.
MoreExcused == Excused \subseteq Excused' /\ Excused' \subseteq Files

\* The humans may be told more of files that nobody touches.
LEMMA KeptIsShared ==
  ASSUME MoreExcused, NEW p \in Processes, SessionElsewhere(p),
         pi'[p].file = pi[p].file, pi'[p].view = pi[p].view,
         \A f \in Files : disk'[f].entries = disk[f].entries
  PROVE  Shared!Next
<1>1. Shows' = Shows
  BY DEF SessionElsewhere, Shows
<1>2. View' = View
  BY DEF SessionElsewhere, View
<1>3. History' = History
  BY DEF History
<1>4. \E more \in SUBSET Files : Excused' = Excused \cup more
  BY DEF MoreExcused
<1> QED
  BY <1>1, <1>2, <1>3, <1>4 DEF Shared!Next, Shows, View, History

\* A process that has all of its conversation appends an entry.
LEMMA AppendIsShared ==
  ASSUME IInv, MoreExcused, NEW p \in Processes, SessionElsewhere(p), pi[p].up = "running",
         pi'[p].file = pi[p].file, pi'[p].view = pi[p].view \cup {NewEntry},
         NewEntry \in Entries, disk' = AppendTo(pi[p].file)
  PROVE  Shared!Next
<1> DEFINE f == pi[p].file
<1>1. f \in Files /\ TypeOK
  BY Typed DEF IInv
<1>2. /\ disk'[f].entries = disk[f].entries \cup {NewEntry}
      /\ \A g \in Files : g # f => disk'[g] = disk[g]
  BY <1>1, AppendDoes DEF Elsewhere, Files
<1>3. View[p] = History[f] \/ f \in Excused
  BY <1>1 DEF IInv, Fresh, UpToDateIn, View, History
<1>4. NewEntry \notin History[f]
  BY <1>1, NewIsNew DEF History
<1>5. Shows[p] = f /\ Shows' = Shows
  BY DEF SessionElsewhere, Shows
<1>6. View' = [View EXCEPT ![p] = View[p] \cup {NewEntry}]
  BY DEF SessionElsewhere, View
<1>7. History' = [History EXCEPT ![f] = History[f] \cup {NewEntry}]
  BY <1>1, <1>2 DEF History
<1>8. \E more \in SUBSET Files : Excused' = Excused \cup more
  BY DEF MoreExcused
<1>9. PICK e \in Entries : e = NewEntry
  OBVIOUS
<1>10. Shared!Continue(p, e)
  BY <1>3, <1>4, <1>5, <1>6, <1>7, <1>9 DEF Shared!Continue, Shows, View, History
<1> QED
  BY <1>8, <1>10 DEF Shared!Next

\* A process opens a file as it is on disk.
LEMMA OpenIsShared ==
  ASSUME MoreExcused, NEW p \in Processes, NEW f \in Files, SessionElsewhere(p),
         pi'[p].file = f, pi'[p].view = disk[f].entries, disk' = disk
  PROVE  Shared!Next
<1>1. Shows' = [Shows EXCEPT ![p] = f]
  BY DEF SessionElsewhere, Shows
<1>2. View' = [View EXCEPT ![p] = History[f]]
  BY DEF SessionElsewhere, View, History
<1>3. History' = History
  BY DEF History
<1>4. \E more \in SUBSET Files : Excused' = Excused \cup more
  BY DEF MoreExcused
<1>5. Shared!Open(p, f)
  BY <1>1, <1>2, <1>3 DEF Shared!Open, Shows, View, History
<1> QED
  BY <1>4, <1>5 DEF Shared!Next

\* An excused file is set to what one of its views holds, or held.
LEMMA OverwriteIsShared ==
  ASSUME TypeOK', MoreExcused, NEW p \in Processes, SessionElsewhere(p),
         pi'[p].file = pi[p].file, pi'[p].view = pi[p].view,
         NEW f \in Files, f \in Excused, Elsewhere(disk', disk, f)
  PROVE  Shared!Next
<1>1. Shows' = Shows
  BY DEF SessionElsewhere, Shows
<1>2. View' = View
  BY DEF SessionElsewhere, View
<1>3. PICK e \in SUBSET Entries : e = disk'[f].entries
  BY DEF TypeOK, File
<1>4. History' = [History EXCEPT ![f] = e]
  BY <1>3 DEF History, Elsewhere, Files
<1>5. \E more \in SUBSET Files : Excused' = Excused \cup more
  BY DEF MoreExcused
<1>6. Shared!Overwrite(f, e)
  BY <1>1, <1>2, <1>4 DEF Shared!Overwrite, Shows, View, History
<1> QED
  BY <1>5, <1>6 DEF Shared!Next

\* What a /switch has opened is what the file holds.
LEMMA OpensViews ==
  ASSUME TypeOK, NEW p \in Processes, NEW d \in Processes, Opens(p, d)
  PROVE  pi'[d].view = disk[pi[p].file].entries
<1>1. p # d
  BY TakeAssumption DEF Opens, Frontend, Running, Processes
<1>2. pi[d] \in Process /\ pi \in [Processes -> Process]
  BY DEF TypeOK
<1> QED
  BY <1>1, <1>2 DEF Opens, Process

\* A step at which nobody writes to a file or shows another one.
LEMMA QuietIsShared ==
  ASSUME MoreExcused, NEW p \in Processes, disk' = disk,
         \A q \in Processes : pi'[q].file = pi[q].file /\ pi'[q].view = pi[q].view
  PROVE  Shared!Next
BY KeptIsShared DEF SessionElsewhere

\* A rewritten file that is not excused holds what it held.
LEMMA RewriteIsShared ==
  ASSUME IInv, TypeOK', MoreExcused, NEW p \in Processes, pi' = pi,
         NEW f \in Files, Elsewhere(disk', disk, f),
         f \notin Excused => disk'[f].entries = disk[f].entries
  PROVE  Shared!Next
<1>1. SessionElsewhere(p)
  BY DEF SessionElsewhere
<1>2. CASE f \in Excused
  BY <1>1, <1>2, OverwriteIsShared
<1>3. CASE f \notin Excused
  BY <1>1, <1>3, KeptIsShared DEF Elsewhere, Files
<1> QED
  BY <1>2, <1>3

\* Every step of a process is one of Conversations.
LEMMA StepIsShared ==
  ASSUME IInv, TypeOK', NEW p \in Processes, Step(p)
  PROVE  Shared!Next
<1>0. TypeOK /\ Excused' \subseteq Files
  BY DEF IInv, TypeOK, Excused
<1>1. CASE TakeEnds(p) \/ TakeArrives(p) \/ LoadArrives(p) \/ Leaves(p)
  <2>1. /\ disk' = disk /\ UNCHANGED <<warned, cut>>
        /\ \A q \in Processes : pi'[q].file = pi[q].file /\ pi'[q].view = pi[q].view
    BY <1>0, <1>1, TakeEndsDoes, TakeArrivesDoes, LoadArrivesDoes, LeavesDoes DEF Elsewhere, SessionKept
  <2> QED
    BY <1>0, <2>1, QuietIsShared DEF MoreExcused, Excused
<1>2. CASE SourceReady(p) \/ SourceFails(p)
  <2>1. /\ disk' = disk /\ warned' = warned /\ cut \subseteq cut'
        /\ \A q \in Processes : pi'[q].file = pi[q].file /\ pi'[q].view = pi[q].view
    BY <1>0, <1>2, SourceReadyDoes, SourceFailsDoes DEF Elsewhere, SessionKept
  <2> QED
    BY <1>0, <2>1, QuietIsShared DEF MoreExcused, Excused
<1>3. CASE TearsDown(p)
  <2>1. /\ disk' = disk /\ warned \subseteq warned' /\ cut' = cut /\ swap[p].file \in Files
        /\ pi'[p].file = swap[p].file /\ pi'[p].view = disk[swap[p].file].entries
        /\ SessionElsewhere(p)
    BY <1>0, <1>3, TearsDownDoes, Typed DEF Elsewhere, SessionElsewhere
  <2> QED
    BY <1>0, <2>1, OpenIsShared DEF MoreExcused, Excused
<1>4. CASE (\E restores \in BOOLEAN : SessionStarts(p, restores)) \/ Replaced(p) \/ SwitchFails(p)
           \/ TurnEnds(p)
  <2>1. /\ disk' = disk /\ UNCHANGED <<warned, cut>>
        /\ \A q \in Processes : pi'[q].file = pi[q].file /\ pi'[q].view = pi[q].view
    BY <1>0, <1>4, SessionStartsDoes, ReplacedDoes, SwitchFailsDoes, TurnEndsDoes
    DEF Elsewhere, SessionKept
  <2> QED
    BY <1>0, <2>1, QuietIsShared DEF MoreExcused, Excused
<1>5. CASE CwdCancelled(p)
  <2>1. /\ pi[p].up = "running" /\ swap[p].at = "cancelled" /\ pi[p].file = swap[p].file
        /\ Elsewhere(disk', disk, swap[p].file) /\ disk'[swap[p].file] = swap[p].saved
        /\ pi' = pi /\ UNCHANGED <<warned, cut>> /\ swap[p].file \in Files
    BY <1>0, <1>5, CwdCancelledDoes, Typed DEF IInv, Swaps
  <2>2. swap[p].file \notin Excused => disk'[swap[p].file].entries = disk[swap[p].file].entries
    BY <2>1 DEF IInv, Fresh, UpToDateIn
  <2> QED
    BY <1>0, <2>1, <2>2, RewriteIsShared DEF MoreExcused, Excused
<1>6. CASE \E cancelled \in BOOLEAN : SwitchReloads(p, cancelled)
  <2>1. /\ pi[p].up = "running" /\ pi'[p].file = pi[p].file /\ SessionElsewhere(p)
        /\ NewEntry \in Entries /\ disk' = AppendTo(pi[p].file)
        /\ warned \subseteq warned' /\ cut' = cut
    BY <1>0, <1>6, SwitchReloadsDoes DEF Elsewhere, SessionElsewhere
  <2>2. pi'[p].view = pi[p].view \cup {NewEntry}
    BY <1>0, <1>6, Typed DEF SwitchReloads, TypeOK, Process
  <2> QED
    BY <1>0, <2>1, <2>2, AppendIsShared DEF MoreExcused, Excused
<1>7. ASSUME NEW d \in Processes \cup {None}, Opens(p, d) PROVE Shared!Next
  <2>1. /\ disk' = disk /\ UNCHANGED <<warned, cut>> /\ pi[p].file \in Files
        /\ \A q \in Processes \ {d} : SessionKept(q)
    BY <1>0, <1>7, OpensDoes, Typed
  <2>2. CASE d \in Processes
    <3>1. pi'[d].file = pi[p].file /\ pi'[d].view = disk[pi[p].file].entries
      BY <1>0, <1>7, <2>2, OpensDoes, OpensViews
    <3>2. SessionElsewhere(d)
      BY <2>1 DEF SessionElsewhere, SessionKept
    <3> QED
      BY <1>0, <2>1, <2>2, <3>1, <3>2, OpenIsShared DEF MoreExcused, Excused
  <2>3. CASE d = None
    <3>1. \A q \in Processes : SessionKept(q)
      BY <2>1, <2>3, TakeAssumption
    <3> QED
      BY <1>0, <2>1, <3>1, QuietIsShared DEF MoreExcused, Excused, SessionKept
  <2> QED
    BY <2>2, <2>3
<1>8. ASSUME NEW r \in Processes, ServeTake(p, r) PROVE Shared!Next
  <2>1. /\ pi[p].up = "running" /\ pi'[p].file = pi[p].file /\ SessionElsewhere(p)
        /\ pi'[p].view = pi[p].view \cup {NewEntry}
        /\ NewEntry \in Entries /\ disk' = AppendTo(pi[p].file)
        /\ UNCHANGED <<warned, cut>>
    BY <1>0, <1>8, ServeTakeDoes DEF Elsewhere, SessionElsewhere
  <2> QED
    BY <1>0, <2>1, AppendIsShared DEF MoreExcused, Excused
<1>9. ASSUME NEW q \in Processes,
             \/ RefuseTake(p, q) \/ LoadBegins(p, q) \/ LoadRefused(p, q)
             \/ \E ready \in BOOLEAN : Loaded(p, q, ready)
      PROVE  Shared!Next
  <2>1. /\ disk' = disk /\ warned \subseteq warned' /\ cut \subseteq cut'
        /\ \A r \in Processes : pi'[r].file = pi[r].file /\ pi'[r].view = pi[r].view
    BY <1>0, <1>9, RefuseTakeDoes, LoadBeginsDoes, LoadRefusedDoes, LoadedDoes DEF Elsewhere, SessionKept
  <2> QED
    BY <1>0, <2>1, QuietIsShared DEF MoreExcused, Excused
<1> QED
  BY <1>1, <1>2, <1>3, <1>4, <1>5, <1>6, <1>7, <1>8, <1>9 DEF Step

\* So is everything a human does.
LEMMA HumanIsShared ==
  ASSUME IInv, TypeOK', NEW p \in Processes, Human(p)
  PROVE  Shared!Next
<1>0. TypeOK /\ Excused' \subseteq Files
  BY DEF IInv, TypeOK, Excused
<1>1. CASE Take(p) \/ (\E s \in Processes : List(p, s)) \/ Choose(p) \/ Switch(p) \/ Exits(p)
           \/ \E f \in Files : Resume(p, f)
  <2>1. /\ disk' = disk /\ UNCHANGED <<warned, cut>>
        /\ \A q \in Processes : pi'[q].file = pi[q].file /\ pi'[q].view = pi[q].view
    BY <1>0, <1>1, TakeDoes, ListDoes, ChooseDoes, SwitchDoes, ExitsDoes, ResumeDoes
    DEF Elsewhere, SessionKept
  <2> QED
    BY <1>0, <2>1, QuietIsShared DEF MoreExcused, Excused
<1>2. ASSUME NEW cancelled \in BOOLEAN, Cwd(p, cancelled) PROVE Shared!Next
  <2>1. /\ pi[p].up = "running" /\ pi[p].file \in Files /\ pi' = pi /\ UNCHANGED <<warned, cut>>
        /\ Elsewhere(disk', disk, pi[p].file) /\ disk'[pi[p].file].entries = pi[p].view
    BY <1>0, <1>2, CwdDoes, Typed
  <2>2. pi[p].file \notin Excused => disk'[pi[p].file].entries = disk[pi[p].file].entries
    BY <2>1 DEF IInv, Fresh, UpToDateIn
  <2> QED
    BY <1>0, <2>1, <2>2, RewriteIsShared DEF MoreExcused, Excused
<1>3. CASE Message(p)
  <2>1. /\ pi[p].up = "running" /\ pi'[p].file = pi[p].file /\ SessionElsewhere(p)
        /\ pi'[p].view = pi[p].view \cup {NewEntry}
        /\ NewEntry \in Entries /\ disk' = AppendTo(pi[p].file)
        /\ UNCHANGED <<warned, cut>>
    BY <1>0, <1>3, MessageDoes DEF Elsewhere, SessionElsewhere
  <2> QED
    BY <1>0, <2>1, AppendIsShared DEF MoreExcused, Excused
<1> QED
  BY <1>1, <1>2, <1>3 DEF Human

\* Processes that hand conversations over, open second views of them or rewrite their files
\* keep what Conversations promises (take.ts, switch.ts, cwd.ts).
THEOREM ConversationsImplemented == Spec => ImplementsConversations
<1>1. Init => Shared!Init
  <2> SUFFICES ASSUME Init PROVE Shared!Init
    OBVIOUS
  <2>1. \A p \in Processes : pi[p].file = p /\ pi[p].view = {}
    BY DEF Init
  <2>2. \A f \in Files : disk[f].entries = {}
    BY DEF Init, NoFile
  <2> QED
    BY <2>1, <2>2 DEF Init, Shared!Init, Excused, Files
<1>2. IInv /\ TypeOK' /\ [Next]_vars => [Shared!Next]_Shared!conversationVars
  <2> SUFFICES ASSUME IInv, TypeOK', [Next]_vars PROVE [Shared!Next]_Shared!conversationVars
    OBVIOUS
  <2>1. CASE UNCHANGED vars
    BY <2>1 DEF vars, Shared!conversationVars, Excused
  <2>2. CASE Next
    BY <2>2, StepIsShared, HumanIsShared DEF Next
  <2> QED
    BY <2>1, <2>2
<1> QED
  BY <1>1, <1>2, Inductive, TypeCorrect, PTL DEF Spec, ImplementsConversations, Shared!Spec
=============================================================================
