--------------------------- MODULE ExtensionProofs ---------------------------
(***************************************************************************)
(* Proofs about the three extensions that are models of one process:       *)
(* HerdrFinish, the waits for other agents, DocumentReview, the run of an  *)
(* isolated reader, and Ask, the questions of one call.  The modules share *)
(* nothing; each section is about one of them.                             *)
(*                                                                         *)
(* A sleeping wait is informed because the snapshot it decided on was      *)
(* covered by subscriptions that stood when it was taken.  The invariant   *)
(* therefore speaks of the snapshot as soon as it is listed: it shows      *)
(* Herdr as it is, or an event is on its way, or one has made it stale.    *)
(*                                                                         *)
(* The units of any document follow its text and are well sized.  A fold   *)
(* or a recursive function is not unfolded there: it takes on one value    *)
(* after the other, and a set of places that holds the first and with each *)
(* the next holds all of them.  The blocks' chunks are spoken of by where  *)
(* the blocks are cut.                                                     *)
(*                                                                         *)
(* The review's friction is recorded once for each unit and in order, and  *)
(* a report is returned only where it was earned, for any documents and    *)
(* any number of continuations.                                            *)
(*                                                                         *)
(* The picker's cursor is on a row that is shown, an aborted call opens no *)
(* picker, and an answer holds what the human gave to that question.       *)
(***************************************************************************)
EXTENDS HerdrFinish, DocumentReview, Ask, FiniteSetTheorems, WellFoundedInduction,
        SequenceTheorems, TLAPS

-----------------------------------------------------------------------------
(* HerdrFinish *)

\* The records of waits, with any number of events on their way.
Events == [lifecycle : Nat, statuses : Nat]
Record == [
  at : Waiting \cup Settled \cup {"off", "prompted", "ended"},
  lifecycle : BOOLEAN, statuses : BOOLEAN, watched : SUBSET Others,
  coming : Events, stale : BOOLEAN, observed : BOOLEAN, panes : Snapshot]

\* Herdr's state, as a snapshot shows it.
Shown == [pane |-> pane, self |-> self]

\* A record's status subscription is for the panes of its snapshot.
CoveredBy(r) == r.statuses /\ r.watched = {p \in Others : r.panes.pane[p] # "absent"}
Awaits(r) == r.coming.lifecycle > 0 \/ r.coming.statuses > 0

\* What a record of a wait that runs says of Herdr's state h.
Informed(r, h) ==
  /\ r.at \in Waiting \ {"lifecycle"} => r.lifecycle
  /\ r.at = "sleeping" => CoveredBy(r) /\ ~r.stale
  /\ r.at \in {"listed", "sleeping"} /\ CoveredBy(r) => Awaits(r) \/ r.stale \/ r.panes = h

IInv ==
  /\ pane \in [Others -> Pane] /\ self \in Caller
  /\ active \in Waits \cup {None}
  /\ wait \in [Waits -> Record]
  /\ \A w \in Waits : Informed(wait[w], Shown)

-----------------------------------------------------------------------------
\* A record that is off or has settled says nothing that could be wrong.
LEMMA NewRecord ==
  ASSUME NEW at \in {"off", "returned", "rejected"}, NEW h
  PROVE  /\ [NewWait EXCEPT !.at = at] \in Record /\ NewWait \in Record
         /\ Informed([NewWait EXCEPT !.at = at], h) /\ Informed(NewWait, h)
<1>1. NewWait.panes \in Snapshot
  BY DEF NewWait, Snapshot, Pane, Caller
<1> QED
  BY <1>1 DEF NewWait, Record, Events, Settled, Waiting, Subscribing, Informed

\* The invariant holds at first.
LEMMA InitIInv == Init => IInv
BY NewRecord DEF Init, IInv, Caller, Shown

\* A step that changes one record to an informed one keeps the invariant.
LEMMA OneKeeps ==
  ASSUME IInv, NEW w \in Waits, NEW r \in Record, Informed(r, Shown),
         wait' = [wait EXCEPT ![w] = r], UNCHANGED <<pane, self>>,
         active' \in Waits \cup {None}
  PROVE  IInv'
BY DEF IInv, Shown

\* A wait that settles.
LEMMA SettleKeeps ==
  ASSUME IInv, NEW w \in Waits, NEW at \in Settled, wait' = Settle(w, at),
         UNCHANGED <<pane, self>>, active' \in Waits \cup {None}
  PROVE  IInv'
BY NewRecord, OneKeeps DEF Settle, Settled

\* The scheduled wait is aborted, if it still runs.
LEMMA AbortKeeps ==
  ASSUME IInv, wait' = Aborted, UNCHANGED <<pane, self>>, active' \in Waits \cup {None}
  PROVE  IInv'
<1>1. CASE active # None /\ wait[active].at \in Waiting
  BY <1>1, SettleKeeps DEF Aborted, IInv, Settled
<1>2. CASE wait' = wait
  BY <1>2 DEF IInv, Shown
<1> QED
  BY <1>1, <1>2 DEF Aborted

\* The loop turns: nothing of its last snapshot is kept.
LEMMA AgainIs ==
  ASSUME IInv, NEW w \in Waits, wait[w].lifecycle
  PROVE  \E r \in Record :
           /\ Again(w) = [wait EXCEPT ![w] = r] /\ r.at = "top" /\ r.lifecycle
<1>1. wait \in [Waits -> Record] /\ wait[w] \in Record
  BY DEF IInv
<1>2. NewWait.panes \in Snapshot
  BY DEF NewWait, Snapshot, Pane, Caller
<1> DEFINE r == [wait[w] EXCEPT !.at = "top", !.stale = FALSE, !.panes = NewWait.panes]
<1>3. r \in Record /\ r.at = "top" /\ r.lifecycle
  BY <1>1, <1>2 DEF Record, Waiting
<1>4. Again(w) = [wait EXCEPT ![w] = r]
  BY <1>1 DEF Again, Record
<1> QED
  BY <1>3, <1>4

-----------------------------------------------------------------------------
(* The wait *)

\* What is known of the record of a wait.
LEMMA Known ==
  ASSUME IInv, NEW w \in Waits
  PROVE  /\ wait \in [Waits -> Record] /\ wait[w] \in Record
         /\ wait[w].panes \in Snapshot /\ Shown \in Snapshot
         /\ wait[w].coming \in Events
         /\ Informed(wait[w], Shown)
         /\ Covered(w) <=> CoveredBy(wait[w])
BY DEF IInv, Record, Snapshot, Shown, Covered, CoveredBy, Scoped

\* A wait starts and subscribes.
LEMMA SubscribesKeeps ==
  ASSUME IInv, NEW w \in Waits, Start(w) \/ LifecycleStarted(w)
  PROVE  IInv'
<1>1. CASE Start(w)
  <2> DEFINE r == [wait[w] EXCEPT !.at = "lifecycle"]
  <2>1. wait' = [wait EXCEPT ![w] = r]
    BY <1>1, Known DEF Start, Go, Record
  <2>2. r \in Record /\ Informed(r, Shown)
    BY Known DEF Record, Informed, Waiting, Subscribing
  <2>3. UNCHANGED <<pane, self>> /\ active' \in Waits \cup {None}
    BY <1>1 DEF Start
  <2> QED
    BY <2>1, <2>2, <2>3, OneKeeps
<1>2. CASE LifecycleStarted(w)
  <2> DEFINE r == [wait[w] EXCEPT !.at = "top", !.lifecycle = TRUE]
  <2>1. wait' = [wait EXCEPT ![w] = r]
    BY <1>2, Known DEF LifecycleStarted, Record
  <2>2. r \in Record /\ Informed(r, Shown)
    BY Known DEF Record, Informed, Waiting, Subscribing
  <2>3. UNCHANGED <<pane, self>> /\ active' \in Waits \cup {None}
    BY <1>2 DEF LifecycleStarted, IInv
  <2> QED
    BY <2>1, <2>2, <2>3, OneKeeps
<1> QED
  BY <1>1, <1>2

\* A snapshot shows Herdr as it is when it is taken.
LEMMA ListsKeeps ==
  ASSUME IInv, NEW w \in Waits, Lists(w) \/ Listed(w)
  PROVE  IInv'
<1>0. UNCHANGED <<pane, self>> /\ active' \in Waits \cup {None}
  BY DEF Lists, Listed, IInv
<1>1. CASE Lists(w)
  <2> DEFINE r == [wait[w] EXCEPT !.at = "listing", !.stale = FALSE]
  <2>1. wait' = [wait EXCEPT ![w] = r]
    BY <1>1, Known DEF Lists, Record
  <2>2. r \in Record /\ Informed(r, Shown)
    BY <1>1, Known DEF Lists, Record, Informed, Waiting
  <2> QED
    BY <1>0, <2>1, <2>2, OneKeeps
<1>2. CASE Listed(w)
  <2> DEFINE r == [wait[w] EXCEPT !.at = "listed", !.panes = Shown]
  <2>1. wait' = [wait EXCEPT ![w] = r]
    BY <1>2, Known DEF Listed, Record, Shown
  <2>2. r \in Record /\ r.panes = Shown /\ r.at = "listed" /\ r.lifecycle
    BY <1>2, Known DEF Listed, Record, Informed, Waiting
  <2>3. Informed(r, Shown)
    BY <2>2 DEF Informed
  <2> QED
    BY <1>0, <2>1, <2>2, <2>3, OneKeeps
<1> QED
  BY <1>1, <1>2

\* A new scope is subscribed to before it is listed again.
LEMMA ScopeKeeps ==
  ASSUME IInv, NEW w \in Waits, Resubscribes(w) \/ StatusesStarted(w) \/ ListsAgain(w)
  PROVE  IInv'
<1>0. /\ UNCHANGED <<pane, self>> /\ active' \in Waits \cup {None}
      /\ wait[w].lifecycle
  BY Known DEF Resubscribes, StatusesStarted, ListsAgain, IInv, Informed, Waiting, Subscribing
<1>1. CASE Resubscribes(w)
  <2> DEFINE e == [wait[w].coming EXCEPT !.statuses = 0]
             r == [wait[w] EXCEPT !.at = "statuses", !.statuses = FALSE, !.watched = {},
                                  !.coming = e, !.stale = FALSE]
  <2>1. wait' = [wait EXCEPT ![w] = r]
    BY <1>1, Known DEF Resubscribes, Record
  <2>2. e \in Events
    BY Known DEF Events
  <2>3. r \in Record /\ r.at = "statuses" /\ r.lifecycle
    BY <1>0, <2>2, Known DEF Record, Waiting, Subscribing
  <2>4. Informed(r, Shown)
    BY <2>3 DEF Informed
  <2> QED
    BY <1>0, <2>1, <2>3, <2>4, OneKeeps
<1>2. CASE wait' = Again(w)
  BY <1>0, <1>2, AgainIs, OneKeeps DEF Informed
<1>3. CASE wait' = Subscribed(w)
  <2>1. PICK a \in Record : Again(w) = [wait EXCEPT ![w] = a] /\ a.at = "top" /\ a.lifecycle
    BY <1>0, AgainIs
  <2> DEFINE r == [a EXCEPT !.statuses = TRUE, !.watched = Scoped(w)]
  <2>2. wait' = [wait EXCEPT ![w] = r]
    BY <1>3, <2>1, Known DEF Subscribed, Record
  <2>3. r \in Record /\ r.at = "top" /\ r.lifecycle
    BY <2>1 DEF Record, Scoped
  <2>4. Informed(r, Shown)
    BY <2>3 DEF Informed
  <2> QED
    BY <1>0, <2>2, <2>3, <2>4, OneKeeps
<1> QED
  BY <1>1, <1>2, <1>3 DEF StatusesStarted, ListsAgain

\* A wait that goes to sleep has a current snapshot.
LEMMA DecidesKeeps ==
  ASSUME IInv, NEW w \in Waits, Decides(w)
  PROVE  IInv'
<1>0. UNCHANGED <<pane, self>> /\ active' \in Waits \cup {None}
  BY DEF Decides, IInv
<1>1. CASE wait' = Settle(w, "rejected") \/ wait' = Settle(w, "returned")
  BY <1>0, <1>1, SettleKeeps DEF Settled
<1>2. CASE wait' = [[wait EXCEPT ![w].observed = @ \/ (wait[w].panes.self = "blocked")]
                     EXCEPT ![w].at = "sleeping"]
  <2> DEFINE o == wait[w].observed \/ wait[w].panes.self = "blocked"
             r == [wait[w] EXCEPT !.observed = o, !.at = "sleeping"]
  <2>1. wait' = [wait EXCEPT ![w] = r]
    BY <1>2, Known DEF Record
  <2>2. /\ r \in Record /\ r.at = "sleeping" /\ r.lifecycle = wait[w].lifecycle
        /\ r.statuses = wait[w].statuses /\ r.watched = wait[w].watched
        /\ r.coming = wait[w].coming /\ r.stale = wait[w].stale /\ r.panes = wait[w].panes
    <3>1. o \in BOOLEAN
      BY Known DEF Record
    <3> QED
      BY <3>1, Known DEF Record, Waiting
  <2>3. wait[w].at = "listed" /\ CoveredBy(wait[w]) /\ ~wait[w].stale
    BY Known DEF Decides, Current
  <2>4. Informed(r, Shown)
    BY <2>2, <2>3, Known DEF Informed, CoveredBy, Awaits, Waiting
  <2> QED
    BY <1>0, <2>1, <2>2, <2>4, OneKeeps
<1> QED
  BY <1>1, <1>2 DEF Decides

\* An event that arrives makes the snapshot under way stale, or wakes the wait.
LEMMA ChangedKeeps ==
  ASSUME IInv, NEW w \in Waits, NEW topic \in Topics, Changed(w, topic)
  PROVE  IInv'
<1>0. /\ UNCHANGED <<pane, self>> /\ active' \in Waits \cup {None}
      /\ wait[w].at \in Waiting /\ wait[w].coming[topic] > 0
  BY DEF Changed, IInv
<1> DEFINE e == [wait[w].coming EXCEPT ![topic] = @ - 1]
           v == Woken(wait[w])
           r == [v EXCEPT !.coming = e]
<1>1. e \in Events
  BY <1>0, Known DEF Events, Topics
<1>2. /\ v \in Record /\ v.lifecycle = wait[w].lifecycle /\ v.at # "sleeping"
      /\ v.coming = wait[w].coming
      /\ v.at = "listed" => v.stale
      /\ v.at \in Waiting \ {"lifecycle"} => wait[w].at \in Waiting \ {"lifecycle"}
  <2>1. Revised(wait[w]) \in BOOLEAN
    BY Known DEF Revised, Record
  <2>2. CASE wait[w].at = "sleeping"
    <3>1. NewWait.panes \in Snapshot
      BY DEF NewWait, Snapshot, Pane, Caller
    <3> QED
      BY <2>1, <2>2, <3>1, Known DEF Woken, Record, Waiting
  <2>3. CASE wait[w].at # "sleeping"
    BY <1>0, <2>1, <2>3, Known DEF Woken, Record, Waiting, Revised
  <2> QED
    BY <2>2, <2>3
<1>3. wait' = [wait EXCEPT ![w] = r]
  BY <1>2, Known DEF Changed, Record
<1>4. /\ r \in Record /\ r.at = v.at /\ r.lifecycle = wait[w].lifecycle /\ r.stale = v.stale
  BY <1>1, <1>2 DEF Record
<1>5. Informed(r, Shown)
  BY <1>2, <1>4, Known DEF Informed
<1> HIDE DEF e, v, r
<1> QED
  BY <1>0, <1>3, <1>4, <1>5, OneKeeps

\* Ends of a wait.
LEMMA EndsKeeps ==
  ASSUME IInv, NEW w \in Waits,
         Foreign(w) \/ RequestFails(w) \/ SubscriptionLost(w) \/ BlockedTimeout(w)
         \/ Resolved(w) \/ Rejected(w)
  PROVE  IInv'
<1>0. UNCHANGED <<pane, self>> /\ active' \in Waits \cup {None}
  BY DEF Foreign, RequestFails, SubscriptionLost, BlockedTimeout, Resolved, Rejected, IInv
<1>1. CASE wait' = Settle(w, "rejected")
  BY <1>0, <1>1, SettleKeeps DEF Settled
<1>2. ASSUME NEW at \in {"prompted", "ended"}, wait' = Go(w, at)
      PROVE  IInv'
  <2> DEFINE r == [wait[w] EXCEPT !.at = at]
  <2>1. wait' = [wait EXCEPT ![w] = r]
    BY <1>2, Known DEF Go, Record
  <2>2. r \in Record /\ r.at = at
    BY Known DEF Record
  <2>3. Informed(r, Shown)
    BY <2>2 DEF Informed, Waiting, Subscribing
  <2> QED
    BY <1>0, <2>1, <2>2, <2>3, OneKeeps
<1> QED
  BY <1>1, <1>2 DEF Foreign, RequestFails, SubscriptionLost, BlockedTimeout, Resolved, Rejected

\* Commands and events of the extension.
LEMMA CommandsKeep == ASSUME IInv, Cancel \/ Works \/ Compacts \/ Rests PROVE IInv'
<1>1. CASE Cancel \/ Works
  BY <1>1, AbortKeeps DEF Cancel, Works
<1>2. CASE Compacts \/ Rests
  BY <1>2 DEF Compacts, Rests, IInv, Shown
<1> QED
  BY <1>1, <1>2

-----------------------------------------------------------------------------
(* Herdr *)

\* What a record is after a change of Herdr of which it is told, or not.
Hears(r, lifecycle, statuses) ==
  [r EXCEPT !.coming = [lifecycle |-> IF lifecycle /\ r.lifecycle THEN r.coming.lifecycle + 1
                                      ELSE r.coming.lifecycle,
                        statuses |-> IF r.statuses /\ statuses THEN r.coming.statuses + 1
                                     ELSE r.coming.statuses]]

LEMMA HearsIs ==
  ASSUME NEW r \in Record, NEW lifecycle \in BOOLEAN, NEW statuses \in BOOLEAN
  PROVE  LET n == Hears(r, lifecycle, statuses) IN
         /\ n \in Record
         /\ n.at = r.at /\ n.lifecycle = r.lifecycle /\ n.stale = r.stale /\ n.panes = r.panes
         /\ n.statuses = r.statuses /\ n.watched = r.watched
         /\ Awaits(r) => Awaits(n)
         /\ lifecycle /\ r.lifecycle => Awaits(n)
         /\ statuses /\ r.statuses => Awaits(n)
<1>1. r.coming.lifecycle \in Nat /\ r.coming.statuses \in Nat
  BY DEF Record, Events
<1> QED
  BY <1>1 DEF Hears, Record, Events, Awaits

\* A change keeps the invariant if whoever is covered and does not hear of it need not.
LEMMA ChangeKeeps ==
  ASSUME IInv, pane' \in [Others -> Pane], self' \in Caller, UNCHANGED active,
         NEW lifecycle \in BOOLEAN, NEW statuses \in [Waits -> BOOLEAN],
         wait' = [w \in Waits |-> Hears(wait[w], lifecycle, statuses[w])],
         \A w \in Waits :
           wait[w].at \in {"listed", "sleeping"} /\ CoveredBy(wait[w]) /\ wait[w].panes = Shown
             => (lifecycle /\ wait[w].lifecycle) \/ (statuses[w] /\ wait[w].statuses)
  PROVE  IInv'
<1>1. \A w \in Waits : wait'[w] = Hears(wait[w], lifecycle, statuses[w])
  OBVIOUS
<1>2. ASSUME NEW w \in Waits
      PROVE  wait'[w] \in Record /\ Informed(wait'[w], Shown')
  <2>1. statuses[w] \in BOOLEAN
    OBVIOUS
  <2> DEFINE n == Hears(wait[w], lifecycle, statuses[w])
  <2>2. /\ n \in Record /\ wait'[w] = n
        /\ n.at = wait[w].at /\ n.lifecycle = wait[w].lifecycle /\ n.stale = wait[w].stale
        /\ n.panes = wait[w].panes /\ n.statuses = wait[w].statuses /\ n.watched = wait[w].watched
        /\ Awaits(wait[w]) => Awaits(n)
        /\ lifecycle /\ wait[w].lifecycle => Awaits(n)
        /\ statuses[w] /\ wait[w].statuses => Awaits(n)
    BY <1>1, <2>1, HearsIs, Known
  <2>3. CoveredBy(n) <=> CoveredBy(wait[w])
    BY <2>2 DEF CoveredBy
  <2> HIDE DEF n
  <2>4. Informed(wait[w], Shown)
    BY Known
  <2>5. n.at \in {"listed", "sleeping"} /\ CoveredBy(n) => Awaits(n) \/ n.stale \/ n.panes = Shown'
    BY <2>2, <2>3, <2>4 DEF Informed
  <2>6. Informed(n, Shown')
    BY <2>2, <2>3, <2>4, <2>5 DEF Informed
  <2> QED
    BY <2>2, <2>6
<1>3. wait' \in [Waits -> Record]
  BY <1>2
<1> QED
  BY <1>2, <1>3 DEF IInv

\* A pane of the snapshot changes: a lifecycle event, or a status event for a pane that was there.
LEMMA PaneKeeps == ASSUME IInv, NEW p \in Others, NEW s \in Pane, PaneChanges(p, s) PROVE IInv'
<1> DEFINE lifecycle == "absent" \in {pane[p], s} \/ pane[p] = "shell"
           statuses == [w \in Waits |-> p \in wait[w].watched /\ "absent" \notin {pane[p], s}]
<1>1. /\ pane' = [pane EXCEPT ![p] = s] /\ pane' \in [Others -> Pane]
      /\ self' \in Caller /\ UNCHANGED active
  BY DEF PaneChanges, IInv
<1>2. lifecycle \in BOOLEAN /\ statuses \in [Waits -> BOOLEAN]
  OBVIOUS
<1>3. wait' = [w \in Waits |-> Hears(wait[w], lifecycle, statuses[w])]
  BY DEF PaneChanges, Told, Hears
<1>4. ASSUME NEW w \in Waits, wait[w].at \in {"listed", "sleeping"}, CoveredBy(wait[w]),
             wait[w].panes = Shown
      PROVE  (lifecycle /\ wait[w].lifecycle) \/ (statuses[w] /\ wait[w].statuses)
  <2>1. wait[w].lifecycle /\ wait[w].statuses
    BY <1>4, Known DEF Informed, CoveredBy, Waiting
  <2>2. pane[p] # "absent" => p \in wait[w].watched
    BY <1>4 DEF CoveredBy, Shown
  <2> QED
    BY <2>1, <2>2
<1> HIDE DEF lifecycle, statuses
<1> QED
  BY <1>1, <1>2, <1>3, <1>4, ChangeKeeps

\* The caller changes: its session is another one, which is a lifecycle event, or its status is.
LEMMA SelfKeeps == ASSUME IInv, NEW s \in Caller, SelfChanges(s) PROVE IInv'
<1> DEFINE lifecycle == s = "foreign"
           statuses == [w \in Waits |-> TRUE]
<1>1. pane' \in [Others -> Pane] /\ self' \in Caller /\ UNCHANGED active
  BY DEF SelfChanges, IInv
<1>2. lifecycle \in BOOLEAN /\ statuses \in [Waits -> BOOLEAN]
  OBVIOUS
<1>3. wait' = [w \in Waits |-> Hears(wait[w], lifecycle, statuses[w])]
  BY DEF SelfChanges, Told, Hears
<1>4. \A w \in Waits : CoveredBy(wait[w]) => statuses[w] /\ wait[w].statuses
  BY DEF CoveredBy
<1> HIDE DEF lifecycle, statuses
<1> QED
  BY <1>1, <1>2, <1>3, <1>4, ChangeKeeps

-----------------------------------------------------------------------------
\* The inductive invariant holds in every reachable state.
THEOREM Invariant == Spec => []IInv
<1>1. IInv /\ [Next]_vars => IInv'
  <2> SUFFICES ASSUME IInv, [Next]_vars PROVE IInv'
    OBVIOUS
  <2>1. ASSUME NEW w \in Waits, Start(w) \/ Proceeds(w) PROVE IInv'
    BY <2>1, SubscribesKeeps, ListsKeeps, ScopeKeeps, DecidesKeeps, EndsKeeps DEF Proceeds
  <2>2. ASSUME NEW w \in Waits, RequestFails(w) \/ SubscriptionLost(w) \/ BlockedTimeout(w) PROVE IInv'
    BY <2>2, EndsKeeps
  <2>3. ASSUME NEW w \in Waits, NEW topic \in Topics, Changed(w, topic) PROVE IInv'
    BY <2>3, ChangedKeeps
  <2>4. CASE Cancel \/ Works \/ Compacts \/ Rests
    BY <2>4, CommandsKeep
  <2>5. CASE (\E p \in Others, s \in Pane : PaneChanges(p, s)) \/ (\E s \in Caller : SelfChanges(s))
    BY <2>5, PaneKeeps, SelfKeeps
  <2>6. CASE UNCHANGED vars
    BY <2>6 DEF vars, IInv, Shown
  <2> QED
    BY <2>1, <2>2, <2>3, <2>4, <2>5, <2>6 DEF Next
<1> QED
  BY InitIInv, <1>1, PTL DEF Spec

\* While a wait sleeps, it has seen Herdr as it is, or an event that will wake it is coming.
THEOREM SleepsInformedHolds == Spec => []SleepsInformed
<1>1. IInv => SleepsInformed
  BY DEF IInv, Informed, SleepsInformed, Awaits, Coming, Topics, Shown
<1> QED
  BY <1>1, Invariant, PTL

\* Only a decision returns, and only a returned wait prompts.
LEMMA OthersKeepOn ==
  ASSUME IInv, [Next]_vars, NEW w \in Waits, ~Decides(w), ~Resolved(w)
  PROVE  wait'[w].at = wait[w].at \/ wait'[w].at \notin {"returned", "prompted"}
<1>0. wait \in [Waits -> Record] /\ wait[w] \in Record
  BY Known
<1>1. ASSUME NEW v \in Waits, NEW at \in {"rejected", "returned"}, wait' = Settle(v, at),
             v = w => at = "rejected"
      PROVE  wait'[w].at = wait[w].at \/ wait'[w].at = "rejected"
  BY <1>0, <1>1 DEF Settle, NewWait
<1>2. ASSUME NEW v \in Waits,
             Start(v) \/ LifecycleStarted(v) \/ Lists(v) \/ Listed(v) \/ Resubscribes(v) \/ Rejected(v)
      PROVE  wait'[w].at = wait[w].at \/ wait'[w].at \notin {"returned", "prompted"}
  <2>1. CASE Start(v) \/ Rejected(v)
    BY <1>0, <2>1 DEF Start, Rejected, Go, Record
  <2>2. CASE LifecycleStarted(v) \/ Lists(v)
    BY <1>0, <2>2 DEF LifecycleStarted, Lists, Record
  <2>3. CASE Listed(v)
    BY <1>0, <2>3 DEF Listed, Record
  <2>4. CASE Resubscribes(v)
    BY <1>0, <2>4 DEF Resubscribes, Record
  <2> QED
    BY <1>2, <2>1, <2>2, <2>3, <2>4
<1>3. ASSUME NEW v \in Waits, StatusesStarted(v) \/ ListsAgain(v)
      PROVE  wait'[w].at = wait[w].at \/ wait'[w].at = "top"
  <2>1. wait' = Again(v) \/ wait' = Subscribed(v)
    BY <1>3 DEF StatusesStarted, ListsAgain
  <2> QED
    BY <1>0, <2>1 DEF Subscribed, Again, Record
<1>4. ASSUME NEW v \in Waits, v # w, Decides(v) \/ Resolved(v)
      PROVE  wait'[w].at = wait[w].at
  BY <1>0, <1>4 DEF Decides, Resolved, Settle, Go
<1>5. ASSUME NEW v \in Waits, Foreign(v) \/ RequestFails(v) \/ SubscriptionLost(v) \/ BlockedTimeout(v)
      PROVE  wait'[w].at = wait[w].at \/ wait'[w].at = "rejected"
  BY <1>1, <1>5 DEF Foreign, RequestFails, SubscriptionLost, BlockedTimeout
<1>6. ASSUME NEW v \in Waits, NEW topic \in Topics, Changed(v, topic)
      PROVE  wait'[w].at = wait[w].at \/ wait'[w].at = "top"
  <2>1. Woken(wait[v]).at \in {wait[v].at, "top"} /\ DOMAIN Woken(wait[v]) = DOMAIN wait[v]
    BY <1>0 DEF Woken, Record
  <2>2. wait'[v].at = Woken(wait[v]).at
    BY <1>0, <1>6 DEF Changed, Woken, Record
  <2>3. v # w => wait'[w] = wait[w]
    BY <1>0, <1>6 DEF Changed
  <2> QED
    BY <2>1, <2>2, <2>3
<1>7. CASE Cancel \/ Works
  <2>1. CASE wait' = wait
    BY <2>1
  <2>2. CASE active # None /\ wait' = Settle(active, "rejected")
    BY <1>1, <2>2 DEF IInv
  <2> QED
    BY <1>7, <2>1, <2>2 DEF Cancel, Works, Aborted
<1>8. CASE (\E p \in Others, s \in Pane : PaneChanges(p, s)) \/ (\E s \in Caller : SelfChanges(s))
  BY <1>0, <1>8 DEF PaneChanges, SelfChanges, Told, Record
<1>9. CASE Compacts \/ Rests \/ UNCHANGED vars
  BY <1>9 DEF Compacts, Rests, vars
<1> QED
  BY <1>2, <1>3, <1>4, <1>5, <1>6, <1>7, <1>8, <1>9 DEF Next, Proceeds

\* A wait returns only on a quiet scope and a blocked Pi, as far as events have arrived, and
\* only the scheduled wait prompts, and only an idle Pi.
THEOREM PromptIsJustified == Spec => PromptJustified
<1>1. IInv /\ [Next]_vars =>
        \A w \in Waits :
          /\ wait[w].at = "listed" /\ wait'[w].at = "returned"
               => Coming(w) \/ (Quiet /\ self = "blocked")
          /\ wait[w].at = "returned" /\ wait'[w].at = "prompted"
               => active = w /\ ~busy
  <2> SUFFICES ASSUME IInv, [Next]_vars, NEW w \in Waits
               PROVE  /\ wait[w].at = "listed" /\ wait'[w].at = "returned"
                           => Coming(w) \/ (Quiet /\ self = "blocked")
                      /\ wait[w].at = "returned" /\ wait'[w].at = "prompted"
                           => active = w /\ ~busy
    OBVIOUS
  <2>1. ASSUME wait[w].at = "listed", wait'[w].at = "returned"
        PROVE  Coming(w) \/ (Quiet /\ self = "blocked")
    <3>1. Decides(w)
      BY <2>1, OthersKeepOn DEF Resolved
    <3>2. wait[w].panes.self = "blocked" /\ Pending(w) = {}
      BY <2>1, <3>1, Known DEF Decides, Settle, NewWait, Record
    <3>3. Coming(w) \/ wait[w].panes = Shown
      BY <2>1, <3>1, Known DEF Decides, Current, Informed, Awaits, Coming, Topics
    <3> QED
      BY <3>2, <3>3 DEF Pending, Shown, Quiet
  <2>2. ASSUME wait[w].at = "returned", wait'[w].at = "prompted"
        PROVE  active = w /\ ~busy
    <3>1. Resolved(w)
      BY <2>2, OthersKeepOn DEF Decides
    <3> QED
      BY <2>2, <3>1, Known DEF Resolved, Scheduled, Go, Record
  <2> QED
    BY <2>1, <2>2
<1> QED
  BY <1>1, Invariant, PTL DEF Spec, PromptJustified

-----------------------------------------------------------------------------
(* Segmentation *)

\* The least number of a set.
LEMMA LeastOf ==
  ASSUME NEW S, S \subseteq Nat, S # {}
  PROVE  Min(S) \in S /\ \A y \in S : Min(S) <= y
<1>1. PICK x \in S : \A y \in S : ~(<<y, x>> \in OpToRel(<, Nat))
  BY WFMin, NatLessThanWellFounded
<1>2. \A y \in S : x <= y
  <2> SUFFICES ASSUME NEW y \in S PROVE x <= y
    OBVIOUS
  <2>1. x \in Nat /\ y \in Nat
    OBVIOUS
  <2>2. ~(y < x)
    BY <1>1, <2>1 DEF OpToRel
  <2> QED
    BY <2>1, <2>2
<1> QED
  BY <1>2 DEF Min

\* A set that holds 0 and with a number below n the next one holds all numbers up to n.
LEMMA UpTo ==
  ASSUME NEW n \in Nat, NEW S, 0 \in S, \A k \in 0..(n - 1) : k \in S => k + 1 \in S
  PROVE  \A k \in 0..n : k \in S
<1> DEFINE Missing == {k \in 0..n : k \notin S}
<1> SUFFICES ASSUME Missing # {} PROVE FALSE
  OBVIOUS
<1>1. Min(Missing) \in Missing /\ \A y \in Missing : Min(Missing) <= y
  <2>1. Missing \subseteq Nat
    OBVIOUS
  <2> QED
    BY <2>1, LeastOf
<1> DEFINE m == Min(Missing)
<1> HIDE DEF m
<1>2. m \in 0..n /\ m \notin S /\ m # 0 /\ \A y \in Missing : m <= y
  BY <1>1 DEF m
<1>3. m - 1 \in 0..(n - 1) /\ m - 1 \in S
  BY <1>2
<1> QED
  BY <1>2, <1>3

\* The largest number of a set.
LEMMA LargestIs ==
  ASSUME NEW S, S \subseteq Nat, NEW m \in S, \A y \in S : y <= m
  PROVE  Max(S) = m
<1> DEFINE Top(x) == \A y \in S : x >= y
<1>1. \A x \in S : Top(x) <=> x = m
  <2> TAKE x \in S
  <2>1. x \in Nat /\ m \in Nat /\ x <= m
    OBVIOUS
  <2>2. Top(m)
    OBVIOUS
  <2>3. Top(x) => x >= m
    OBVIOUS
  <2> QED
    BY <2>1, <2>2, <2>3
<1>2. (CHOOSE x \in S : Top(x)) = m
  <2> HIDE DEF Top
  <2> QED
    BY <1>1
<1> QED
  BY <1>2 DEF Max

\* A nonempty set of numbers up to n holds its largest.
LEMMA LargestOf ==
  ASSUME NEW n \in Nat, NEW S, S \subseteq 0..n, S # {}
  PROVE  Max(S) \in S /\ \A y \in S : y <= Max(S)
<1> DEFINE Below == {n - x : x \in S}
<1>1. Below \subseteq Nat /\ Below # {}
  <2>1. \A x \in S : x \in Nat /\ x <= n
    OBVIOUS
  <2>2. \A x \in S : n - x \in Nat
    BY <2>1
  <2> QED
    BY <2>2, Zenon
<1>2. Min(Below) \in Below /\ \A e \in Below : Min(Below) <= e
  BY <1>1, LeastOf
<1>3. PICK x \in S : Min(Below) = n - x
  BY <1>2
<1>4. \A y \in S : y <= x
  <2> TAKE y \in S
  <2>1. n - y \in Below
    OBVIOUS
  <2>2. n - x <= n - y
    BY <1>2, <1>3, <2>1
  <2> QED
    BY <2>2
<1>5. S \subseteq Nat
  OBVIOUS
<1> QED
  BY <1>4, <1>5, LargestIs

\* What the function says that MapThenFoldSet recurs over, for a step given as a function.
FoldsBy(g, n, base, step) == \A s \in SUBSET (1..n) :
  g[s] = IF s = {} THEN base ELSE step[<<g[s \ {Max(s)}], Max(s)>>]

\* ... and one of places, the last of them.
LEMMA LargestPlace ==
  ASSUME NEW n \in Nat, NEW s \in SUBSET (1..n), s # {}
  PROVE  s \ {Max(s)} \in SUBSET (1..n) /\ Max(s) \in 1..n
<1>1. s \in SUBSET (0..n)
  OBVIOUS
<1> QED
  BY <1>1, LargestOf

\* The recursion of a fold over n places is well defined.
LEMMA FoldExists ==
  ASSUME NEW T, NEW base \in T, NEW n \in Nat, NEW step \in [T \X (1..n) -> T]
  PROVE  \E g \in [SUBSET (1..n) -> T] : FoldsBy(g, n, base, step)
<1> DEFINE Holds(k, g) == FoldsBy(g, k, base, step)
           S == {k \in 0..n : \E g \in [SUBSET (1..k) -> T] : Holds(k, g)}
<1>1. 0 \in S
  <2> DEFINE g == [s \in SUBSET (1..0) |-> base]
  <2>1. \A s \in SUBSET (1..0) : s = {}
    OBVIOUS
  <2>2. g \in [SUBSET (1..0) -> T] /\ Holds(0, g)
    BY <2>1 DEF FoldsBy
  <2>3. 0 \in 0..n
    OBVIOUS
  <2> QED
    BY <2>2, <2>3
<1>2. ASSUME NEW k \in 0..(n - 1), k \in S PROVE k + 1 \in S
  <2>1. PICK g \in [SUBSET (1..k) -> T] : Holds(k, g)
    BY <1>2
  <2> DEFINE m == k + 1
             h == [s \in SUBSET (1..m) |-> IF m \in s THEN step[<<g[s \ {m}], m>>] ELSE g[s]]
  <2>2. m \in 1..n /\ \A s \in SUBSET (1..m) : s \ {m} \in SUBSET (1..k) /\ (m \notin s => s \in SUBSET (1..k))
    OBVIOUS
  <2>3. h \in [SUBSET (1..m) -> T]
    BY <2>2
  <2>4. ASSUME NEW s \in SUBSET (1..m) PROVE h[s] = IF s = {} THEN base ELSE step[<<h[s \ {Max(s)}], Max(s)>>]
    <3>1. CASE m \notin s
      <4>1. s \in SUBSET (1..k) /\ h[s] = g[s]
        BY <2>2, <3>1
      <4>2. g[s] = IF s = {} THEN base ELSE step[<<g[s \ {Max(s)}], Max(s)>>]
        BY <2>1, <4>1 DEF FoldsBy
      <4>3. h[s \ {Max(s)}] = g[s \ {Max(s)}]
        BY <3>1, <4>1
      <4> QED
        BY <4>1, <4>2, <4>3
    <3>2. CASE m \in s
      <4>1. Max(s) = m
        <5>1. s \subseteq Nat /\ \A y \in s : y <= m
          OBVIOUS
        <5> QED
          BY <3>2, <5>1, LargestIs
      <4>2. h[s] = step[<<g[s \ {m}], m>>]
        BY <3>2
      <4>3. h[s \ {m}] = g[s \ {m}]
        BY <3>2
      <4> QED
        BY <3>2, <4>1, <4>2, <4>3
    <3> QED
      BY <3>1, <3>2
  <2>5. Holds(m, h)
    BY <2>4 DEF FoldsBy
  <2>6. m \in 0..n
    BY <2>2
  <2> HIDE DEF h, Holds, m
  <2> QED
    BY <2>3, <2>5, <2>6 DEF m
<1>3. n \in S
  <2> HIDE DEF S
  <2> QED
    BY <1>1, <1>2, UpTo
<1> QED
  BY <1>3

\* The first places of a sequence, and the place before them.
LEMMA FirstPlaces ==
  ASSUME NEW n \in Nat, NEW k \in 1..n
  PROVE  1..k \in SUBSET (1..n) /\ 1..k # {} /\ Max(1..k) = k /\ (1..k) \ {k} = 1..(k - 1)
<1>1. k \in 1..k /\ 1..k \subseteq Nat /\ \A y \in 1..k : y <= k
  OBVIOUS
<1>2. Max(1..k) = k
  BY <1>1, LargestIs
<1> QED
  BY <1>1, <1>2

\* The values of such a function on the first places, and the values they are in turn.
FoldsPlaces(it, n, T, base, step) ==
  /\ it[{}] = base
  /\ \A k \in 1..n : it[1..(k - 1)] \in T => it[1..k] = step[<<it[1..(k - 1)], k>>]

TakesOn(acc, n, base, step) == acc[0] = base /\ \A k \in 1..n : acc[k] = step[<<acc[k - 1], k>>]

Ends(it, n, T, base, step) == \E acc \in [0..n -> T] : TakesOn(acc, n, base, step) /\ it[1..n] = acc[n]

\* What a fold returns is the last of the values it takes on, one for each place.
LEMMA FoldTakes ==
  ASSUME NEW T, NEW base \in T, NEW n \in Nat, NEW step \in [T \X (1..n) -> T], NEW it,
         FoldsPlaces(it, n, T, base, step)
  PROVE  Ends(it, n, T, base, step)
<1> USE DEF FoldsPlaces
<1> DEFINE acc == [k \in 0..n |-> it[1..k]]
           S == {k \in 0..n : acc[k] \in T}
<1>1. acc[0] = base /\ acc[n] = it[1..n]
  <2>1. 1..0 = {} /\ 0 \in 0..n /\ n \in 0..n
    OBVIOUS
  <2> QED
    BY <2>1
<1>2. ASSUME NEW k \in 1..n, acc[k - 1] \in T PROVE acc[k] = step[<<acc[k - 1], k>>] /\ acc[k] \in T
  <2>1. k \in 0..n /\ k - 1 \in 0..n
    OBVIOUS
  <2>2. acc[k] = it[1..k] /\ acc[k - 1] = it[1..(k - 1)]
    BY <2>1
  <2> HIDE DEF acc
  <2>3. acc[k] = step[<<acc[k - 1], k>>]
    BY <1>2, <2>2
  <2> QED
    BY <1>2, <2>3
<1>3. \A k \in 0..n : k \in S
  <2>1. 0 \in S
    BY <1>1
  <2>2. ASSUME NEW k \in 0..(n - 1), k \in S PROVE k + 1 \in S
    <3>1. k + 1 \in 1..n /\ k + 1 \in 0..n /\ (k + 1) - 1 = k
      OBVIOUS
    <3> HIDE DEF acc
    <3>2. acc[k + 1] \in T
      BY <1>2, <2>2, <3>1
    <3> QED
      BY <3>1, <3>2
  <2> HIDE DEF S
  <2> QED
    BY <2>1, <2>2, UpTo
<1>4. \A k \in 0..n : acc[k] \in T
  BY <1>3
<1>5. acc \in [0..n -> T]
  BY <1>4
<1>6. \A k \in 1..n : acc[k] = step[<<acc[k - 1], k>>]
  <2> HIDE DEF acc
  <2> TAKE k \in 1..n
  <2>1. k - 1 \in 0..n
    OBVIOUS
  <2> QED
    BY <1>2, <1>4, <2>1
<1> HIDE DEF acc
<1> QED
  BY <1>1, <1>5, <1>6 DEF TakesOn, Ends

\* The weights of the first blocks of a sequence, one after the other.
LEMMA WeightSteps ==
  ASSUME NEW n \in Nat, NEW blocks, DOMAIN blocks = 1..n, \A k \in 1..n : blocks[k].weight \in Nat
  PROVE  \E sum \in [0..n -> Nat] :
           sum[0] = 0 /\ (\A k \in 1..n : sum[k] = sum[k - 1] + blocks[k].weight) /\ Weight(blocks) = sum[n]
<1> DEFINE step == [p \in Nat \X (1..n) |-> p[1] + blocks[p[2]].weight]
           Iterates(g) == g = [s \in SUBSET (1..n) |->
             IF s = {} THEN 0 ELSE g[s \ {Max(s)}] + blocks[Max(s)].weight]
           it == CHOOSE g : Iterates(g)
<1>1. step \in [Nat \X (1..n) -> Nat]
  OBVIOUS
<1>2. \A x \in Nat, k \in 1..n : step[<<x, k>>] = x + blocks[k].weight
  OBVIOUS
<1>3. Weight(blocks) = it[1..n]
  BY DEF Weight, FoldLeft, MapThenFoldSet
<1> HIDE DEF step, it
<1>4. \E g : Iterates(g)
  <2>1. PICK g \in [SUBSET (1..n) -> Nat] : FoldsBy(g, n, 0, step)
    <3>1. 0 \in Nat
      OBVIOUS
    <3> QED
      BY <1>1, <3>1, FoldExists
  <2>2. ASSUME NEW s \in SUBSET (1..n), s # {} PROVE g[s] = g[s \ {Max(s)}] + blocks[Max(s)].weight
    <3>1. s \ {Max(s)} \in SUBSET (1..n) /\ Max(s) \in 1..n
      BY <2>2, LargestPlace
    <3> QED
      BY <1>2, <2>1, <2>2, <3>1 DEF FoldsBy
  <2> QED
    BY <2>1, <2>2 DEF FoldsBy
<1>5. Iterates(it)
  <2> HIDE DEF Iterates
  <2> QED
    BY <1>4 DEF it
<1>6. it[{}] = 0
  BY <1>5
<1>7. ASSUME NEW k \in 1..n PROVE it[1..k] = it[1..(k - 1)] + blocks[k].weight
  <2>1. 1..k \in SUBSET (1..n) /\ 1..k # {} /\ Max(1..k) = k /\ (1..k) \ {k} = 1..(k - 1)
    BY FirstPlaces
  <2> QED
    BY <1>5, <2>1
<1>8. FoldsPlaces(it, n, Nat, 0, step)
  BY <1>2, <1>6, <1>7 DEF FoldsPlaces
<1>9. PICK acc \in [0..n -> Nat] : TakesOn(acc, n, 0, step) /\ it[1..n] = acc[n]
  <2>1. 0 \in Nat
    OBVIOUS
  <2>2. Ends(it, n, Nat, 0, step)
    BY <1>1, <1>8, <2>1, FoldTakes
  <2> QED
    BY <2>2 DEF Ends
<1>10. \A k \in 1..n : acc[k] = acc[k - 1] + blocks[k].weight
  <2> TAKE k \in 1..n
  <2>1. acc[k - 1] \in Nat
    BY <1>9
  <2>2. acc[k] = step[<<acc[k - 1], k>>]
    BY <1>9 DEF TakesOn
  <2> QED
    BY <1>2, <2>1, <2>2
<1> QED
  BY <1>3, <1>9, <1>10 DEF TakesOn

\* The weight of two sequences of blocks, one after the other.
LEMMA WeightOfBoth ==
  ASSUME NEW Blocks, \A b \in Blocks : b.weight \in Nat, NEW s \in Seq(Blocks), NEW t \in Seq(Blocks)
  PROVE  Weight(s \o t) = Weight(s) + Weight(t)
<1> DEFINE m == Len(s)
           n == Len(t)
<1>1. m \in Nat /\ n \in Nat /\ m + n \in Nat /\ DOMAIN s = 1..m /\ DOMAIN t = 1..n /\ DOMAIN (s \o t) = 1..(m + n)
  OBVIOUS
<1>2. /\ \A k \in 1..m : s[k] \in Blocks /\ (s \o t)[k] = s[k]
      /\ \A k \in 1..n : t[k] \in Blocks /\ (s \o t)[m + k] = t[k] /\ m + k \in 1..(m + n)
      /\ \A k \in 1..(m + n) : (s \o t)[k] \in Blocks
  OBVIOUS
<1> HIDE DEF m, n
<1>3. PICK a \in [0..m -> Nat] :
        a[0] = 0 /\ (\A k \in 1..m : a[k] = a[k - 1] + s[k].weight) /\ Weight(s) = a[m]
  BY <1>1, <1>2, WeightSteps
<1>4. PICK b \in [0..n -> Nat] :
        b[0] = 0 /\ (\A k \in 1..n : b[k] = b[k - 1] + t[k].weight) /\ Weight(t) = b[n]
  BY <1>1, <1>2, WeightSteps
<1>5. PICK c \in [0..(m + n) -> Nat] :
        c[0] = 0 /\ (\A k \in 1..(m + n) : c[k] = c[k - 1] + (s \o t)[k].weight) /\ Weight(s \o t) = c[m + n]
  BY <1>1, <1>2, WeightSteps
<1>6. c[m] = a[m]
  <2> DEFINE S == {k \in 0..m : c[k] = a[k]}
  <2>1. 0 \in S
    BY <1>1, <1>3, <1>5
  <2>2. ASSUME NEW k \in 0..(m - 1), k \in S PROVE k + 1 \in S
    <3>1. k + 1 \in 1..m /\ k + 1 \in 0..m /\ k + 1 \in 1..(m + n) /\ (k + 1) - 1 = k /\ c[k] = a[k]
      BY <1>1, <2>2
    <3>2. c[k + 1] = c[k] + s[k + 1].weight
      BY <1>2, <1>5, <3>1
    <3>3. a[k + 1] = a[k] + s[k + 1].weight
      BY <1>3, <3>1
    <3> QED
      BY <3>1, <3>2, <3>3
  <2> HIDE DEF S
  <2>3. \A k \in 0..m : k \in S
    BY <1>1, <2>1, <2>2, UpTo
  <2> QED
    BY <1>1, <2>3 DEF S
<1>7. c[m + n] = a[m] + b[n]
  <2> DEFINE S == {k \in 0..n : c[m + k] = a[m] + b[k]}
  <2>1. 0 \in S
    <3>1. m + 0 = m /\ a[m] \in Nat /\ a[m] + 0 = a[m] /\ 0 \in 0..n
      BY <1>1, <1>3
    <3> QED
      BY <1>4, <1>6, <3>1
  <2>2. ASSUME NEW k \in 0..(n - 1), k \in S PROVE k + 1 \in S
    <3>1. /\ k + 1 \in 1..n /\ k + 1 \in 0..n /\ m + (k + 1) \in 1..(m + n) /\ (k + 1) - 1 = k
          /\ (m + (k + 1)) - 1 = m + k /\ c[m + k] = a[m] + b[k] /\ k \in 0..n
      BY <1>1, <2>2
    <3>2. c[m + (k + 1)] = c[m + k] + t[k + 1].weight
      BY <1>2, <1>5, <3>1
    <3>3. b[k + 1] = b[k] + t[k + 1].weight
      BY <1>4, <3>1
    <3>4. a[m] \in Nat /\ b[k] \in Nat /\ t[k + 1].weight \in Nat
      BY <1>1, <1>2, <1>3, <1>4, <3>1
    <3>5. c[m + (k + 1)] = (a[m] + b[k]) + t[k + 1].weight
      BY <3>1, <3>2
    <3>6. c[m + (k + 1)] = a[m] + b[k + 1]
      BY <3>3, <3>4, <3>5
    <3> QED
      BY <3>1, <3>6
  <2> HIDE DEF S
  <2>3. \A k \in 0..n : k \in S
    BY <1>1, <2>1, <2>2, UpTo
  <2> QED
    BY <1>1, <2>3 DEF S
<1> QED
  BY <1>3, <1>4, <1>5, <1>7

\* The weight of a sequence of blocks is a number, and each block adds its own.
LEMMA WeightOf ==
  ASSUME NEW Blocks, \A b \in Blocks : b.weight \in Nat, NEW s \in Seq(Blocks)
  PROVE  /\ Weight(s) \in Nat
         /\ Weight(<<>>) = 0
         /\ \A b \in Blocks : Weight(Append(s, b)) = Weight(s) + b.weight
<1>1. ASSUME NEW q \in Seq(Blocks)
      PROVE  \E a \in [0..Len(q) -> Nat] :
               a[0] = 0 /\ (\A k \in 1..Len(q) : a[k] = a[k - 1] + q[k].weight) /\ Weight(q) = a[Len(q)]
  <2>1. Len(q) \in Nat /\ DOMAIN q = 1..Len(q) /\ \A k \in 1..Len(q) : q[k] \in Blocks
    OBVIOUS
  <2> QED
    BY <2>1, WeightSteps
<1>2. Weight(s) \in Nat
  BY <1>1
<1>3. Weight(<<>>) = 0
  <2>1. <<>> \in Seq(Blocks) /\ Len(<<>>) = 0
    OBVIOUS
  <2> QED
    BY <1>1, <2>1
<1>4. ASSUME NEW b \in Blocks PROVE Weight(Append(s, b)) = Weight(s) + b.weight
  <2>1. <<b>> \in Seq(Blocks) /\ Len(<<b>>) = 1 /\ <<b>>[1] = b /\ Append(s, b) = s \o <<b>>
    OBVIOUS
  <2>2. PICK a \in [0..1 -> Nat] : a[0] = 0 /\ (\A k \in 1..1 : a[k] = a[k - 1] + <<b>>[k].weight) /\ Weight(<<b>>) = a[1]
    BY <1>1, <2>1
  <2>3. Weight(<<b>>) = b.weight
    <3>1. 1 \in 1..1 /\ 1 - 1 = 0 /\ b.weight \in Nat
      OBVIOUS
    <3>2. a[1] = 0 + b.weight
      BY <2>1, <2>2, <3>1
    <3> QED
      BY <2>2, <3>1, <3>2
  <2> QED
    BY <2>1, <2>3, WeightOfBoth
<1> QED
  BY <1>2, <1>3, <1>4

\* The blocks that may stand on the lines of a document.
BlockKinds == {"fenced", "heading", "thematic", "table", "list", "quote", "indented", "prose"}
BlockOf(d) == {b \in [kind : BlockKinds, first : Nat, last : Nat, weight : 0..MaxBlockWeight] :
  /\ b.first \in Filled(d) /\ b.first <= b.last /\ b.last <= Len(d)
  /\ b.kind = "heading" => b.weight = 0}

\* The sentences of the lines of a block are counted.
LEMMA SentencesCounted ==
  ASSUME NEW d \in Seq(Line), NEW i \in 1..Len(d), NEW j \in i..Len(d)
  PROVE  sentenceCount(d, i, j) \in Nat
<1> DEFINE lines == SubSeq(d, i, j)
           n == Len(lines)
           step == [p \in Nat \X (1..n) |-> p[1] + lines[p[2]].ends]
           Iterates(g) == g = [s \in SUBSET (1..n) |->
             IF s = {} THEN 0 ELSE g[s \ {Max(s)}] + lines[Max(s)].ends]
           it == CHOOSE g : Iterates(g)
<1>1. n \in Nat /\ DOMAIN lines = 1..n /\ \A k \in 1..n : lines[k].ends \in Nat
  <2>1. lines \in Seq(Line)
    OBVIOUS
  <2> HIDE DEF lines
  <2>2. n \in Nat /\ DOMAIN lines = 1..n /\ \A k \in 1..n : lines[k] \in Line
    BY <2>1
  <2> QED
    BY <2>2 DEF Line
<1>2. sentenceCount(d, i, j) \in {0, Higher(1, it[1..n])}
  BY <1>1 DEF sentenceCount, FoldLeft, MapThenFoldSet
<1> HIDE DEF lines, n
<1>3. step \in [Nat \X (1..n) -> Nat]
  BY <1>1
<1>4. \A x \in Nat, k \in 1..n : step[<<x, k>>] = x + lines[k].ends
  OBVIOUS
<1> HIDE DEF step, it
<1>5. \E g : Iterates(g)
  <2>1. PICK g \in [SUBSET (1..n) -> Nat] : FoldsBy(g, n, 0, step)
    <3>1. 0 \in Nat
      OBVIOUS
    <3> QED
      BY <1>1, <1>3, <3>1, FoldExists
  <2>2. ASSUME NEW s \in SUBSET (1..n), s # {} PROVE g[s] = g[s \ {Max(s)}] + lines[Max(s)].ends
    <3>1. s \ {Max(s)} \in SUBSET (1..n) /\ Max(s) \in 1..n
      BY <1>1, <2>2, LargestPlace
    <3> QED
      BY <1>4, <2>1, <2>2, <3>1 DEF FoldsBy
  <2> QED
    BY <2>1, <2>2 DEF FoldsBy
<1>6. Iterates(it)
  <2> HIDE DEF Iterates
  <2> QED
    BY <1>5 DEF it
<1>7. it[{}] = 0
  BY <1>6
<1>8. ASSUME NEW k \in 1..n PROVE it[1..k] = it[1..(k - 1)] + lines[k].ends
  <2>1. 1..k \in SUBSET (1..n) /\ 1..k # {} /\ Max(1..k) = k /\ (1..k) \ {k} = 1..(k - 1)
    BY <1>1, FirstPlaces
  <2> QED
    BY <1>6, <2>1
<1>9. FoldsPlaces(it, n, Nat, 0, step)
  BY <1>4, <1>7, <1>8 DEF FoldsPlaces
<1>10. it[1..n] \in Nat
  <2>1. 0 \in Nat
    OBVIOUS
  <2>2. Ends(it, n, Nat, 0, step)
    BY <1>1, <1>3, <1>9, <2>1, FoldTakes
  <2> QED
    BY <1>1, <2>2 DEF Ends
<1> QED
  BY <1>2, <1>10 DEF Higher

\* A block ends on a line of the document, not before the one it starts on.
LEMMA LastLineOf ==
  ASSUME NEW d \in Seq(Line), NEW i \in 1..Len(d)
  PROVE  LastLine(d, i) \in i..Len(d)
<1> DEFINE S == {k \in (i + 1)..Len(d) : ~Continues(d, i, k)} \cup {Len(d) + 1}
<1>1. S \subseteq (i + 1)..(Len(d) + 1) /\ S # {} /\ Len(d) \in Nat
  OBVIOUS
<1>2. S \subseteq Nat
  BY <1>1
<1>3. Min(S) \in S
  <2> HIDE DEF S
  <2> QED
    BY <1>1, <1>2, LeastOf
<1>4. LastLine(d, i) = Min(S) - 1
  BY DEF LastLine
<1>5. Min(S) \in (i + 1)..(Len(d) + 1)
  BY <1>1, <1>3
<1> HIDE DEF S
<1> QED
  BY <1>4, <1>5

\* The number of lines of a block of a certain form.
LEMMA LinesCounted ==
  ASSUME NEW i \in Nat, NEW j \in Nat, NEW S, S \subseteq i..j
  PROVE  Cardinality(S) \in Nat
<1>1. IsFiniteSet(i..j)
  BY FS_Interval
<1>2. IsFiniteSet(S)
  BY <1>1, FS_Subset
<1> QED
  BY <1>2, FS_CardinalityType

\* The weight of a block is bounded, and a heading has none.
LEMMA BlockWeighs ==
  ASSUME NEW d \in Seq(Line), NEW i \in 1..Len(d), NEW j \in i..Len(d), NEW kind \in BlockKinds
  PROVE  blockWeight(d, kind, i, j) \in 0..MaxBlockWeight /\ (kind = "heading" => blockWeight(d, kind, i, j) = 0)
<1> DEFINE filled == Cardinality({k \in i..j : ~isBlank(d, k)})
           items == Cardinality({k \in i..j : isListStart(d, k)})
           count == sentenceCount(d, i, j)
<1>1. filled \in Nat /\ items \in Nat /\ count \in Nat
  <2>1. i \in Nat /\ j \in Nat
    OBVIOUS
  <2> QED
    BY <2>1, LinesCounted, SentencesCounted
<1>2. blockWeight(d, kind, i, j) =
        CASE kind = "heading" -> 0
          [] kind = "thematic" -> 1
          [] kind \in {"prose", "quote"} -> Lower(MaxBlockWeight, count)
          [] kind = "list" -> Lower(MaxBlockWeight, Higher(Higher(1, count), Quotient(items, 2)))
          [] kind \in {"fenced", "indented"} -> Lower(MaxBlockWeight, Quotient(filled, 4))
          [] kind = "table" -> Lower(MaxBlockWeight, Quotient(Higher(1, filled - 2), 2))
  BY DEF blockWeight
<1> HIDE DEF filled, items, count
<1>3. \A n \in Nat : Lower(MaxBlockWeight, n) \in 0..MaxBlockWeight
  BY DEF Lower, MaxBlockWeight
<1>4. \A n \in Nat : Quotient(n, 2) \in Nat /\ Quotient(n, 4) \in Nat
  BY DEF Quotient
<1>5. Higher(Higher(1, count), Quotient(items, 2)) \in Nat /\ Higher(1, filled - 2) \in Nat
  <2>1. \A m, n \in Nat : Higher(m, n) \in Nat
    BY DEF Higher
  <2>2. Quotient(items, 2) \in Nat
    BY <1>1, <1>4
  <2>3. Higher(1, filled - 2) \in Nat
    BY <1>1 DEF Higher
  <2> QED
    BY <1>1, <2>1, <2>2, <2>3
<1> DEFINE w == blockWeight(d, kind, i, j)
<1> HIDE DEF w
<1>6. CASE kind = "heading"
  <2>1. w = 0
    BY <1>2, <1>6 DEF w
  <2> QED
    BY <2>1 DEF w, MaxBlockWeight
<1>7. CASE kind = "thematic"
  <2>1. w = 1
    BY <1>2, <1>7 DEF w
  <2> QED
    BY <1>7, <2>1 DEF w, MaxBlockWeight
<1>8. CASE kind \in {"prose", "quote", "list", "fenced", "indented", "table"}
  <2>1. \E n \in Nat : w = Lower(MaxBlockWeight, n)
    <3>1. CASE kind \in {"prose", "quote"}
      BY <1>1, <1>2, <3>1 DEF w
    <3>2. CASE kind = "list"
      BY <1>5, <1>2, <3>2 DEF w
    <3>3. CASE kind \in {"fenced", "indented"}
      BY <1>1, <1>2, <1>4, <3>3 DEF w
    <3>4. CASE kind = "table"
      BY <1>2, <1>4, <1>5, <3>4 DEF w
    <3> QED
      BY <1>8, <3>1, <3>2, <3>3, <3>4
  <2>2. w \in 0..MaxBlockWeight
    BY <1>3, <2>1
  <2> QED
    BY <1>8, <2>2 DEF w
<1> QED
  BY <1>6, <1>7, <1>8 DEF BlockKinds

\* A block that starts on a line with text is one of the document's.
LEMMA BlockMade ==
  ASSUME NEW d \in Seq(Line), NEW i \in Filled(d)
  PROVE  /\ makeBlock(d, i) \in BlockOf(d)
         /\ makeBlock(d, i).first = i /\ makeBlock(d, i).last = LastLine(d, i)
         /\ LastLine(d, i) \in i..Len(d)
<1>1. i \in 1..Len(d)
  BY DEF Filled
<1>2. LastLine(d, i) \in i..Len(d)
  BY <1>1, LastLineOf
<1>3. KindAt(d, i) \in BlockKinds
  BY DEF KindAt, BlockKinds
<1>4. blockWeight(d, KindAt(d, i), i, LastLine(d, i)) \in 0..MaxBlockWeight
      /\ (KindAt(d, i) = "heading" => blockWeight(d, KindAt(d, i), i, LastLine(d, i)) = 0)
  <2> DEFINE k == KindAt(d, i)
             j == LastLine(d, i)
  <2> HIDE DEF k, j
  <2>1. k \in BlockKinds /\ j \in i..Len(d)
    BY <1>2, <1>3 DEF k, j
  <2> QED
    BY <1>1, <2>1, BlockWeighs DEF k, j
<1> DEFINE b == makeBlock(d, i)
<1>5. b = [kind |-> KindAt(d, i), first |-> i, last |-> LastLine(d, i),
           weight |-> blockWeight(d, KindAt(d, i), i, LastLine(d, i))]
  BY DEF makeBlock
<1> HIDE DEF b
<1>6. b.first = i /\ b.last = LastLine(d, i) /\ b.kind = KindAt(d, i)
  BY <1>5
<1>7. b \in [kind : BlockKinds, first : Nat, last : Nat, weight : 0..MaxBlockWeight]
  <2>1. LastLine(d, i) \in Nat /\ i \in Nat
    BY <1>1, <1>2
  <2> QED
    BY <1>3, <1>4, <1>5, <2>1
<1>8. b.kind = "heading" => b.weight = 0
  BY <1>4, <1>5
<1>9. b.first <= b.last /\ b.last <= Len(d)
  BY <1>2, <1>6
<1> QED
  BY <1>2, <1>6, <1>7, <1>8, <1>9 DEF b, BlockOf

\* What is parsed from line i on, where g says it of the later lines.
ParsedFrom(d, g, i) ==
  IF i > Len(d) THEN <<>>
  ELSE IF isBlank(d, i) THEN g[i + 1]
  ELSE <<makeBlock(d, i)>> \o g[LastLine(d, i) + 1]

Parses(d, g, lo) == \A i \in lo..(Len(d) + 1) : g[i] = ParsedFrom(d, g, i)

\* A line is blank, or a block of the document starts on it.
LEMMA LineRead ==
  ASSUME NEW d \in Seq(Line), NEW i \in 1..Len(d), ~isBlank(d, i)
  PROVE  /\ makeBlock(d, i) \in BlockOf(d) /\ LastLine(d, i) + 1 \in (i + 1)..(Len(d) + 1)
         /\ makeBlock(d, i).first = i /\ makeBlock(d, i).last = LastLine(d, i)
<1>1. i \in Filled(d)
  BY DEF Filled
<1>2. /\ makeBlock(d, i) \in BlockOf(d) /\ LastLine(d, i) \in i..Len(d)
      /\ makeBlock(d, i).first = i /\ makeBlock(d, i).last = LastLine(d, i)
  BY <1>1, BlockMade
<1> QED
  BY <1>2

\* The recursion over the lines of a document is well defined.
LEMMA ParseExists ==
  ASSUME NEW d \in Seq(Line)
  PROVE  \E g \in [1..(Len(d) + 1) -> Seq(BlockOf(d))] : Parses(d, g, 1)
<1> DEFINE N == Len(d)
           T == Seq(BlockOf(d))
           S == {k \in 0..N : \E g \in [(N + 1 - k)..(N + 1) -> T] : Parses(d, g, N + 1 - k)}
<1>1. N \in Nat
  OBVIOUS
<1>2. 0 \in S
  <2> DEFINE g == [i \in (N + 1 - 0)..(N + 1) |-> <<>>]
  <2>1. <<>> \in T
    OBVIOUS
  <2>2. g \in [(N + 1 - 0)..(N + 1) -> T]
    BY <2>1
  <2>3. Parses(d, g, N + 1 - 0)
    BY <1>1 DEF Parses, ParsedFrom
  <2>4. 0 \in 0..N
    BY <1>1
  <2> HIDE DEF g, N, T
  <2> QED
    BY <2>2, <2>3, <2>4
<1>3. ASSUME NEW k \in 0..(N - 1), k \in S PROVE k + 1 \in S
  <2> DEFINE lo == N - k
  <2>1. k + 1 \in 0..N /\ N + 1 - (k + 1) = lo /\ N + 1 - k = lo + 1 /\ lo \in 1..N
    BY <1>1
  <2>2. PICK g \in [(N + 1 - k)..(N + 1) -> T] : Parses(d, g, N + 1 - k)
    BY <1>3
  <2>3. g \in [(lo + 1)..(N + 1) -> T] /\ Parses(d, g, lo + 1)
    BY <2>1, <2>2
  <2> DEFINE h == [i \in lo..(N + 1) |-> IF i = lo THEN ParsedFrom(d, g, lo) ELSE g[i]]
  <2> HIDE DEF T, lo, S
  <2>4. ParsedFrom(d, g, lo) \in T
    <3>1. CASE isBlank(d, lo)
      <4>1. lo + 1 \in (lo + 1)..(N + 1) /\ ~(lo > N)
        BY <1>1, <2>1
      <4> QED
        BY <2>3, <3>1, <4>1 DEF ParsedFrom
    <3>2. CASE ~isBlank(d, lo)
      <4>1. /\ makeBlock(d, lo) \in BlockOf(d) /\ LastLine(d, lo) + 1 \in (lo + 1)..(N + 1)
            /\ ~(lo > N)
        BY <1>1, <2>1, <3>2, LineRead
      <4>2. g[LastLine(d, lo) + 1] \in T
        BY <2>3, <4>1
      <4>3. <<makeBlock(d, lo)>> \o g[LastLine(d, lo) + 1] \in T
        BY <4>1, <4>2 DEF T
      <4> QED
        BY <3>2, <4>1, <4>3 DEF ParsedFrom
    <3> QED
      BY <3>1, <3>2
  <2>5. h \in [lo..(N + 1) -> T]
    BY <1>1, <2>1, <2>3, <2>4
  <2>6. ASSUME NEW i \in lo..(N + 1) PROVE ParsedFrom(d, h, i) = ParsedFrom(d, g, i)
    <3>1. CASE i > N
      BY <3>1 DEF ParsedFrom
    <3>2. CASE ~(i > N) /\ isBlank(d, i)
      <4>1. i + 1 \in lo..(N + 1) /\ i + 1 # lo
        BY <1>1, <2>1, <3>2
      <4>2. h[i + 1] = g[i + 1]
        BY <4>1
      <4> QED
        BY <3>2, <4>2 DEF ParsedFrom
    <3>3. CASE ~(i > N) /\ ~isBlank(d, i)
      <4>1. i \in 1..N
        BY <1>1, <2>1, <3>3
      <4>2. LastLine(d, i) + 1 \in (i + 1)..(N + 1)
        BY <3>3, <4>1, LineRead
      <4>3. LastLine(d, i) + 1 \in lo..(N + 1) /\ LastLine(d, i) + 1 # lo
        BY <1>1, <2>1, <4>1, <4>2
      <4>4. h[LastLine(d, i) + 1] = g[LastLine(d, i) + 1]
        BY <4>3
      <4> HIDE DEF h
      <4> QED
        BY <3>3, <4>4 DEF ParsedFrom
    <3> QED
      BY <3>1, <3>2, <3>3
  <2>7. Parses(d, h, lo)
    <3> SUFFICES ASSUME NEW i \in lo..(N + 1) PROVE h[i] = ParsedFrom(d, h, i)
      BY DEF Parses
    <3>1. CASE i = lo
      BY <2>6, <3>1
    <3>2. CASE i # lo
      <4>1. i \in (lo + 1)..(N + 1)
        BY <1>1, <2>1, <3>2
      <4>2. h[i] = g[i] /\ g[i] = ParsedFrom(d, g, i)
        BY <2>3, <3>2, <4>1 DEF Parses
      <4> QED
        BY <2>6, <4>2
    <3> QED
      BY <3>1, <3>2
  <2> HIDE DEF h, N
  <2>8. h \in [(N + 1 - (k + 1))..(N + 1) -> T] /\ Parses(d, h, N + 1 - (k + 1))
    BY <2>1, <2>5, <2>7
  <2> QED
    BY <2>1, <2>8 DEF S
<1>4. N \in S
  <2> HIDE DEF S
  <2>1. \A k \in 0..N : k \in S
    BY <1>1, <1>2, <1>3, UpTo
  <2> QED
    BY <1>1, <2>1
<1>5. N + 1 - N = 1
  BY <1>1
<1>6. \E g \in [(N + 1 - N)..(N + 1) -> T] : Parses(d, g, N + 1 - N)
  BY <1>4
<1> QED
  BY <1>5, <1>6

\* The blocks from line i on: in the order of the document, and with all its lines with text.
CoversFrom(d, i, blocks) ==
  /\ blocks \in Seq(BlockOf(d))
  /\ \A u \in 1..Len(blocks) : blocks[u].first >= i
  /\ \A u \in 1..(Len(blocks) - 1) : blocks[u].last < blocks[u + 1].first
  /\ \A k \in Filled(d) : k >= i => \E u \in 1..Len(blocks) : k \in blocks[u].first..blocks[u].last

\* After the last line there is nothing to cover.
LEMMA CoversNone ==
  ASSUME NEW d \in Seq(Line)
  PROVE  CoversFrom(d, Len(d) + 1, <<>>)
BY DEF CoversFrom, Filled

\* A blank line needs no block.
LEMMA CoversBlank ==
  ASSUME NEW d \in Seq(Line), NEW i \in 1..Len(d), isBlank(d, i), NEW blocks, CoversFrom(d, i + 1, blocks)
  PROVE  CoversFrom(d, i, blocks)
<1>1. \A u \in 1..Len(blocks) : blocks[u].first \in Nat
  <2>1. blocks \in Seq(BlockOf(d))
    BY DEF CoversFrom
  <2>2. \A u \in 1..Len(blocks) : blocks[u] \in BlockOf(d)
    BY <2>1
  <2> QED
    BY <2>2 DEF BlockOf
<1>2. \A u \in 1..Len(blocks) : blocks[u].first >= i
  <2>1. \A u \in 1..Len(blocks) : blocks[u].first >= i + 1
    BY DEF CoversFrom
  <2> QED
    BY <1>1, <2>1
<1>3. \A k \in Filled(d) : k >= i => k >= i + 1
  <2>1. \A k \in Filled(d) : k \in Nat /\ k # i
    BY DEF Filled
  <2> QED
    BY <2>1
<1> QED
  BY <1>2, <1>3 DEF CoversFrom

\* The block that starts on a line covers it and the lines up to its last.
LEMMA CoversBlock ==
  ASSUME NEW d \in Seq(Line), NEW i \in 1..Len(d), ~isBlank(d, i), NEW blocks,
         CoversFrom(d, LastLine(d, i) + 1, blocks)
  PROVE  CoversFrom(d, i, <<makeBlock(d, i)>> \o blocks)
<1> DEFINE b == makeBlock(d, i)
           j == LastLine(d, i)
           all == <<b>> \o blocks
<1>1. b \in BlockOf(d) /\ j + 1 \in (i + 1)..(Len(d) + 1) /\ b.first = i /\ b.last = j
  BY LineRead
<1>2. /\ blocks \in Seq(BlockOf(d))
      /\ \A u \in 1..Len(blocks) : blocks[u].first >= j + 1
      /\ \A u \in 1..(Len(blocks) - 1) : blocks[u].last < blocks[u + 1].first
      /\ \A k \in Filled(d) : k >= j + 1 => \E u \in 1..Len(blocks) : k \in blocks[u].first..blocks[u].last
  BY DEF CoversFrom
<1> DEFINE n == Len(blocks)
<1> HIDE DEF b, j
<1>3. j \in i..Len(d) /\ i \in Nat /\ j \in Nat
  <2>1. j \in Int
    <3>1. LastLine(d, i) \in i..Len(d)
      BY LastLineOf
    <3> QED
      BY <3>1 DEF j
  <2> QED
    BY <1>1, <2>1
<1>4. /\ all \in Seq(BlockOf(d)) /\ Len(all) = n + 1 /\ n \in Nat /\ all[1] = b
      /\ \A u \in 1..n : all[u + 1] = blocks[u] /\ u + 1 \in 1..(n + 1)
  BY <1>1, <1>2
<1>5. \A u \in 1..n : blocks[u].first \in Nat /\ blocks[u] \in BlockOf(d)
  <2>1. \A u \in 1..n : blocks[u] \in BlockOf(d)
    BY <1>2
  <2> QED
    BY <2>1 DEF BlockOf
<1> HIDE DEF all, n
<1>6. ASSUME NEW u \in 1..(n + 1) PROVE u = 1 \/ (u - 1 \in 1..n /\ (u - 1) + 1 = u)
  BY <1>4
<1>7. ASSUME NEW u \in 1..(n + 1) PROVE all[u].first >= i
  <2>1. CASE u = 1
    BY <1>1, <1>3, <1>4, <2>1
  <2>2. CASE u # 1
    <3>1. u - 1 \in 1..n /\ all[u] = blocks[u - 1]
      BY <1>4, <1>6, <2>2
    <3>2. blocks[u - 1].first >= j + 1 /\ blocks[u - 1].first \in Nat
      BY <1>2, <1>5, <3>1 DEF n
    <3> QED
      BY <1>3, <3>1, <3>2
  <2> QED
    BY <2>1, <2>2
<1>8. ASSUME NEW u \in 1..n PROVE all[u].last < all[u + 1].first
  <2>1. CASE u = 1
    <3>1. all[u] = b /\ all[u + 1] = blocks[1] /\ 1 \in 1..n
      BY <1>4, <2>1
    <3>2. blocks[1].first >= j + 1 /\ blocks[1].first \in Nat
      BY <1>2, <1>5, <3>1 DEF n
    <3> QED
      BY <1>1, <1>3, <3>1, <3>2
  <2>2. CASE u # 1
    <3>1. u - 1 \in 1..n /\ (u - 1) + 1 = u /\ u - 1 \in 1..(n - 1)
      BY <1>4, <2>2
    <3>2. all[u] = blocks[u - 1] /\ all[u + 1] = blocks[u]
      BY <1>4, <3>1
    <3>3. blocks[u - 1].last < blocks[u].first
      BY <1>2, <3>1 DEF n
    <3> QED
      BY <3>2, <3>3
  <2> QED
    BY <2>1, <2>2
<1>9. ASSUME NEW k \in Filled(d), k >= i PROVE \E u \in 1..(n + 1) : k \in all[u].first..all[u].last
  <2>1. k \in Nat
    BY DEF Filled
  <2>2. CASE k <= j
    <3>1. 1 \in 1..(n + 1) /\ k \in all[1].first..all[1].last
      BY <1>1, <1>3, <1>4, <1>9, <2>1, <2>2
    <3> QED
      BY <3>1
  <2>3. CASE ~(k <= j)
    <3>1. k >= j + 1
      BY <1>3, <2>1, <2>3
    <3>2. PICK u \in 1..n : k \in blocks[u].first..blocks[u].last
      BY <1>2, <3>1 DEF n
    <3>3. u + 1 \in 1..(n + 1) /\ all[u + 1] = blocks[u]
      BY <1>4
    <3> QED
      BY <3>2, <3>3
  <2> QED
    BY <2>2, <2>3
<1>10. (n + 1) - 1 = n
  BY <1>4
<1>11. CoversFrom(d, i, all)
  BY <1>4, <1>7, <1>8, <1>9, <1>10 DEF CoversFrom
<1> QED
  BY <1>11 DEF all, b

\* The blocks that a document is parsed into stand in its order and have all its text.
LEMMA BlocksCover ==
  ASSUME NEW d \in Seq(Line)
  PROVE  CoversFrom(d, 1, parseBlocks(d))
<1> DEFINE N == Len(d)
           IsFrom(g) == g = [i \in 1..(N + 1) |->
             IF i > Len(d) THEN <<>>
             ELSE IF isBlank(d, i) THEN g[i + 1]
             ELSE <<makeBlock(d, i)>> \o g[LastLine(d, i) + 1]]
           from == CHOOSE g : IsFrom(g)
<1>1. N \in Nat
  OBVIOUS
<1>2. parseBlocks(d) = from[1]
  BY DEF parseBlocks
<1> HIDE DEF from
<1>3. \E g : IsFrom(g)
  <2>1. PICK g \in [1..(N + 1) -> Seq(BlockOf(d))] : Parses(d, g, 1)
    BY ParseExists
  <2>2. g = [i \in 1..(N + 1) |-> ParsedFrom(d, g, i)]
    BY <2>1 DEF Parses
  <2>3. IsFrom(g)
    BY <2>2 DEF ParsedFrom
  <2> HIDE DEF IsFrom
  <2> QED
    BY <2>3
<1>4. IsFrom(from)
  <2> HIDE DEF IsFrom
  <2> QED
    BY <1>3 DEF from
<1>5. \A i \in 1..(N + 1) : from[i] = ParsedFrom(d, from, i)
  BY <1>4 DEF ParsedFrom
<1> HIDE DEF IsFrom
<1> DEFINE Bad == {i \in 1..(N + 1) : ~CoversFrom(d, i, from[i])}
<1>6. Bad = {}
  <2> SUFFICES ASSUME Bad # {} PROVE FALSE
    OBVIOUS
  <2> DEFINE m == Max(Bad)
  <2>1. m \in Bad /\ \A y \in Bad : y <= m
    <3>1. Bad \subseteq 0..(N + 1) /\ N + 1 \in Nat
      BY <1>1
    <3> HIDE DEF Bad
    <3> QED
      BY <3>1, LargestOf
  <2> HIDE DEF m
  <2>2. m \in 1..(N + 1) /\ ~CoversFrom(d, m, from[m]) /\ from[m] = ParsedFrom(d, from, m)
    BY <1>5, <2>1
  <2>3. ASSUME NEW i \in (m + 1)..(N + 1) PROVE CoversFrom(d, i, from[i])
    <3>1. i \in 1..(N + 1) /\ ~(i <= m)
      BY <1>1, <2>2
    <3> QED
      BY <2>1, <3>1
  <2> HIDE DEF Bad
  <2>4. CASE m > N
    <3>1. m = N + 1 /\ from[m] = <<>>
      BY <1>1, <2>2, <2>4 DEF ParsedFrom
    <3> QED
      BY <2>2, <3>1, CoversNone
  <2>5. CASE ~(m > N) /\ isBlank(d, m)
    <3>1. from[m] = from[m + 1] /\ m \in 1..N /\ m + 1 \in (m + 1)..(N + 1)
      BY <1>1, <2>2, <2>5 DEF ParsedFrom
    <3>2. CoversFrom(d, m + 1, from[m])
      BY <2>3, <3>1
    <3> QED
      BY <2>2, <2>5, <3>1, <3>2, CoversBlank
  <2>6. CASE ~(m > N) /\ ~isBlank(d, m)
    <3>1. from[m] = <<makeBlock(d, m)>> \o from[LastLine(d, m) + 1] /\ m \in 1..N
      BY <1>1, <2>2, <2>6 DEF ParsedFrom
    <3>2. LastLine(d, m) + 1 \in (m + 1)..(N + 1)
      BY <2>6, <3>1, LineRead
    <3>3. CoversFrom(d, LastLine(d, m) + 1, from[LastLine(d, m) + 1])
      BY <2>3, <3>2
    <3> QED
      BY <2>2, <2>6, <3>1, <3>3, CoversBlock
  <2> QED
    BY <2>4, <2>5, <2>6
<1> QED
  <2>1. 1 \in 1..(N + 1)
    BY <1>1
  <2> QED
    BY <1>2, <1>6, <2>1

\* Chunks of blocks of a set: those that are full, and the one being filled.
Chunks(B) == [full : Seq(Seq(B)), current : Seq(B)]
NoChunks == [full |-> <<>>, current |-> <<>>]

\* What flush does: a current chunk that is not empty becomes a full one.
LEMMA FlushTyped ==
  ASSUME NEW B, NEW c \in Chunks(B)
  PROVE  /\ flush(c) \in Chunks(B)
         /\ c.current # <<>> => flush(c) = [full |-> Append(c.full, c.current), current |-> <<>>]
         /\ c.current = <<>> => flush(c) = c
<1>1. c.full \in Seq(Seq(B)) /\ c.current \in Seq(B)
  BY DEF Chunks
<1>2. Append(c.full, c.current) \in Seq(Seq(B))
  <2> DEFINE T == Seq(B)
  <2> HIDE DEF T
  <2>1. c.full \in Seq(T) /\ c.current \in T
    BY <1>1 DEF T
  <2>2. Append(c.full, c.current) \in Seq(T)
    BY <2>1
  <2> QED
    BY <2>2 DEF T
<1>3. <<>> \in Seq(B)
  OBVIOUS
<1> QED
  BY <1>2, <1>3 DEF flush, Chunks

\* A block that is put joins the current chunk.
LEMMA PutTyped ==
  ASSUME NEW B, NEW c \in Chunks(B), NEW b \in B
  PROVE  /\ Put(c, b) \in Chunks(B)
         /\ Put(c, b).full = c.full /\ Put(c, b).current = Append(c.current, b)
<1>1. c.full \in Seq(Seq(B)) /\ c.current \in Seq(B)
  BY DEF Chunks
<1>2. Append(c.current, b) \in Seq(B)
  BY <1>1
<1> QED
  BY <1>2 DEF Put, Chunks

\* ... and chunks stay chunks when they are flushed on a condition,
LEMMA FlushIfTyped ==
  ASSUME NEW B, NEW c \in Chunks(B), NEW condition
  PROVE  FlushIf(condition, c) \in Chunks(B)
BY FlushTyped DEF FlushIf

\* ... and in each step of the fold.
LEMMA ChunkedTyped ==
  ASSUME NEW B, NEW c \in Chunks(B), NEW b \in B
  PROVE  Chunked(c, b) \in Chunks(B)
<1> DEFINE weight == Weight(c.current)
           room == FlushIf(weight >= MinUnitWeight /\ weight + b.weight > MaxUnitWeight, c)
           filled == Put(room, b)
           kept == FlushIf(weight >= MinUnitWeight, c)
<1>1. room \in Chunks(B) /\ kept \in Chunks(B)
  BY FlushIfTyped
<1>2. Chunked(c, b) = IF b.kind = "heading" THEN Put(kept, b)
                      ELSE FlushIf(Weight(filled.current) >= MaxUnitWeight, filled)
  BY DEF Chunked
<1> HIDE DEF room, kept
<1>3. filled \in Chunks(B) /\ Put(kept, b) \in Chunks(B)
  BY <1>1, PutTyped
<1> HIDE DEF filled
<1>4. FlushIf(Weight(filled.current) >= MaxUnitWeight, filled) \in Chunks(B)
  BY <1>3, FlushIfTyped
<1> QED
  BY <1>2, <1>3, <1>4

\* What acc takes on, block after block.
ChunksInTurn(acc, blocks) ==
  acc[0] = NoChunks /\ \A k \in 1..Len(blocks) : acc[k] = Chunked(acc[k - 1], blocks[k])

\* The chunks that the fold over a document's blocks takes on.
LEMMA ChunkSteps ==
  ASSUME NEW B, NEW blocks \in Seq(B)
  PROVE  \E acc \in [0..Len(blocks) -> Chunks(B)] :
           ChunksInTurn(acc, blocks) /\ FoldLeft(Chunked, NoChunks, blocks) = acc[Len(blocks)]
<1> DEFINE n == Len(blocks)
           T == Chunks(B)
           step == [p \in T \X (1..n) |-> Chunked(p[1], blocks[p[2]])]
           Iterates(g) == g = [s \in SUBSET (1..n) |->
             IF s = {} THEN NoChunks ELSE Chunked(g[s \ {Max(s)}], blocks[Max(s)])]
           it == CHOOSE g : Iterates(g)
<1>1. n \in Nat /\ DOMAIN blocks = 1..n /\ \A k \in 1..n : blocks[k] \in B
  OBVIOUS
<1>2. NoChunks \in T
  <2>1. <<>> \in Seq(B) /\ <<>> \in Seq(Seq(B))
    OBVIOUS
  <2> QED
    BY <2>1 DEF Chunks, NoChunks
<1>3. FoldLeft(Chunked, NoChunks, blocks) = it[1..n]
  BY <1>1 DEF FoldLeft, MapThenFoldSet
<1> HIDE DEF n, T
<1>4. step \in [T \X (1..n) -> T]
  <2>1. \A c \in T, k \in 1..n : Chunked(c, blocks[k]) \in T
    BY <1>1, ChunkedTyped DEF T
  <2> QED
    BY <2>1
<1>5. \A c \in T, k \in 1..n : step[<<c, k>>] = Chunked(c, blocks[k])
  OBVIOUS
<1> HIDE DEF step, it
<1>6. \E g : Iterates(g)
  <2>1. PICK g \in [SUBSET (1..n) -> T] : FoldsBy(g, n, NoChunks, step)
    BY <1>1, <1>2, <1>4, FoldExists
  <2>2. ASSUME NEW s \in SUBSET (1..n), s # {} PROVE g[s] = Chunked(g[s \ {Max(s)}], blocks[Max(s)])
    <3>1. s \ {Max(s)} \in SUBSET (1..n) /\ Max(s) \in 1..n
      BY <1>1, <2>2, LargestPlace
    <3> QED
      BY <1>5, <2>1, <2>2, <3>1 DEF FoldsBy
  <2> QED
    BY <2>1, <2>2 DEF FoldsBy
<1>7. Iterates(it)
  <2> HIDE DEF Iterates
  <2> QED
    BY <1>6 DEF it
<1>8. it[{}] = NoChunks
  BY <1>7
<1>9. ASSUME NEW k \in 1..n PROVE it[1..k] = Chunked(it[1..(k - 1)], blocks[k])
  <2>1. 1..k \in SUBSET (1..n) /\ 1..k # {} /\ Max(1..k) = k /\ (1..k) \ {k} = 1..(k - 1)
    BY <1>1, FirstPlaces
  <2> QED
    BY <1>7, <2>1
<1>10. FoldsPlaces(it, n, T, NoChunks, step)
  BY <1>5, <1>8, <1>9 DEF FoldsPlaces
<1>11. PICK acc \in [0..n -> T] : TakesOn(acc, n, NoChunks, step) /\ it[1..n] = acc[n]
  <2>1. Ends(it, n, T, NoChunks, step)
    BY <1>1, <1>2, <1>4, <1>10, FoldTakes
  <2> QED
    BY <2>1 DEF Ends
<1>12. \A k \in 1..n : acc[k] = Chunked(acc[k - 1], blocks[k])
  <2> TAKE k \in 1..n
  <2>1. k - 1 \in 0..n
    BY <1>1
  <2>2. acc[k - 1] \in T
    BY <1>11, <2>1
  <2>3. acc[k] = step[<<acc[k - 1], k>>]
    BY <1>11 DEF TakesOn
  <2> QED
    BY <1>5, <2>2, <2>3
<1>13. acc[0] = NoChunks
  BY <1>11 DEF TakesOn
<1> QED
  BY <1>3, <1>11, <1>12, <1>13 DEF ChunksInTurn, n, T

\* Chunks that are the blocks cut in order: the u-th ends with block cut[u], none is empty.
CutBy(blocks, chunks, cut, k) ==
  /\ cut \in [0..Len(chunks) -> 0..k] /\ cut[0] = 0
  /\ \A u \in 1..Len(chunks) :
       cut[u - 1] < cut[u] /\ chunks[u] = SubSeq(blocks, cut[u - 1] + 1, cut[u])

\* The full chunks and the current one are the first k blocks.
HoldsFirst(blocks, c, k) ==
  \E cut : CutBy(blocks, c.full, cut, k) /\ c.current = SubSeq(blocks, cut[Len(c.full)] + 1, k)

\* One more chunk, up to block k.
LEMMA CutOnce ==
  ASSUME NEW B, NEW blocks \in Seq(B), NEW k \in 0..Len(blocks), NEW chunks \in Seq(Seq(B)), NEW cut,
         CutBy(blocks, chunks, cut, k), cut[Len(chunks)] < k
  PROVE  \E more : /\ CutBy(blocks, Append(chunks, SubSeq(blocks, cut[Len(chunks)] + 1, k)), more, k)
                   /\ more[Len(chunks) + 1] = k
<1> DEFINE m == Len(chunks)
           q == SubSeq(blocks, cut[m] + 1, k)
           longer == Append(chunks, q)
           more == [u \in 0..(m + 1) |-> IF u = m + 1 THEN k ELSE cut[u]]
<1>1. m \in Nat /\ k \in Nat
  OBVIOUS
<1>2. /\ cut \in [0..m -> 0..k] /\ cut[0] = 0
      /\ \A u \in 1..m : cut[u - 1] < cut[u] /\ chunks[u] = SubSeq(blocks, cut[u - 1] + 1, cut[u])
  BY DEF CutBy
<1>3. cut[m] \in 0..k
  BY <1>1, <1>2
<1>4. q \in Seq(B)
  BY <1>3
<1> HIDE DEF q
<1>5. /\ Len(longer) = m + 1 /\ longer[m + 1] = q
      /\ \A u \in 1..m : longer[u] = chunks[u]
  <2> DEFINE T == Seq(B)
  <2> HIDE DEF T
  <2>1. chunks \in Seq(T) /\ q \in T
    BY <1>4 DEF T
  <2> QED
    BY <2>1
<1> HIDE DEF longer, m
<1>6. more \in [0..(m + 1) -> 0..k]
  <2>1. \A u \in 0..(m + 1) : u # m + 1 => u \in 0..m
    BY <1>1
  <2>2. k \in 0..k
    BY <1>1
  <2> QED
    BY <1>2, <2>1, <2>2
<1>7. more[0] = 0
  BY <1>1, <1>2
<1>8. ASSUME NEW u \in 1..(m + 1)
      PROVE  more[u - 1] < more[u] /\ longer[u] = SubSeq(blocks, more[u - 1] + 1, more[u])
  <2>1. CASE u = m + 1
    <3>1. more[u] = k /\ more[u - 1] = cut[m]
      BY <1>1, <2>1
    <3>2. longer[u] = q
      BY <1>5, <2>1
    <3> QED
      BY <3>1, <3>2 DEF q, m
  <2>2. CASE u # m + 1
    <3>1. u \in 1..m /\ more[u] = cut[u] /\ more[u - 1] = cut[u - 1]
      BY <1>1, <2>2
    <3> QED
      BY <1>2, <1>5, <3>1
  <2> QED
    BY <2>1, <2>2
<1>9. more[m + 1] = k
  BY <1>1
<1> HIDE DEF more
<1>10. CutBy(blocks, longer, more, k)
  BY <1>5, <1>6, <1>7, <1>8 DEF CutBy
<1> QED
  BY <1>9, <1>10 DEF longer, q, m

\* Before the first block nothing is held.
LEMMA NoneHeld ==
  ASSUME NEW B, NEW blocks \in Seq(B)
  PROVE  HoldsFirst(blocks, NoChunks, 0)
<1> DEFINE cut == [u \in 0..0 |-> 0]
<1>1. NoChunks.full = <<>> /\ NoChunks.current = <<>> /\ Len(<<>>) = 0
  BY DEF NoChunks
<1>2. CutBy(blocks, <<>>, cut, 0)
  BY DEF CutBy
<1>3. SubSeq(blocks, cut[0] + 1, 0) = <<>>
  OBVIOUS
<1> HIDE DEF cut
<1> QED
  BY <1>1, <1>2, <1>3 DEF HoldsFirst

\* Nothing is lost and nothing moved when the current chunk becomes a full one.
LEMMA FlushHolds ==
  ASSUME NEW B, NEW blocks \in Seq(B), NEW k \in 0..Len(blocks), NEW c \in Chunks(B),
         HoldsFirst(blocks, c, k)
  PROVE  HoldsFirst(blocks, flush(c), k)
<1>1. CASE c.current = <<>>
  BY <1>1, FlushTyped
<1>2. CASE c.current # <<>>
  <2>1. PICK cut : CutBy(blocks, c.full, cut, k) /\ c.current = SubSeq(blocks, cut[Len(c.full)] + 1, k)
    BY DEF HoldsFirst
  <2> DEFINE m == Len(c.full)
  <2>2. c.full \in Seq(Seq(B)) /\ m \in Nat
    BY DEF Chunks
  <2>3. cut[m] \in 0..k
    <3>1. cut \in [0..m -> 0..k]
      BY <2>1 DEF CutBy
    <3>2. m \in 0..m
      BY <2>2
    <3> QED
      BY <3>1, <3>2, Zenon
  <2>4. cut[m] < k
    <3>1. CASE cut[m] = k
      <4>1. k < cut[m] + 1 /\ k \in Int /\ cut[m] + 1 \in Int
        BY <2>3, <3>1
      <4>2. SubSeq(blocks, cut[m] + 1, k) = <<>>
        BY <4>1, SubSeqEmpty
      <4> QED
        BY <1>2, <2>1, <4>2
    <3> QED
      BY <2>3, <3>1
  <2>5. PICK more : CutBy(blocks, Append(c.full, c.current), more, k) /\ more[m + 1] = k
    <3> DEFINE full == c.full
    <3>1. full \in Seq(Seq(B)) /\ CutBy(blocks, full, cut, k) /\ cut[Len(full)] < k
      BY <2>1, <2>2, <2>4
    <3> HIDE DEF full
    <3>2. \E more : /\ CutBy(blocks, Append(full, SubSeq(blocks, cut[Len(full)] + 1, k)), more, k)
                    /\ more[Len(full) + 1] = k
      BY <3>1, CutOnce
    <3>3. c.current = SubSeq(blocks, cut[Len(full)] + 1, k)
      BY <2>1 DEF full
    <3> QED
      BY <3>2, <3>3 DEF full
  <2>6. /\ flush(c) = [full |-> Append(c.full, c.current), current |-> <<>>]
        /\ Len(Append(c.full, c.current)) = m + 1
    <3>1. Len(Append(c.full, c.current)) = m + 1
      BY <2>2
    <3> QED
      BY <1>2, <3>1, FlushTyped
  <2>7. SubSeq(blocks, more[m + 1] + 1, k) = <<>>
    BY <2>5
  <2> HIDE DEF m
  <2> QED
    BY <2>5, <2>6, <2>7 DEF HoldsFirst
<1> QED
  BY <1>1, <1>2

\* The next block joins the current chunk.
LEMMA PutHolds ==
  ASSUME NEW B, NEW blocks \in Seq(B), NEW k \in 1..Len(blocks), NEW c \in Chunks(B),
         HoldsFirst(blocks, c, k - 1)
  PROVE  HoldsFirst(blocks, Put(c, blocks[k]), k)
<1>1. PICK cut : CutBy(blocks, c.full, cut, k - 1) /\ c.current = SubSeq(blocks, cut[Len(c.full)] + 1, k - 1)
  BY DEF HoldsFirst
<1> DEFINE m == Len(c.full)
<1>2. c.full \in Seq(Seq(B)) /\ m \in Nat
  BY DEF Chunks
<1>3. cut[m] \in 0..(k - 1) /\ cut \in [0..m -> 0..k]
  <2>1. cut \in [0..m -> 0..(k - 1)] /\ m \in 0..m
    BY <1>1, <1>2 DEF CutBy
  <2> QED
    BY <2>1
<1>4. CutBy(blocks, c.full, cut, k)
  BY <1>1, <1>3 DEF CutBy
<1>5. /\ blocks[k] \in B
      /\ Append(SubSeq(blocks, cut[m] + 1, k - 1), blocks[k]) = SubSeq(blocks, cut[m] + 1, k)
  <2> DEFINE lo == cut[m] + 1
  <2>1. lo \in 1..Len(blocks) /\ k \in lo..Len(blocks) /\ blocks[k] \in B
    BY <1>3
  <2> HIDE DEF lo
  <2>2. SubSeq(blocks, lo, k) = SubSeq(blocks, lo, k - 1) \o <<blocks[k]>>
    BY <2>1, SubSeqRecursiveSecond
  <2>3. SubSeq(blocks, lo, k - 1) \in Seq(B)
    BY <2>1
  <2>4. SubSeq(blocks, lo, k - 1) \o <<blocks[k]>> = Append(SubSeq(blocks, lo, k - 1), blocks[k])
    BY <2>1, <2>3
  <2> QED
    BY <2>1, <2>2, <2>4 DEF lo
<1>6. Put(c, blocks[k]).full = c.full /\ Put(c, blocks[k]).current = Append(c.current, blocks[k])
  BY <1>5, PutTyped
<1> QED
  BY <1>1, <1>4, <1>5, <1>6 DEF HoldsFirst

\* The last block of a chunk is a heading.
EndsWithHeading(chunk) == chunk # <<>> /\ chunk[Len(chunk)].kind = "heading"

\* The weight that a chunk may have before a light last chunk joins it.
HeaviestChunk == MinUnitWeight - 1 + MaxBlockWeight

\* Blocks are no heavier than the largest block, and headings weigh nothing.
Weighed(B) == \A b \in B : b.weight \in 0..MaxBlockWeight /\ (b.kind = "heading" => b.weight = 0)

\* Full chunks are of the size of a unit and do not end with a heading; the current one is
\* not yet full, and light as long as it ends with a heading.
Sized(c) ==
  /\ \A u \in 1..Len(c.full) :
       Weight(c.full[u]) \in MinUnitWeight..HeaviestChunk /\ ~EndsWithHeading(c.full[u])
  /\ Weight(c.current) \in 0..(MaxUnitWeight - 1)
  /\ EndsWithHeading(c.current) => Weight(c.current) < MinUnitWeight

\* A chunk that is flushed was of that size.
LEMMA FlushSized ==
  ASSUME NEW B, NEW c \in Chunks(B), Weighed(B),
         \A u \in 1..Len(c.full) :
           Weight(c.full[u]) \in MinUnitWeight..HeaviestChunk /\ ~EndsWithHeading(c.full[u]),
         Weight(c.current) \in MinUnitWeight..HeaviestChunk, ~EndsWithHeading(c.current)
  PROVE  Sized(flush(c)) /\ flush(c).current = <<>> /\ Weight(flush(c).current) = 0
<1>1. c.full \in Seq(Seq(B)) /\ c.current \in Seq(B)
  BY DEF Chunks
<1>2. Weight(<<>>) = 0
  <2>1. \A b \in B : b.weight \in Nat
    BY DEF Weighed, MaxBlockWeight
  <2> QED
    BY <1>1, <2>1, WeightOf
<1>3. c.current # <<>>
  BY <1>2 DEF MinUnitWeight
<1>4. flush(c) = [full |-> Append(c.full, c.current), current |-> <<>>]
  BY <1>3, FlushTyped
<1> DEFINE m == Len(c.full)
           longer == Append(c.full, c.current)
<1>5. m \in Nat /\ Len(longer) = m + 1 /\ longer[m + 1] = c.current /\ \A u \in 1..m : longer[u] = c.full[u]
  <2> DEFINE T == Seq(B)
  <2> HIDE DEF T
  <2>1. c.full \in Seq(T) /\ c.current \in T
    BY <1>1 DEF T
  <2> QED
    BY <2>1
<1>6. flush(c).full = longer /\ flush(c).current = <<>>
  BY <1>4
<1> HIDE DEF longer
<1>7. ASSUME NEW u \in 1..(m + 1)
      PROVE  Weight(longer[u]) \in MinUnitWeight..HeaviestChunk /\ ~EndsWithHeading(longer[u])
  <2>1. u \in 1..m \/ u = m + 1
    BY <1>5
  <2> QED
    BY <1>5, <2>1
<1>8. ~EndsWithHeading(<<>>)
  BY DEF EndsWithHeading
<1> HIDE DEF m
<1> QED
  BY <1>2, <1>5, <1>6, <1>7, <1>8 DEF Sized, MaxUnitWeight

\* A step of the fold loses no block, and makes no unit too light, too heavy or ended by a heading.
LEMMA ChunkedKeeps ==
  ASSUME NEW B, Weighed(B), NEW blocks \in Seq(B), NEW k \in 1..Len(blocks), NEW c \in Chunks(B),
         HoldsFirst(blocks, c, k - 1), Sized(c)
  PROVE  HoldsFirst(blocks, Chunked(c, blocks[k]), k) /\ Sized(Chunked(c, blocks[k]))
<1> DEFINE b == blocks[k]
           weight == Weight(c.current)
           room == FlushIf(weight >= MinUnitWeight /\ weight + b.weight > MaxUnitWeight, c)
           filled == Put(room, b)
           kept == FlushIf(weight >= MinUnitWeight, c)
<1>1. b \in B /\ b.weight \in 0..MaxBlockWeight /\ (b.kind = "heading" => b.weight = 0)
  BY DEF Weighed
<1>2. Chunked(c, b) = IF b.kind = "heading" THEN Put(kept, b)
                      ELSE FlushIf(Weight(filled.current) >= MaxUnitWeight, filled)
  BY DEF Chunked
<1>3. k - 1 \in 0..Len(blocks) /\ k \in 0..Len(blocks)
  OBVIOUS
<1>4. \A x \in B : x.weight \in Nat
  BY DEF Weighed, MaxBlockWeight
<1> HIDE DEF b, weight, filled
<1>5. weight \in 0..(MaxUnitWeight - 1) /\ (EndsWithHeading(c.current) => weight < MinUnitWeight)
  BY DEF weight, Sized
<1>6. weight >= MinUnitWeight => weight \in MinUnitWeight..HeaviestChunk /\ ~EndsWithHeading(c.current)
  BY <1>5 DEF MinUnitWeight, MaxUnitWeight, HeaviestChunk, MaxBlockWeight
<1>7. ASSUME weight >= MinUnitWeight
      PROVE  Sized(flush(c)) /\ Weight(flush(c).current) = 0
  BY <1>6, <1>7, FlushSized DEF weight, Sized
<1>8. ASSUME NEW d \in {room, kept}
      PROVE  /\ d \in Chunks(B) /\ HoldsFirst(blocks, d, k - 1) /\ Sized(d)
             /\ Weight(d.current) \in {0, weight}
  <2>1. d = c \/ (d = flush(c) /\ weight >= MinUnitWeight)
    BY <1>8 DEF FlushIf
  <2>2. flush(c) \in Chunks(B) /\ HoldsFirst(blocks, flush(c), k - 1)
    BY <1>3, FlushTyped, FlushHolds
  <2> QED
    BY <1>7, <2>1, <2>2 DEF weight
<1>9. weight >= MinUnitWeight => Weight(kept.current) = 0
  BY <1>7 DEF FlushIf
<1>10. weight >= MinUnitWeight /\ weight + b.weight > MaxUnitWeight => Weight(room.current) = 0
  BY <1>7 DEF FlushIf
<1> HIDE DEF room, kept
<1>11. ASSUME NEW d \in {room, kept}
       PROVE  /\ Put(d, b) \in Chunks(B) /\ HoldsFirst(blocks, Put(d, b), k)
              /\ Put(d, b).full = d.full
              /\ Weight(Put(d, b).current) = Weight(d.current) + b.weight
              /\ EndsWithHeading(Put(d, b).current) <=> b.kind = "heading"
  <2>1. d \in Chunks(B) /\ HoldsFirst(blocks, d, k - 1)
    BY <1>8
  <2>2. Put(d, b) \in Chunks(B) /\ Put(d, b).full = d.full /\ Put(d, b).current = Append(d.current, b)
    BY <1>1, <2>1, PutTyped
  <2>3. HoldsFirst(blocks, Put(d, b), k)
    BY <2>1, PutHolds DEF b
  <2>4. d.current \in Seq(B)
    BY <2>1 DEF Chunks
  <2>5. Weight(Append(d.current, b)) = Weight(d.current) + b.weight
    BY <1>1, <1>4, <2>4, WeightOf
  <2>6. EndsWithHeading(Append(d.current, b)) <=> b.kind = "heading"
    <3> DEFINE q == Append(d.current, b)
    <3>1. q # <<>> /\ Len(q) = Len(d.current) + 1 /\ q[Len(d.current) + 1] = b
      BY <1>1, <2>4, AppendProperties
    <3> QED
      BY <3>1 DEF EndsWithHeading
  <2> QED
    BY <2>2, <2>3, <2>5, <2>6
<1>12. CASE b.kind = "heading"
  <2>1. Chunked(c, b) = Put(kept, b)
    BY <1>2, <1>12
  <2>2. Weight(Put(kept, b).current) = Weight(kept.current)
    <3>1. b.weight = 0 /\ Weight(kept.current) \in Nat
      BY <1>1, <1>5, <1>8, <1>12
    <3> QED
      BY <1>11, <3>1
  <2>3. Weight(kept.current) \in 0..(MinUnitWeight - 1)
    BY <1>5, <1>8, <1>9 DEF MinUnitWeight
  <2>4. /\ HoldsFirst(blocks, Put(kept, b), k) /\ Put(kept, b).full = kept.full
        /\ Sized(kept)
    BY <1>8, <1>11
  <2>5. Sized(Put(kept, b))
    BY <2>2, <2>3, <2>4 DEF Sized, MinUnitWeight, MaxUnitWeight
  <2> QED
    BY <2>1, <2>4, <2>5 DEF b
<1>13. CASE b.kind # "heading"
  <2>1. Chunked(c, b) = FlushIf(Weight(filled.current) >= MaxUnitWeight, filled)
    BY <1>2, <1>13
  <2>2. /\ filled \in Chunks(B) /\ HoldsFirst(blocks, filled, k) /\ filled.full = room.full
        /\ Weight(filled.current) = Weight(room.current) + b.weight
        /\ ~EndsWithHeading(filled.current)
    BY <1>11, <1>13 DEF filled
  <2>3. Weight(filled.current) \in 0..HeaviestChunk
    <3>1. Weight(room.current) \in {0, weight}
      BY <1>8
    <3>2. b.weight \in 0..10 /\ weight \in 0..5
      BY <1>1, <1>5 DEF MaxBlockWeight, MaxUnitWeight
    <3>3. Weight(room.current) = weight => weight < 3 \/ weight + b.weight <= 6 \/ weight = 0
      BY <1>10, <3>1, <3>2 DEF MinUnitWeight, MaxUnitWeight
    <3> QED
      BY <2>2, <3>1, <3>2, <3>3 DEF HeaviestChunk, MaxBlockWeight, MinUnitWeight
  <2>4. \A u \in 1..Len(filled.full) :
          Weight(filled.full[u]) \in MinUnitWeight..HeaviestChunk /\ ~EndsWithHeading(filled.full[u])
    BY <1>8, <2>2 DEF Sized
  <2>5. CASE Weight(filled.current) >= MaxUnitWeight
    <3>1. Chunked(c, b) = flush(filled)
      BY <2>1, <2>5 DEF FlushIf
    <3>2. HoldsFirst(blocks, flush(filled), k)
      BY <1>3, <2>2, FlushHolds
    <3>3. Weight(filled.current) \in MinUnitWeight..HeaviestChunk
      BY <2>3, <2>5 DEF MinUnitWeight, MaxUnitWeight, HeaviestChunk, MaxBlockWeight
    <3>4. Sized(flush(filled))
      BY <2>2, <2>4, <3>3, FlushSized
    <3> QED
      BY <3>1, <3>2, <3>4 DEF b
  <2>6. CASE ~(Weight(filled.current) >= MaxUnitWeight)
    <3>1. Chunked(c, b) = filled
      BY <2>1, <2>6 DEF FlushIf
    <3>2. Weight(filled.current) \in 0..(MaxUnitWeight - 1)
      BY <2>3, <2>6 DEF MaxUnitWeight, HeaviestChunk, MaxBlockWeight, MinUnitWeight
    <3>3. Sized(filled)
      BY <2>2, <2>4, <3>2 DEF Sized
    <3> QED
      BY <2>2, <3>1, <3>3 DEF b
  <2> QED
    BY <2>5, <2>6
<1> QED
  BY <1>12, <1>13

\* What the fold leaves after the last block.
LEMMA ChunksMade ==
  ASSUME NEW B, Weighed(B), NEW blocks \in Seq(B)
  PROVE  \E c \in Chunks(B) : /\ FoldLeft(Chunked, NoChunks, blocks) = c
                              /\ HoldsFirst(blocks, c, Len(blocks)) /\ Sized(c)
<1> DEFINE n == Len(blocks)
<1>1. PICK acc \in [0..n -> Chunks(B)] :
        ChunksInTurn(acc, blocks) /\ FoldLeft(Chunked, NoChunks, blocks) = acc[n]
  BY ChunkSteps
<1>2. n \in Nat
  OBVIOUS
<1> DEFINE S == {k \in 0..n : HoldsFirst(blocks, acc[k], k) /\ Sized(acc[k])}
<1>3. 0 \in S
  <2>1. acc[0] = NoChunks
    BY <1>1 DEF ChunksInTurn
  <2>2. NoChunks.full = <<>> /\ NoChunks.current = <<>> /\ Len(<<>>) = 0
    BY DEF NoChunks
  <2>3. Weight(<<>>) = 0
    <3>1. <<>> \in Seq(B) /\ \A b \in B : b.weight \in Nat
      BY DEF Weighed, MaxBlockWeight
    <3> QED
      BY <3>1, WeightOf
  <2>4. ~EndsWithHeading(<<>>)
    BY DEF EndsWithHeading
  <2>5. Sized(NoChunks)
    BY <2>2, <2>3, <2>4 DEF Sized, MaxUnitWeight
  <2> QED
    BY <1>2, <2>1, <2>5, NoneHeld
<1>4. ASSUME NEW k \in 0..(n - 1), k \in S PROVE k + 1 \in S
  <2>1. k + 1 \in 1..n /\ k + 1 \in 0..n /\ (k + 1) - 1 = k
    BY <1>2
  <2>2. acc[k] \in Chunks(B) /\ HoldsFirst(blocks, acc[k], k) /\ Sized(acc[k])
    BY <1>1, <1>4
  <2>3. acc[k + 1] = Chunked(acc[k], blocks[k + 1])
    BY <1>1, <2>1 DEF ChunksInTurn
  <2>4. HoldsFirst(blocks, Chunked(acc[k], blocks[k + 1]), k + 1) /\ Sized(Chunked(acc[k], blocks[k + 1]))
    BY <2>1, <2>2, ChunkedKeeps
  <2> QED
    BY <2>1, <2>3, <2>4
<1>5. n \in S
  <2> HIDE DEF S
  <2>1. \A k \in 0..n : k \in S
    BY <1>2, <1>3, <1>4, UpTo
  <2> QED
    BY <1>2, <2>1
<1>6. acc[n] \in Chunks(B)
  BY <1>1, <1>2
<1> QED
  BY <1>1, <1>5, <1>6

\* Chunks of blocks that are all of the blocks, in order.
Divides(blocks, chunks) == \E cut : CutBy(blocks, chunks, cut, Len(blocks)) /\ cut[Len(chunks)] = Len(blocks)

\* The last chunk joined to the one before it.
Joined(chunks) ==
  Append(SubSeq(chunks, 1, Len(chunks) - 2), chunks[Len(chunks) - 1] \o chunks[Len(chunks)])

\* What the joined chunks are, place by place.
LEMMA JoinedIs ==
  ASSUME NEW T, NEW chunks \in Seq(Seq(T)), Len(chunks) > 1
  PROVE  /\ Joined(chunks) \in Seq(Seq(T)) /\ Len(Joined(chunks)) = Len(chunks) - 1
         /\ \A u \in 1..(Len(chunks) - 2) : Joined(chunks)[u] = chunks[u]
         /\ Joined(chunks)[Len(chunks) - 1] = chunks[Len(chunks) - 1] \o chunks[Len(chunks)]
<1> DEFINE m == Len(chunks)
           both == chunks[m - 1] \o chunks[m]
<1>1. m \in Nat /\ m - 1 \in 1..m /\ m \in 1..m /\ m - 2 \in 0..m
  OBVIOUS
<1>2. both \in Seq(T)
  <2>1. chunks[m - 1] \in Seq(T) /\ chunks[m] \in Seq(T)
    BY <1>1
  <2> QED
    BY <2>1
<1> DEFINE Q == Seq(T)
<1>3. chunks \in Seq(Q) /\ both \in Q
  BY <1>2
<1> HIDE DEF Q, both
<1>4. /\ SubSeq(chunks, 1, m - 2) \in Seq(Q) /\ Len(SubSeq(chunks, 1, m - 2)) = m - 2
      /\ \A u \in 1..(m - 2) : SubSeq(chunks, 1, m - 2)[u] = chunks[u]
  <2>1. 1 \in Int /\ m - 2 \in Int /\ (m - 2) - 1 + 1 = m - 2 /\ (1 <= m - 2 \/ m - 2 = 0)
    <3> HIDE DEF m
    <3> QED
      BY <1>1
  <2>2. \A u \in 1..(m - 2) : chunks[u] \in Q /\ 1 + u - 1 = u
    BY <1>1, <1>3
  <2> HIDE DEF m
  <2>3. /\ SubSeq(chunks, 1, m - 2) \in Seq(Q)
        /\ Len(SubSeq(chunks, 1, m - 2)) = IF 1 <= m - 2 THEN (m - 2) - 1 + 1 ELSE 0
        /\ \A u \in 1..((m - 2) - 1 + 1) : SubSeq(chunks, 1, m - 2)[u] = chunks[1 + u - 1]
    BY <2>1, <2>2, SubSeqProperties
  <2> QED
    BY <2>1, <2>2, <2>3
<1> DEFINE front == SubSeq(chunks, 1, m - 2)
<1> HIDE DEF front, m
<1>5. /\ Append(front, both) \in Seq(Q) /\ Len(Append(front, both)) = Len(front) + 1
      /\ \A u \in 1..Len(front) : Append(front, both)[u] = front[u]
      /\ Append(front, both)[Len(front) + 1] = both
  BY <1>3, <1>4, AppendProperties DEF front
<1>6. Len(front) = m - 2 /\ (m - 2) + 1 = m - 1 /\ \A u \in 1..(m - 2) : front[u] = chunks[u]
  BY <1>1, <1>4 DEF front
<1>7. Joined(chunks) = Append(front, both)
  BY DEF Joined, front, both, m
<1> QED
  BY <1>5, <1>6, <1>7 DEF Q, m, both

\* Nothing is lost when the last chunk joins the one before it.
LEMMA JoinedDivides ==
  ASSUME NEW B, NEW blocks \in Seq(B), NEW chunks \in Seq(Seq(B)), Len(chunks) > 1, Divides(blocks, chunks)
  PROVE  Divides(blocks, Joined(chunks))
<1> DEFINE m == Len(chunks)
           n == Len(blocks)
           all == Joined(chunks)
<1>1. PICK cut : CutBy(blocks, chunks, cut, n) /\ cut[m] = n
  BY DEF Divides
<1>2. m \in Nat /\ n \in Nat /\ m > 1
  OBVIOUS
<1>3. /\ cut \in [0..m -> 0..n] /\ cut[0] = 0
      /\ \A u \in 1..m : cut[u - 1] < cut[u] /\ chunks[u] = SubSeq(blocks, cut[u - 1] + 1, cut[u])
  BY <1>1 DEF CutBy
<1>4. /\ Len(all) = m - 1 /\ \A u \in 1..(m - 2) : all[u] = chunks[u]
      /\ all[m - 1] = chunks[m - 1] \o chunks[m]
  BY JoinedIs
<1> HIDE DEF all, m, n
<1> DEFINE less == [u \in 0..(m - 1) |-> IF u = m - 1 THEN n ELSE cut[u]]
<1>5. less \in [0..(m - 1) -> 0..n]
  <2>1. \A u \in 0..(m - 1) : u \in 0..m
    BY <1>2
  <2>2. n \in 0..n
    BY <1>2
  <2> QED
    BY <1>3, <2>1, <2>2
<1>6. less[0] = 0 /\ less[m - 1] = n
  BY <1>2, <1>3
<1>7. all[m - 1] = SubSeq(blocks, cut[m - 2] + 1, n) /\ cut[m - 2] < n
  <2> DEFINE x == cut[m - 2]
             y == cut[m - 1]
  <2>1. x \in 0..n /\ y \in 0..n
    <3>1. m - 1 \in 0..m /\ m - 2 \in 0..m
      BY <1>2
    <3> QED
      BY <1>3, <3>1
  <2>2. x < y /\ chunks[m - 1] = SubSeq(blocks, x + 1, y)
    <3>1. m - 1 \in 1..m /\ (m - 1) - 1 = m - 2
      BY <1>2
    <3> QED
      BY <1>3, <3>1
  <2>3. y < n /\ chunks[m] = SubSeq(blocks, y + 1, n)
    <3>1. m \in 1..m
      BY <1>2
    <3> QED
      BY <1>1, <1>3, <3>1
  <2> HIDE DEF x, y
  <2>4. SubSeq(blocks, x + 1, y) \o SubSeq(blocks, y + 1, n) = SubSeq(blocks, x + 1, n)
    <3>1. x + 1 \in 1..(Len(blocks) + 1) /\ y \in ((x + 1) - 1)..Len(blocks) /\ n \in y..Len(blocks)
      BY <2>1, <2>2, <2>3 DEF n
    <3> QED
      BY <3>1, ConcatAdjacentSubSeq
  <2>5. x < n
    <3>1. x \in Int /\ y \in Int /\ n \in Int
      BY <1>2, <2>1
    <3> QED
      BY <2>2, <2>3, <3>1
  <2>6. all[m - 1] = SubSeq(blocks, x + 1, n)
    BY <1>4, <2>2, <2>3, <2>4
  <2> QED
    BY <2>5, <2>6 DEF x
<1>8. ASSUME NEW u \in 1..(m - 1)
      PROVE  less[u - 1] < less[u] /\ all[u] = SubSeq(blocks, less[u - 1] + 1, less[u])
  <2>1. CASE u = m - 1
    <3>1. less[u - 1] = cut[m - 2] /\ less[u] = n
      <4>1. u - 1 = m - 2 /\ m - 2 \in 0..(m - 1) /\ m - 2 # m - 1
        BY <1>2, <2>1
      <4> QED
        BY <1>6, <2>1, <4>1
    <3> QED
      BY <1>7, <2>1, <3>1
  <2>2. CASE u # m - 1
    <3>1. u \in 1..(m - 2) /\ less[u - 1] = cut[u - 1] /\ less[u] = cut[u] /\ u \in 1..m
      BY <1>2, <2>2
    <3> QED
      BY <1>3, <1>4, <3>1
  <2> QED
    BY <2>1, <2>2
<1> HIDE DEF less
<1>9. CutBy(blocks, all, less, n) /\ less[Len(all)] = n
  BY <1>4, <1>5, <1>6, <1>8 DEF CutBy
<1> QED
  BY <1>9 DEF Divides, all, n

\* Chunks of a unit's size, but for one that is all, and not ended by a heading, but for the last.
UnitSized(chunks) ==
  /\ Len(chunks) > 1 => \A u \in 1..Len(chunks) : Weight(chunks[u]) \in MinUnitWeight..HeaviestUnit
  /\ \A u \in 1..(Len(chunks) - 1) : ~EndsWithHeading(chunks[u])

\* All chunks but the last are full, and the last is not too heavy.
AlmostSized(chunks) ==
  /\ \A u \in 1..(Len(chunks) - 1) :
       Weight(chunks[u]) \in MinUnitWeight..HeaviestChunk /\ ~EndsWithHeading(chunks[u])
  /\ Len(chunks) > 0 => Weight(chunks[Len(chunks)]) \in 0..HeaviestChunk

\* The last flush leaves all blocks in full chunks, of which only the last may be light.
LEMMA AllFlushed ==
  ASSUME NEW B, Weighed(B), NEW blocks \in Seq(B), NEW c \in Chunks(B),
         HoldsFirst(blocks, c, Len(blocks)), Sized(c)
  PROVE  /\ flush(c).full \in Seq(Seq(B)) /\ Divides(blocks, flush(c).full)
         /\ AlmostSized(flush(c).full)
<1> DEFINE n == Len(blocks)
           chunks == flush(c).full
           m == Len(chunks)
<1>1. n \in Nat /\ n \in 0..n
  OBVIOUS
<1>2. flush(c) \in Chunks(B) /\ HoldsFirst(blocks, flush(c), n)
  BY <1>1, FlushTyped, FlushHolds
<1>3. flush(c).current = <<>>
  BY FlushTyped
<1>4. chunks \in Seq(Seq(B)) /\ m \in Nat
  BY <1>2 DEF Chunks
<1>5. Divides(blocks, chunks)
  <2>1. PICK cut : CutBy(blocks, chunks, cut, n) /\ SubSeq(blocks, cut[m] + 1, n) = <<>>
    BY <1>2, <1>3 DEF HoldsFirst
  <2>2. cut[m] \in 0..n
    <3> HIDE DEF m, chunks
    <3>1. cut \in [0..m -> 0..n]
      BY <2>1 DEF CutBy, m
    <3>2. m \in 0..m
      BY <1>4
    <3> QED
      BY <3>1, <3>2
  <2>3. cut[m] = n
    <3> DEFINE x == cut[m]
    <3> HIDE DEF x
    <3>1. x \in 0..n /\ SubSeq(blocks, x + 1, n) = <<>>
      BY <2>1, <2>2 DEF x
    <3>2. SUFFICES ASSUME x < n PROVE FALSE
      BY <1>1, <3>1 DEF x
    <3>3. Len(SubSeq(blocks, x + 1, n)) = n - x
      BY <3>1, <3>2
    <3>4. n - x = 0
      BY <3>1, <3>3
    <3> HIDE DEF n
    <3> QED
      BY <1>1, <3>1, <3>2, <3>4
  <2> QED
    BY <2>1, <2>3 DEF Divides
<1>6. AlmostSized(chunks)
  <2>1. CASE c.current = <<>>
    <3>1. chunks = c.full
      BY <2>1, FlushTyped
    <3>2. \A u \in 1..m : Weight(chunks[u]) \in MinUnitWeight..HeaviestChunk /\ ~EndsWithHeading(chunks[u])
      BY <3>1 DEF Sized
    <3> HIDE DEF chunks, m
    <3>3. (\A u \in 1..(m - 1) : u \in 1..m) /\ (m > 0 => m \in 1..m)
      BY <1>4
    <3>4. \A x \in MinUnitWeight..HeaviestChunk : x \in 0..HeaviestChunk
      BY DEF MinUnitWeight
    <3> QED
      BY <3>2, <3>3, <3>4 DEF AlmostSized, m
  <2>2. CASE c.current # <<>>
    <3>1. chunks = Append(c.full, c.current)
      BY <2>2, FlushTyped
    <3> DEFINE Q == Seq(B)
               k == Len(c.full)
    <3>2. c.full \in Seq(Q) /\ c.current \in Q /\ k \in Nat
      BY DEF Chunks
    <3> HIDE DEF Q
    <3>3. m = k + 1 /\ chunks[k + 1] = c.current /\ \A u \in 1..k : chunks[u] = c.full[u]
      BY <3>1, <3>2, AppendProperties
    <3>4. \A u \in 1..k : Weight(c.full[u]) \in MinUnitWeight..HeaviestChunk /\ ~EndsWithHeading(c.full[u])
      BY DEF Sized
    <3>5. Weight(c.current) \in 0..HeaviestChunk
      <4>1. Weight(c.current) \in 0..(MaxUnitWeight - 1)
        BY DEF Sized
      <4> QED
        BY <4>1 DEF MaxUnitWeight, HeaviestChunk, MinUnitWeight, MaxBlockWeight
    <3>6. m - 1 = k
      BY <3>2, <3>3
    <3> HIDE DEF chunks, m, k
    <3> QED
      BY <3>3, <3>4, <3>5, <3>6 DEF AlmostSized, m
  <2> QED
    BY <2>1, <2>2
<1> QED
  BY <1>4, <1>5, <1>6

\* The chunks of a document's blocks are all of them, in order, and of a unit's size.
LEMMA ChunksSound ==
  ASSUME NEW B, Weighed(B), NEW blocks \in Seq(B)
  PROVE  /\ chunkBlocks(blocks) \in Seq(Seq(B)) /\ Divides(blocks, chunkBlocks(blocks))
         /\ UnitSized(chunkBlocks(blocks))
<1>1. PICK c \in Chunks(B) : /\ FoldLeft(Chunked, NoChunks, blocks) = c
                             /\ HoldsFirst(blocks, c, Len(blocks)) /\ Sized(c)
  BY ChunksMade
<1> DEFINE chunks == flush(c).full
           m == Len(chunks)
<1>2. chunkBlocks(blocks) = IF m > 1 /\ Weight(chunks[m]) < MinUnitWeight THEN Joined(chunks) ELSE chunks
  BY <1>1 DEF chunkBlocks, NoChunks, Joined
<1>3. chunks \in Seq(Seq(B)) /\ Divides(blocks, chunks) /\ AlmostSized(chunks)
  BY <1>1, AllFlushed
<1>4. m \in Nat /\ \A u \in 1..m : chunks[u] \in Seq(B)
  BY <1>3
<1> HIDE DEF chunks
<1>5. CASE m > 1 /\ Weight(chunks[m]) < MinUnitWeight
  <2>1. chunkBlocks(blocks) = Joined(chunks)
    BY <1>2, <1>5
  <2>2. Divides(blocks, Joined(chunks))
    BY <1>3, <1>5, JoinedDivides
  <2>3. /\ Joined(chunks) \in Seq(Seq(B)) /\ Len(Joined(chunks)) = m - 1
        /\ \A u \in 1..(m - 2) : Joined(chunks)[u] = chunks[u]
        /\ Joined(chunks)[m - 1] = chunks[m - 1] \o chunks[m]
    BY <1>3, <1>5, JoinedIs
  <2>4. Weight(chunks[m - 1] \o chunks[m]) \in MinUnitWeight..HeaviestUnit
    <3>1. m \in 1..m /\ m - 1 \in 1..m /\ m - 1 \in 1..(m - 1) /\ m > 0
      BY <1>4, <1>5
    <3>2. chunks[m - 1] \in Seq(B) /\ chunks[m] \in Seq(B)
      BY <1>4, <3>1
    <3>3. \A b \in B : b.weight \in Nat
      BY DEF Weighed, MaxBlockWeight
    <3>4. Weight(chunks[m - 1] \o chunks[m]) = Weight(chunks[m - 1]) + Weight(chunks[m])
      BY <3>2, <3>3, WeightOfBoth
    <3>5. Weight(chunks[m - 1]) \in MinUnitWeight..HeaviestChunk /\ Weight(chunks[m]) \in 0..HeaviestChunk
      BY <1>3, <3>1 DEF AlmostSized
    <3> QED
      BY <1>5, <3>4, <3>5 DEF MinUnitWeight, HeaviestChunk, HeaviestUnit, MaxBlockWeight
  <2>5. ASSUME NEW u \in 1..(m - 1) PROVE Weight(Joined(chunks)[u]) \in MinUnitWeight..HeaviestUnit
    <3>1. CASE u = m - 1
      BY <2>3, <2>4, <3>1
    <3>2. CASE u # m - 1
      <4>1. u \in 1..(m - 2)
        BY <1>4, <3>2
      <4>2. Weight(chunks[u]) \in MinUnitWeight..HeaviestChunk
        BY <1>3 DEF AlmostSized
      <4>3. Joined(chunks)[u] = chunks[u]
        BY <2>3, <4>1
      <4> QED
        BY <4>2, <4>3 DEF MinUnitWeight, HeaviestChunk, HeaviestUnit, MaxBlockWeight
    <3> QED
      BY <3>1, <3>2
  <2>6. ASSUME NEW u \in 1..((m - 1) - 1) PROVE ~EndsWithHeading(Joined(chunks)[u])
    <3>1. u \in 1..(m - 2) /\ u \in 1..(m - 1)
      BY <1>4
    <3> QED
      BY <1>3, <2>3, <3>1 DEF AlmostSized
  <2>7. UnitSized(Joined(chunks))
    BY <2>3, <2>5, <2>6 DEF UnitSized
  <2> QED
    BY <2>1, <2>2, <2>3, <2>7
<1>6. CASE ~(m > 1 /\ Weight(chunks[m]) < MinUnitWeight)
  <2>1. chunkBlocks(blocks) = chunks
    BY <1>2, <1>6
  <2>2. ASSUME m > 1, NEW u \in 1..m PROVE Weight(chunks[u]) \in MinUnitWeight..HeaviestUnit
    <3>1. CASE u = m
      <4>1. Weight(chunks[m]) \in 0..HeaviestChunk
        BY <1>3, <2>2 DEF AlmostSized
      <4> QED
        BY <1>6, <2>2, <3>1, <4>1 DEF MinUnitWeight, HeaviestChunk, HeaviestUnit, MaxBlockWeight
    <3>2. CASE u # m
      <4>1. u \in 1..(m - 1)
        BY <1>4, <3>2
      <4>2. Weight(chunks[u]) \in MinUnitWeight..HeaviestChunk
        BY <1>3, <4>1 DEF AlmostSized
      <4> QED
        BY <4>2 DEF MinUnitWeight, HeaviestChunk, HeaviestUnit, MaxBlockWeight
    <3> QED
      BY <3>1, <3>2
  <2>3. UnitSized(chunks)
    BY <1>3, <2>2 DEF UnitSized, AlmostSized
  <2> QED
    BY <1>3, <2>1, <2>3
<1> QED
  BY <1>5, <1>6

\* Blocks of a document stand in its order.
LEMMA BlocksAscend ==
  ASSUME NEW d \in Seq(Line), NEW blocks, CoversFrom(d, 1, blocks),
         NEW a \in 1..Len(blocks), NEW z \in a..Len(blocks)
  PROVE  blocks[a].first <= blocks[z].first /\ blocks[a].last <= blocks[z].last
<1> DEFINE n == Len(blocks)
           S == {k \in 0..(n - a) : blocks[a].first <= blocks[a + k].first /\ blocks[a].last <= blocks[a + k].last}
<1>1. /\ n \in Nat /\ \A u \in 1..n : blocks[u] \in BlockOf(d)
      /\ \A u \in 1..(n - 1) : blocks[u].last < blocks[u + 1].first
  BY DEF CoversFrom
<1>2. \A u \in 1..n : blocks[u].first \in Nat /\ blocks[u].last \in Nat /\ blocks[u].first <= blocks[u].last
  BY <1>1 DEF BlockOf
<1> HIDE DEF n
<1>3. n - a \in Nat /\ z - a \in 0..(n - a) /\ a + (z - a) = z /\ a + 0 = a /\ a \in 1..n
  BY <1>1 DEF n
<1>4. 0 \in S
  <2>1. blocks[a].first <= blocks[a].first /\ blocks[a].last <= blocks[a].last
    BY <1>2, <1>3
  <2> QED
    BY <1>3, <2>1
<1>5. ASSUME NEW k \in 0..((n - a) - 1), k \in S PROVE k + 1 \in S
  <2> DEFINE u == a + k
  <2>1. u \in 1..n /\ u + 1 \in 1..n /\ u \in 1..(n - 1) /\ a + (k + 1) = u + 1 /\ k + 1 \in 0..(n - a)
    BY <1>1, <1>3
  <2>2. blocks[a].first <= blocks[u].first /\ blocks[a].last <= blocks[u].last
    BY <1>5
  <2> HIDE DEF u
  <2>3. blocks[u].last < blocks[u + 1].first
    BY <1>1, <2>1
  <2>4. blocks[a].first <= blocks[u + 1].first /\ blocks[a].last <= blocks[u + 1].last
    <3>1. /\ blocks[a].first \in Nat /\ blocks[a].last \in Nat
          /\ blocks[u].first \in Nat /\ blocks[u].last \in Nat /\ blocks[u].first <= blocks[u].last
      BY <1>2, <1>3, <2>1
    <3>2. /\ blocks[u + 1].first \in Nat /\ blocks[u + 1].last \in Nat
          /\ blocks[u + 1].first <= blocks[u + 1].last
      BY <1>2, <2>1
    <3> DEFINE p == blocks[a].first
               p2 == blocks[a].last
               q == blocks[u].first
               q2 == blocks[u].last
               r == blocks[u + 1].first
               r2 == blocks[u + 1].last
    <3>3. {p, p2, q, q2, r, r2} \subseteq Nat /\ p <= q /\ p2 <= q2 /\ q <= q2 /\ q2 < r /\ r <= r2
      BY <2>2, <2>3, <3>1, <3>2
    <3> HIDE DEF p, p2, q, q2, r, r2
    <3>4. p <= r /\ p2 <= r2
      BY <3>3
    <3> QED
      BY <3>4 DEF p, p2, r, r2
  <2> QED
    BY <2>1, <2>4
<1> HIDE DEF S
<1>6. \A k \in 0..(n - a) : k \in S
  BY <1>3, <1>4, <1>5, UpTo
<1> QED
  BY <1>3, <1>6 DEF S

\* The blocks of a document are bounded in weight.
LEMMA BlocksWeighed == \A d \in Seq(Line) : Weighed(BlockOf(d))
BY DEF Weighed, BlockOf

\* The unit of a chunk of blocks a to z.
UnitOf(blocks, a, z, unit) ==
  unit.first = blocks[a].first /\ unit.last = blocks[z].last

\* Every block lies in one of the units.
WholeIn(blocks, read) ==
  \A b \in 1..Len(blocks) : \E u \in DOMAIN read :
    read[u].first <= blocks[b].first /\ blocks[b].last <= read[u].last

\* Units follow the text of a document where its blocks do, however these are cut.
LEMMA UnitsFollow ==
  ASSUME NEW d \in Seq(Line), NEW blocks, CoversFrom(d, 1, blocks), NEW m \in Nat,
         NEW cut \in [0..m -> 0..Len(blocks)], cut[0] = 0, cut[m] = Len(blocks),
         \A u \in 1..m : cut[u - 1] < cut[u],
         NEW read, Len(read) = m, DOMAIN read = 1..m,
         \A u \in 1..m : UnitOf(blocks, cut[u - 1] + 1, cut[u], read[u])
  PROVE  InOrder(d, read) /\ WholeIn(blocks, read)
<1> DEFINE n == Len(blocks)
<1>1. /\ n \in Nat /\ \A u \in 1..n : blocks[u] \in BlockOf(d)
      /\ \A u \in 1..(n - 1) : blocks[u].last < blocks[u + 1].first
      /\ \A i \in Filled(d) : i >= 1 => \E b \in 1..n : i \in blocks[b].first..blocks[b].last
  BY DEF CoversFrom
<1>2. \A u \in 1..n :
        /\ blocks[u].first \in Nat /\ blocks[u].last \in Nat /\ blocks[u].first <= blocks[u].last
        /\ blocks[u].first \in Filled(d)
  BY <1>1 DEF BlockOf
<1>3. ASSUME NEW u \in 1..m
      PROVE  /\ cut[u - 1] \in 0..n /\ cut[u] \in 0..n /\ cut[u - 1] < cut[u]
             /\ cut[u - 1] + 1 \in 1..n /\ cut[u] \in (cut[u - 1] + 1)..n /\ cut[u] \in 1..n
             /\ read[u].first = blocks[cut[u - 1] + 1].first /\ read[u].last = blocks[cut[u]].last
  <2>1. u \in 0..m /\ u - 1 \in 0..m
    OBVIOUS
  <2>2. cut[u - 1] \in 0..n /\ cut[u] \in 0..n /\ cut[u - 1] < cut[u]
    BY <2>1
  <2> HIDE DEF n
  <2>3. cut[u - 1] + 1 \in 1..n /\ cut[u] \in (cut[u - 1] + 1)..n /\ cut[u] \in 1..n
    BY <1>1, <2>2
  <2> QED
    BY <2>2, <2>3 DEF UnitOf
<1>4. ASSUME NEW u \in 1..m PROVE read[u].first <= read[u].last /\ read[u].first \in Filled(d)
  <2> DEFINE a == cut[u - 1] + 1
             z == cut[u]
  <2>1. a \in 1..n /\ z \in a..n /\ z \in 1..n /\ read[u].first = blocks[a].first /\ read[u].last = blocks[z].last
    BY <1>3
  <2> HIDE DEF a, z
  <2>2. blocks[a].first <= blocks[z].first
    BY <2>1, BlocksAscend
  <2>3. /\ blocks[a].first \in Nat /\ blocks[z].first \in Nat /\ blocks[z].last \in Nat
        /\ blocks[z].first <= blocks[z].last /\ blocks[a].first \in Filled(d)
    BY <1>2, <2>1
  <2> QED
    BY <2>1, <2>2, <2>3
<1>5. ASSUME NEW u \in 1..(m - 1) PROVE read[u].last < read[u + 1].first
  <2> DEFINE z == cut[u]
  <2>1. u \in 1..m /\ u + 1 \in 1..m /\ (u + 1) - 1 = u
    OBVIOUS
  <2>2. z \in 1..n /\ z + 1 \in 1..n /\ read[u].last = blocks[z].last /\ read[u + 1].first = blocks[z + 1].first
    <3>1. cut[(u + 1) - 1] + 1 \in 1..n /\ read[u + 1].first = blocks[cut[(u + 1) - 1] + 1].first
      BY <1>3, <2>1
    <3>2. cut[u] \in 1..n /\ read[u].last = blocks[cut[u]].last
      BY <1>3, <2>1
    <3> QED
      BY <2>1, <3>1, <3>2
  <2> HIDE DEF z, n
  <2>3. z \in 1..(n - 1)
    BY <1>1, <2>2
  <2> QED
    BY <1>1, <2>2, <2>3
<1>6. ASSUME NEW b \in 1..n
      PROVE  \E u \in 1..m : read[u].first <= blocks[b].first /\ blocks[b].last <= read[u].last
  <2> DEFINE Reached == {u \in 0..m : cut[u] >= b}
             u == Min(Reached)
  <2>1. u \in Reached /\ \A y \in Reached : u <= y
    <3>1. m \in Reached
      BY <1>1
    <3>2. Reached \subseteq Nat
      OBVIOUS
    <3> HIDE DEF Reached
    <3> QED
      BY <3>1, <3>2, LeastOf
  <2> HIDE DEF u
  <2>2. u \in 0..m /\ cut[u] >= b
    BY <2>1
  <2>3. u # 0
    BY <2>2
  <2>4. u \in 1..m /\ u - 1 \in 0..m /\ ~(u <= u - 1)
    BY <2>2, <2>3
  <2>5. ~(cut[u - 1] >= b)
    BY <2>1, <2>4
  <2> HIDE DEF Reached
  <2> DEFINE a == cut[u - 1] + 1
             z == cut[u]
  <2>6. a \in 1..n /\ z \in 1..n /\ read[u].first = blocks[a].first /\ read[u].last = blocks[z].last
        /\ cut[u - 1] \in Nat
    BY <1>3, <2>4
  <2>7. b \in a..n /\ z \in b..n
    <3> HIDE DEF n
    <3> QED
      BY <1>1, <2>2, <2>5, <2>6
  <2> HIDE DEF a, z
  <2>8. blocks[a].first <= blocks[b].first
    BY <2>6, <2>7, BlocksAscend
  <2>9. blocks[b].last <= blocks[z].last
    BY <2>7, BlocksAscend
  <2> QED
    BY <2>4, <2>6, <2>8, <2>9
<1>7. ASSUME NEW i \in Filled(d) PROVE \E u \in 1..m : i \in read[u].first..read[u].last
  <2>1. i \in Nat /\ i >= 1
    BY DEF Filled
  <2>2. PICK b \in 1..n : i \in blocks[b].first..blocks[b].last
    BY <1>1, <2>1
  <2>3. PICK u \in 1..m : read[u].first <= blocks[b].first /\ blocks[b].last <= read[u].last
    BY <1>6
  <2>4. read[u].first \in Nat /\ read[u].last \in Nat
    BY <1>2, <1>3
  <2>5. blocks[b].first \in Nat /\ blocks[b].last \in Nat
    BY <1>2
  <2> DEFINE p == read[u].first
             q == blocks[b].first
             q2 == blocks[b].last
             r2 == read[u].last
  <2>6. {p, q, q2, r2} \subseteq Nat /\ p <= q /\ q2 <= r2 /\ i \in q..q2
    BY <2>2, <2>3, <2>4, <2>5
  <2> HIDE DEF p, q, q2, r2
  <2>7. i \in p..r2
    BY <2>1, <2>6
  <2> QED
    BY <2>7 DEF p, r2
<1>8. InOrder(d, read)
  BY <1>4, <1>5, <1>7 DEF InOrder
<1> QED
  BY <1>6, <1>8 DEF WholeIn

\* The reading units of any document (segmentReadingUnits).
LEMMA ReadingUnits ==
  \A d \in Seq(Line) : LET read == segmentReadingUnits(d) IN
    Len(read) \in Nat /\ InOrder(d, read) /\ WholeIn(parseBlocks(d), read) /\ WellSized(read)
<1> SUFFICES ASSUME NEW d \in Seq(Line)
             PROVE  LET read == segmentReadingUnits(d) IN
                      /\ Len(read) \in Nat /\ InOrder(d, read)
                      /\ WholeIn(parseBlocks(d), read) /\ WellSized(read)
  OBVIOUS
<1> DEFINE blocks == parseBlocks(d)
           chunks == chunkBlocks(blocks)
           read == segmentReadingUnits(d)
           m == Len(chunks)
           B == BlockOf(d)
<1>1. CoversFrom(d, 1, blocks) /\ blocks \in Seq(B)
  BY BlocksCover DEF CoversFrom
<1>2. chunks \in Seq(Seq(B)) /\ Divides(blocks, chunks) /\ UnitSized(chunks)
  <2> HIDE DEF blocks, B
  <2>1. Weighed(B)
    BY BlocksWeighed DEF B
  <2> QED
    BY <1>1, <2>1, ChunksSound
<1>3. m \in Nat /\ DOMAIN chunks = 1..m
  BY <1>2
<1>4. read = [u \in DOMAIN chunks |->
        [first |-> chunks[u][1].first, last |-> chunks[u][Len(chunks[u])].last,
         weight |-> Weight(chunks[u]), closing |-> chunks[u][Len(chunks[u])].kind]]
  BY DEF segmentReadingUnits
<1> HIDE DEF blocks, chunks, read
<1>5. DOMAIN read = 1..m
  BY <1>3, <1>4
<1>6. Len(read) = m
  <2> HIDE DEF m
  <2> QED
    BY <1>3, <1>4
<1>7. PICK cut : CutBy(blocks, chunks, cut, Len(blocks)) /\ cut[m] = Len(blocks)
  BY <1>2 DEF Divides
<1>8. /\ cut \in [0..m -> 0..Len(blocks)] /\ cut[0] = 0
      /\ \A u \in 1..m : cut[u - 1] < cut[u] /\ chunks[u] = SubSeq(blocks, cut[u - 1] + 1, cut[u])
  BY <1>7 DEF CutBy
<1>9. ASSUME NEW u \in 1..m
      PROVE  /\ chunks[u] # <<>> /\ UnitOf(blocks, cut[u - 1] + 1, cut[u], read[u])
             /\ read[u].weight = Weight(chunks[u]) /\ read[u].closing = chunks[u][Len(chunks[u])].kind
  <2> DEFINE x == cut[u - 1]
             y == cut[u]
             c == chunks[u]
  <2>1. x \in 0..Len(blocks) /\ y \in 0..Len(blocks) /\ x < y /\ c = SubSeq(blocks, x + 1, y)
    <3>1. u \in 0..m /\ u - 1 \in 0..m
      BY <1>3
    <3> QED
      BY <1>8, <3>1
  <2> HIDE DEF x, y, c
  <2>2. Len(c) = y - x /\ c[1] = blocks[x + 1] /\ c[Len(c)] = blocks[y] /\ c # <<>>
    <3> HIDE DEF B
    <3>1. Len(c) = y - x
      BY <1>1, <2>1
    <3>2. \A k \in 1..(y - x) : c[k] = blocks[x + k]
      BY <1>1, <2>1
    <3>3. 1 \in 1..(y - x) /\ y - x \in 1..(y - x) /\ x + (y - x) = y
      BY <2>1
    <3>4. c[1] = blocks[x + 1] /\ c[y - x] = blocks[x + (y - x)]
      BY <3>2, <3>3
    <3>5. c # <<>>
      BY <3>1, <3>3
    <3> QED
      BY <3>1, <3>3, <3>4, <3>5
  <2>3. read[u] = [first |-> c[1].first, last |-> c[Len(c)].last, weight |-> Weight(c), closing |-> c[Len(c)].kind]
    BY <1>3, <1>4 DEF c
  <2>4. UnitOf(blocks, x + 1, y, read[u])
    BY <2>2, <2>3 DEF UnitOf
  <2> QED
    BY <2>2, <2>3, <2>4 DEF c, x, y
<1>10. InOrder(d, read) /\ WholeIn(blocks, read)
  <2> HIDE DEF m
  <2> QED
    BY <1>1, <1>3, <1>5, <1>6, <1>7, <1>8, <1>9, UnitsFollow
<1>11. WellSized(read)
  <2> HIDE DEF m
  <2>1. m > 1 => \A u \in 1..m : read[u].weight \in MinUnitWeight..HeaviestUnit
    BY <1>2, <1>9 DEF UnitSized, m
  <2>2. \A u \in 1..(m - 1) : read[u].closing # "heading"
    <3> TAKE u \in 1..(m - 1)
    <3>1. u \in 1..m
      BY <1>3
    <3>2. ~EndsWithHeading(chunks[u])
      BY <1>2 DEF UnitSized, m
    <3> QED
      BY <1>9, <3>1, <3>2 DEF EndsWithHeading
  <2> QED
    BY <1>5, <1>6, <2>1, <2>2 DEF WellSized
<1> QED
  BY <1>3, <1>6, <1>10, <1>11 DEF read, blocks

\* Whatever the document, also with paragraphs that weigh nothing and with fences in lists, its
\* reading units follow its text without gap or overlap, none of several is too light or too
\* heavy, and none but the last ends with a heading (segmentReadingUnits).
THEOREM SegmentsSoundly ==
  \A d \in Seq(Line) : LET read == segmentReadingUnits(d) IN InOrder(d, read) /\ WellSized(read)
BY ReadingUnits

\* Whatever the document, no reading unit cuts a block: each fence, list, table or paragraph
\* is read as a whole (chunkBlocks groups what parseBlocks found).
THEOREM BlocksStayWhole ==
  \A d \in Seq(Line) : LET blocks == parseBlocks(d)
                          read == segmentReadingUnits(d) IN
    \A b \in 1..Len(blocks) : \E u \in DOMAIN read :
      read[u].first <= blocks[b].first /\ blocks[b].last <= read[u].last
BY ReadingUnits DEF WholeIn

-----------------------------------------------------------------------------
(* DocumentReview *)

\* The friction of the first n units.
NotedUpTo(n) == [i \in 1..n |-> i]

\* How far the reader is, what it has noted, and that nothing is read before the document is.
ReadingInv ==
  /\ currentUnit \in Nat
  /\ finished => currentUnit = units
  /\ friction = NotedUpTo(IF finished THEN units ELSE Higher(0, currentUnit - 1))

\* The files that were written, by where the run is, and what it has when it writes them.
WritingInv ==
  /\ stage \notin Outcomes \cup {"metadata"} => files = {}
  /\ stage = "metadata" => files = {"review"}
  /\ stage \in {"review", "metadata"} => finished /\ finalReview
  /\ stage \in {"reading file", "preparing"} => ~finished

ReviewIInv == ReadingInv /\ WritingInv

-----------------------------------------------------------------------------
\* Noting the next unit extends what was noted.
LEMMA NotedNext == ASSUME NEW n \in Nat, n > 0 PROVE Append(NotedUpTo(n - 1), n) = NotedUpTo(n)
<1>1. NotedUpTo(n - 1) \in Seq(Nat) /\ Len(NotedUpTo(n - 1)) = n - 1
  <2>1. n - 1 \in Nat
    OBVIOUS
  <2> QED
    BY <2>1 DEF NotedUpTo
<1>2. DOMAIN Append(NotedUpTo(n - 1), n) = 1..n
  BY <1>1
<1>3. ASSUME NEW i \in 1..n PROVE Append(NotedUpTo(n - 1), n)[i] = i
  <2>1. CASE i = n
    BY <1>1, <2>1
  <2>2. CASE i # n
    <3>1. i \in 1..(n - 1)
      BY <2>2
    <3>2. Append(NotedUpTo(n - 1), n)[i] = NotedUpTo(n - 1)[i]
      BY <1>1, <3>1
    <3> QED
      BY <3>1, <3>2 DEF NotedUpTo
  <2> QED
    BY <2>1, <2>2
<1>4. Append(NotedUpTo(n - 1), n) \in Seq(Nat)
  BY <1>1
<1>5. Append(NotedUpTo(n - 1), n) = [i \in 1..n |-> Append(NotedUpTo(n - 1), n)[i]]
  BY <1>2, <1>4
<1> QED
  BY <1>3, <1>5 DEF NotedUpTo

\* What precedes the unit that is shown.
LEMMA Preceding ==
  ASSUME NEW n \in Nat
  PROVE  /\ n = 0 => Higher(0, n - 1) = 0
         /\ n > 0 => Higher(0, n - 1) = n - 1
BY DEF Higher

\* Nothing is read and nothing written before the run begins.
LEMMA ReviewInitIInv == ReviewInit => ReviewIInv
<1> SUFFICES ASSUME ReviewInit PROVE ReviewIInv
  OBVIOUS
<1>1. NotedUpTo(0) = <<>>
  BY DEF NotedUpTo
<1>2. Higher(0, currentUnit - 1) = 0
  BY Preceding DEF ReviewInit
<1>3. ReadingInv
  BY <1>1, <1>2 DEF ReviewInit, ReadingInv
<1>4. WritingInv
  BY DEF ReviewInit, WritingInv, Outcomes
<1> QED
  BY <1>3, <1>4 DEF ReviewIInv

\* Only the reading tool moves the reader on, and it notes the unit that is left.
LEMMA StepReading == ReviewIInv /\ [ReviewNext]_reviewVars => ReadingInv'
<1> SUFFICES ASSUME ReviewIInv, [ReviewNext]_reviewVars PROVE ReadingInv'
  OBVIOUS
<1> USE DEF ReviewIInv
<1>1. ASSUME NEW afterUnit \in 0..units, NEW noted \in BOOLEAN, NextReadingUnit(afterUnit, noted)
      PROVE ReadingInv'
  <2>1. /\ ~finished /\ friction' = Records /\ UNCHANGED units
        /\ friction = NotedUpTo(Higher(0, currentUnit - 1))
        /\ currentUnit \in Nat
    BY <1>1 DEF NextReadingUnit, Accepted, ReadingInv
  <2>2. friction' = NotedUpTo(currentUnit)
    <3>1. CASE currentUnit = 0
      BY <2>1, <3>1, Preceding DEF Records
    <3>2. CASE currentUnit > 0
      BY <2>1, <3>2, NotedNext, Preceding DEF Records
    <3> QED
      BY <2>1, <3>1, <3>2
  <2>3. CASE currentUnit = units
    BY <1>1, <2>1, <2>2, <2>3 DEF NextReadingUnit, ReadingInv
  <2>4. CASE currentUnit # units
    <3>1. currentUnit' = currentUnit + 1 /\ UNCHANGED finished
      BY <1>1, <2>4 DEF NextReadingUnit
    <3>2. Higher(0, currentUnit' - 1) = currentUnit
      BY <2>1, <3>1, Preceding
    <3> QED
      BY <2>1, <2>2, <3>1, <3>2 DEF ReadingInv
  <2> QED
    BY <2>3, <2>4
<1>2. CASE Segments
  BY <1>2 DEF Segments, protocol, ReadingInv, WritingInv
<1>3. CASE UNCHANGED <<units, protocol>>
  BY <1>3 DEF protocol, ReadingInv
<1>4. CASE Begins \/ PromptEnds \/ Continue \/ Conclude \/ Saves \/ WriteReview
           \/ WriteMetadata \/ Shows
  BY <1>3, <1>4 DEF Begins, PromptEnds, Continue, Conclude, Saves, WriteReview, WriteMetadata, Shows
<1>5. CASE CannotPrepare \/ PromptFails \/ Speaks \/ Abort \/ UNCHANGED reviewVars
  BY <1>3, <1>5 DEF CannotPrepare, PromptFails, Speaks, Abort, reviewVars
<1> QED
  BY <1>1, <1>2, <1>4, <1>5 DEF ReviewNext, Runs

\* The writes come one after the other, and only after EOF and a review.
LEMMA StepWriting == ReviewIInv /\ [ReviewNext]_reviewVars => WritingInv'
<1> SUFFICES ASSUME ReviewIInv, [ReviewNext]_reviewVars PROVE WritingInv'
  OBVIOUS
<1> USE DEF ReviewIInv, WritingInv
<1>1. ASSUME NEW afterUnit \in 0..units, NEW noted \in BOOLEAN, NextReadingUnit(afterUnit, noted)
      PROVE WritingInv'
  BY <1>1 DEF NextReadingUnit, Prompting, Outcomes
<1>2. CASE Segments \/ CannotPrepare
  <2>1. CASE Segments
    <3>1. /\ stage = "reading file" /\ ~finished' /\ files' = {}
          /\ stage' = "failed" \/ stage' = "preparing"
      BY <2>1 DEF Segments, Fail, protocol, Outcomes
    <3> QED
      BY <3>1 DEF Outcomes
  <2>2. CASE CannotPrepare
    BY <2>2 DEF CannotPrepare, Fail, protocol, Outcomes
  <2> QED
    BY <1>2, <2>1, <2>2
<1>3. CASE Begins \/ PromptEnds \/ PromptFails
  BY <1>3 DEF Begins, PromptEnds, PromptFails, promptReader, Thrown, protocol, Prompting, Outcomes
<1>4. CASE Continue \/ Conclude \/ Saves
  BY <1>4 DEF Continue, Conclude, Saves, promptReader, Fail, Thrown, protocol, Outcomes
<1>5. CASE WriteReview
  BY <1>5 DEF WriteReview, protocol, Outcomes
<1>6. CASE WriteMetadata
  BY <1>6 DEF WriteMetadata, Kept, protocol, Outcomes
<1>7. CASE Speaks \/ Shows \/ Abort \/ UNCHANGED reviewVars
  <2>1. CASE Speaks
    BY <2>1 DEF Speaks, protocol, Prompting, Outcomes
  <2>2. CASE UNCHANGED <<protocol, stage, finalReview, files>>
    BY <2>2 DEF protocol, Outcomes
  <2> QED
    BY <1>7, <2>1, <2>2 DEF Shows, Abort, reviewVars
<1> QED
  BY <1>1, <1>2, <1>3, <1>4, <1>5, <1>6, <1>7 DEF ReviewNext, Runs

\* The inductive invariant holds in every reachable state.
THEOREM ReviewInvariant == ReviewSpec => []ReviewIInv
<1>1. ReviewIInv /\ [ReviewNext]_reviewVars => ReviewIInv'
  BY StepReading, StepWriting DEF ReviewIInv
<1> QED
  BY ReviewInitIInv, <1>1, PTL DEF ReviewSpec

\* Friction is recorded once for each unit, in order, before the next one is revealed.
THEOREM FrictionOrdered == ReviewSpec => []FrictionInOrder
<1>1. ReviewIInv => FrictionInOrder
  BY DEF ReviewIInv, ReadingInv, FrictionInOrder, NotedUpTo
<1> QED
  BY <1>1, ReviewInvariant, PTL

\* A report is returned only after EOF and a review, both files written, by a run that was
\* not cancelled; a cancelled run is not prompted again.
THEOREM ReportIsEarned == ReviewSpec => ReportEarned
<1>1. ReviewIInv /\ [ReviewNext]_reviewVars =>
        /\ stage # "returned" /\ stage' = "returned" =>
             ~cancelled /\ finished /\ finalReview /\ files' = {"review", "metadata"}
        /\ cancelled /\ stage' \in Prompting => stage' = stage
  <2> SUFFICES ASSUME ReviewIInv, [ReviewNext]_reviewVars
               PROVE  /\ stage # "returned" /\ stage' = "returned" =>
                           ~cancelled /\ finished /\ finalReview /\ files' = {"review", "metadata"}
                      /\ cancelled /\ stage' \in Prompting => stage' = stage
    OBVIOUS
  <2>1. CASE WriteMetadata
    BY <2>1 DEF WriteMetadata, Kept, ReviewIInv, WritingInv, Prompting
  <2>2. CASE Begins \/ PromptEnds \/ PromptFails
    BY <2>2 DEF Begins, PromptEnds, PromptFails, promptReader, Prompting
  <2>3. CASE Continue \/ Conclude \/ Saves
    BY <2>3 DEF Continue, Conclude, Saves, promptReader, Fail, Prompting
  <2>4. CASE Segments \/ CannotPrepare \/ WriteReview
    BY <2>4 DEF Segments, CannotPrepare, Fail, WriteReview, Prompting
  <2>5. CASE UNCHANGED stage
    BY <2>5
  <2>6. CASE \E afterUnit \in 0..units, noted \in BOOLEAN : NextReadingUnit(afterUnit, noted)
    BY <2>5, <2>6 DEF NextReadingUnit
  <2>7. CASE Speaks \/ Shows \/ Abort \/ UNCHANGED reviewVars
    BY <2>5, <2>7 DEF Speaks, Shows, Abort, reviewVars
  <2> QED
    BY <2>1, <2>2, <2>3, <2>4, <2>6, <2>7 DEF ReviewNext, Runs
<1> QED
  BY <1>1, ReviewInvariant, PTL DEF ReviewSpec, ReportEarned

\* Numbers of the run: the next unit, and one more attempt, are in range.
LEMMA NextInRange ==
  ASSUME NEW m \in Nat, NEW k \in 0..m
  PROVE  /\ k # m => k + 1 \in 0..m
         /\ k > 0 => k \in 1..m
OBVIOUS

\* ... and so are the first and the last.
LEMMA RangeEnds ==
  ASSUME NEW m \in Nat
  PROVE  0 \in 0..m /\ m + 1 \in 0..(m + 1) /\ <<>> \in Seq(1..m)
OBVIOUS

\* One more attempt is one of those allowed (the Math.min of the continuations).
LEMMA NextAttempt ==
  ASSUME NEW m \in Nat, NEW k \in 0..(m + 1)
  PROVE  Lower(k + 1, m) \in 0..(m + 1)
BY DEF Lower

\* Before the document is read there is one, and nothing was read of it.
Unread == stage = "reading file" => document \in Documents /\ currentUnit = 0 /\ friction = <<>>

\* The run starts with a document of which nothing was read.
LEMMA ReviewInitTyped == ReviewInit => ReviewTypeOK /\ Unread
<1> SUFFICES ASSUME ReviewInit PROVE ReviewTypeOK /\ Unread
  OBVIOUS
<1>1. <<>> \in Seq(1..units)
  OBVIOUS
<1>2. 0 \in 0..units /\ 0 \in 0..(Continuations + 1) /\ 0 \in Nat
  <2>1. \A m \in Nat : 0 \in 0..m /\ m + 1 \in Nat
    OBVIOUS
  <2> QED
    BY <2>1, ReviewAssumption DEF ReviewInit
<1> QED
  BY <1>1, <1>2 DEF ReviewInit, ReviewTypeOK, Unread, Stages, Outcomes

\* Every step keeps the types, the number of units among them.
LEMMA ReviewTypeKeeps == ReviewTypeOK /\ Unread /\ [ReviewNext]_reviewVars => ReviewTypeOK' /\ Unread'
<1> SUFFICES ASSUME ReviewTypeOK, Unread, [ReviewNext]_reviewVars PROVE ReviewTypeOK' /\ Unread'
  OBVIOUS
<1> USE DEF ReviewTypeOK, Unread
<1>1. ASSUME NEW afterUnit \in 0..units, NEW noted \in BOOLEAN, NextReadingUnit(afterUnit, noted)
      PROVE  ReviewTypeOK' /\ Unread'
  <2>1. /\ stage # "reading file" /\ UNCHANGED <<document, units, stage, attempts, finalReview, files, cancelled, shown>>
        /\ friction' = Records
    BY <1>1 DEF NextReadingUnit, Prompting
  <2>2. currentUnit' \in 0..units /\ finished' \in BOOLEAN
    <3>1. units \in Nat /\ currentUnit \in 0..units
      OBVIOUS
    <3>2. CASE currentUnit = units
      BY <1>1, <3>1, <3>2 DEF NextReadingUnit
    <3>3. CASE currentUnit # units
      <4>1. currentUnit' = currentUnit + 1 /\ UNCHANGED finished
        BY <1>1, <3>3 DEF NextReadingUnit
      <4>2. currentUnit + 1 \in 0..units
        BY <3>1, <3>3, NextInRange
      <4> QED
        BY <4>1, <4>2
    <3> QED
      BY <3>2, <3>3
  <2>3. Records \in Seq(1..units)
    <3>1. CASE currentUnit > 0
      <4> DEFINE T == 1..units
      <4>1. currentUnit \in T
        <5>1. units \in Nat /\ currentUnit \in 0..units
          OBVIOUS
        <5> QED
          BY <3>1, <5>1, NextInRange
      <4>2. friction \in Seq(T)
        OBVIOUS
      <4> HIDE DEF T
      <4>3. Append(friction, currentUnit) \in Seq(T)
        BY <4>1, <4>2, AppendProperties
      <4> QED
        BY <3>1, <4>3 DEF Records, T
    <3> QED
      BY <3>1 DEF Records
  <2> QED
    BY <2>1, <2>2, <2>3
<1>2. CASE Segments
  <2>1. document \in Seq(Line) /\ currentUnit = 0 /\ friction = <<>>
    BY <1>2, ReviewAssumption DEF Segments
  <2>2. units' \in Nat
    BY <1>2, <2>1, ReadingUnits DEF Segments
  <2>3. currentUnit' \in 0..units' /\ friction' \in Seq(1..units')
    <3>1. UNCHANGED <<currentUnit, friction>>
      BY <1>2 DEF Segments, protocol
    <3>2. 0 \in 0..units' /\ <<>> \in Seq(1..units')
      <4> DEFINE m == units'
      <4> HIDE DEF m
      <4>1. m \in Nat
        BY <2>2 DEF m
      <4>2. 0 \in 0..m /\ <<>> \in Seq(1..m)
        BY <4>1, RangeEnds
      <4> QED
        BY <4>2 DEF m
    <3> QED
      BY <2>1, <3>1, <3>2
  <2>4. /\ document' = NoDocument /\ stage' \in {"failed", "preparing"}
        /\ UNCHANGED <<finished, attempts, finalReview, files, cancelled, shown>>
    BY <1>2 DEF Segments, Fail, protocol
  <2> QED
    BY <2>2, <2>3, <2>4 DEF Stages, Outcomes
<1>3. ASSUME UNCHANGED <<document, units, currentUnit, friction>>,
             finished' \in BOOLEAN /\ finalReview' \in BOOLEAN /\ cancelled' \in BOOLEAN /\ shown' \in BOOLEAN,
             stage' \in Stages \cup Outcomes, stage' # "reading file" \/ UNCHANGED stage,
             attempts' \in 0..(Continuations + 1), files' \subseteq {"review", "metadata", "error"}
      PROVE  ReviewTypeOK' /\ Unread'
  BY <1>3
<1>4. \A next \in Stages : promptReader(next) => stage' \in Stages \cup Outcomes
  BY DEF promptReader, Outcomes
<1>5. Thrown => files' \subseteq {"review", "metadata", "error"}
  BY DEF Thrown
<1>6. CASE Begins \/ PromptEnds \/ PromptFails \/ Saves
  BY <1>3, <1>5, <1>6 DEF Begins, PromptEnds, PromptFails, Saves, promptReader, protocol, Stages, Outcomes, Prompting
<1>7. CASE Continue \/ Conclude
  <2>1. attempts' \in 0..(Continuations + 1)
    <3>1. Continuations \in Nat /\ attempts \in 0..(Continuations + 1)
      BY ReviewAssumption
    <3>2. Lower(attempts + 1, Continuations) \in 0..(Continuations + 1)
      BY <3>1, NextAttempt
    <3>3. Continuations + 1 \in 0..(Continuations + 1)
      BY <3>1, RangeEnds
    <3> QED
      BY <1>7, <3>1, <3>2, <3>3 DEF Continue, Conclude, Fail
  <2> QED
    BY <1>3, <1>5, <1>7, <2>1 DEF Continue, Conclude, Fail, promptReader, protocol, Stages, Outcomes, Prompting
<1>8. CASE CannotPrepare
  BY <1>3, <1>8 DEF CannotPrepare, Fail, protocol, Outcomes
<1>9. CASE WriteReview \/ WriteMetadata
  BY <1>3, <1>9 DEF WriteReview, WriteMetadata, Kept, protocol, Stages, Outcomes
<1>10. CASE Speaks \/ Abort \/ Shows
  BY <1>3, <1>10 DEF Speaks, Abort, Shows, protocol
<1>11. CASE UNCHANGED reviewVars
  BY <1>11 DEF reviewVars, protocol
<1> QED
  BY <1>1, <1>2, <1>6, <1>7, <1>8, <1>9, <1>10, <1>11 DEF ReviewNext, Runs

\* Every variable keeps its type: the document has finitely many units, the reader is at one
\* of them, and notes friction with those only.
THEOREM ReviewTypeCorrect == ReviewSpec => []ReviewTypeOK
<1>1. ReviewSpec => [](ReviewTypeOK /\ Unread)
  BY ReviewInitTyped, ReviewTypeKeeps, PTL DEF ReviewSpec
<1> QED
  BY <1>1, PTL

\* Whichever document the run was given, its units are sound.
THEOREM UnitsSoundHolds == ReviewSpec => []UnitsSound
<1>1. ReviewTypeOK => UnitsSound
  <2> SUFFICES ASSUME ReviewTypeOK, document # NoDocument
               PROVE  LET read == segmentReadingUnits(document) IN InOrder(document, read) /\ WellSized(read)
    BY DEF UnitsSound
  <2>1. document \in Seq(Line)
    BY ReviewAssumption DEF ReviewTypeOK
  <2> QED
    BY <2>1, SegmentsSoundly
<1> QED
  BY <1>1, ReviewTypeCorrect, PTL

-----------------------------------------------------------------------------
(* Ask *)

\* What an entry of a list may be, in a state of the question that is asked.
Kinds == {"keep", "option", "done", "other", "fork", "back", "edit"}
Entry == {c \in [kind : Kinds, label : Labels \cup {<<>>}, recommended : BOOLEAN] :
  /\ c.kind = "option" => c.label \in Labels
  /\ c.kind # "option" => c = Choice(c.kind)
  /\ c.kind = "keep" => HasPrevious
  /\ c.kind = "done" => DoneOffered
  /\ c.kind = "back" => index > 1}

\* The parameters of the call, and the question that is asked.
AskedOK == questions \in [Indices -> Question] /\ index \in Indices

\* The options of the question are a list of labels, which is not empty.
LEMMA OptionsTyped ==
  ASSUME AskedOK
  PROVE  /\ question.options \in Seq(Labels) /\ Len(question.options) \in Nat \ {0}
         /\ DOMAIN question.options = 1..Len(question.options)
         /\ \A i \in DOMAIN question.options : question.options[i] \in Labels
<1>1. question.options \in Options
  BY DEF AskedOK, question, Question
<1>2. question.options \in Seq(Labels) /\ question.options # <<>>
  BY <1>1, AskAssumption
<1> QED
  BY <1>2, EmptySeq, LenProperties, ElementOfSeq

\* A part of the list that is there on a condition.
LEMMA IfTyped ==
  ASSUME NEW S, NEW s \in Seq(S), NEW condition \in BOOLEAN
  PROVE  If(condition, s) \in Seq(S)
BY EmptySeq DEF If

\* A kind that is not an option's, where its condition holds, is an entry.
LEMMA ChoiceIsEntry ==
  ASSUME NEW k \in Kinds \ {"option"},
         k = "keep" => HasPrevious, k = "done" => DoneOffered, k = "back" => index > 1
  PROVE  Choice(k) \in Entry /\ <<Choice(k)>> \in Seq(Entry) /\ Len(<<Choice(k)>>) = 1
<1>1. Choice(k) \in Entry
  BY DEF Entry, Choice, Kinds
<1> QED
  BY <1>1

\* The list before the fork option, that option, and what may follow it.
LEMMA ChoicesSplit ==
  ASSUME AskedOK
  PROVE  \E before \in Seq(Entry), after \in Seq(Entry) :
           PickerChoices = before \o <<Choice("fork")>> \o after
<1> DEFINE keep == If(HasPrevious, <<Choice("keep")>>)
           options == [i \in DOMAIN question.options |-> Option(i)]
           done == If(DoneOffered, <<Choice("done")>>)
           other == If(question.allowOther, <<Choice("other")>>)
           back == If(index > 1, <<Choice("back")>>)
<1>1. keep \in Seq(Entry)
  BY ChoiceIsEntry, EmptySeq DEF If, Kinds
<1>2. done \in Seq(Entry)
  BY ChoiceIsEntry, EmptySeq DEF If, Kinds
<1>3. other \in Seq(Entry)
  BY ChoiceIsEntry, EmptySeq DEF If, Kinds
<1>4. back \in Seq(Entry)
  BY ChoiceIsEntry, EmptySeq DEF If, Kinds
<1>5. options \in Seq(Entry)
  <2>1. \A i \in DOMAIN question.options : Option(i) \in Entry
    BY OptionsTyped DEF Option, Entry, Kinds
  <2> QED
    BY <2>1, OptionsTyped
<1>6. PickerChoices = keep \o options \o done \o other \o <<Choice("fork")>> \o back
  BY DEF PickerChoices
<1> HIDE DEF keep, options, done, other, back
<1>7. keep \o options \o done \o other \in Seq(Entry)
  BY <1>1, <1>2, <1>3, <1>5, ConcatProperties
<1> QED
  BY <1>4, <1>6, <1>7

\* The list is one of entries, with the fork option among them.
LEMMA ChoicesTyped ==
  ASSUME AskedOK
  PROVE  /\ PickerChoices \in Seq(Entry)
         /\ Len(PickerChoices) \in Nat \ {0} /\ DOMAIN PickerChoices = 1..Len(PickerChoices)
         /\ \E i \in DOMAIN PickerChoices : PickerChoices[i].kind = "fork"
         /\ \A i \in DOMAIN PickerChoices : PickerChoices[i] \in Entry
<1>1. PICK before \in Seq(Entry), after \in Seq(Entry) :
        PickerChoices = before \o <<Choice("fork")>> \o after
  BY ChoicesSplit
<1>2. <<Choice("fork")>> \in Seq(Entry) /\ Len(<<Choice("fork")>>) = 1
  BY ChoiceIsEntry DEF Kinds
<1> DEFINE first == before \o <<Choice("fork")>>
           n == Len(before) + 1
<1>3. Len(before) \in Nat /\ Len(after) \in Nat
  BY LenProperties
<1>4. first \in Seq(Entry) /\ Len(first) = n /\ first[n] = Choice("fork")
  BY <1>2, <1>3
<1> HIDE DEF first
<1>5. PickerChoices \in Seq(Entry)
      /\ Len(PickerChoices) = n + Len(after) /\ PickerChoices[n] = Choice("fork")
  BY <1>1, <1>3, <1>4, ConcatProperties DEF first
<1>6. DOMAIN PickerChoices = 1..Len(PickerChoices)
      /\ \A i \in DOMAIN PickerChoices : PickerChoices[i] \in Entry
  BY <1>5, LenProperties, ElementOfSeq
<1>7. PickerChoices[n].kind = "fork"
  BY <1>5 DEF Choice
<1>8. Len(PickerChoices) \in Nat \ {0} /\ n \in DOMAIN PickerChoices
  BY <1>3, <1>5, <1>6
<1> HIDE DEF n
<1> QED
  BY <1>5, <1>6, <1>7, <1>8

\* So is the list of the standard dialogs, with the entry that stands for the edit key.
LEMMA EntriesTyped ==
  ASSUME AskedOK
  PROVE  /\ Entries \in Seq(Entry) /\ DOMAIN Entries = 1..Len(Entries) /\ Len(Entries) \in Nat
         /\ \A i \in DOMAIN Entries : Entries[i] \in Entry
<1> DEFINE fork == CHOOSE i \in DOMAIN PickerChoices : PickerChoices[i].kind = "fork"
           before == SubSeq(PickerChoices, 1, fork - 1)
           after == SubSeq(PickerChoices, fork, Len(PickerChoices))
<1>1. fork \in 1..Len(PickerChoices)
  BY ChoicesTyped
<1> HIDE DEF fork
<1>2. before \in Seq(Entry) /\ after \in Seq(Entry)
  BY <1>1, ChoicesTyped, SubSeqProperties
<1>3. EditEntry \in Entry /\ <<EditEntry>> \in Seq(Entry)
  BY ChoiceIsEntry DEF EditEntry, Kinds
<1>4. Entries = before \o <<EditEntry>> \o after
  BY DEF Entries, fork
<1> HIDE DEF before, after
<1>5. Entries \in Seq(Entry)
  BY <1>2, <1>3, <1>4
<1> QED
  BY <1>5, LenProperties, ElementOfSeq

\* What the variables hold.
CallTyped ==
  /\ AskedOK /\ tui \in BOOLEAN
  /\ results \in Seq(Result) /\ Len(results) <= Questions
  /\ selected \subseteq Labels /\ custom \in Texts \cup {NoText} /\ draft \in Texts \cup {NoText}
  /\ dialog \in Dialogs \cup Ended /\ aborted \in BOOLEAN
  /\ given \in [Indices -> SUBSET (Labels \cup Texts)]

\* A picker is open only in a call that goes on, with its cursor on a row of it.
PickerHeld ==
  dialog \in {"picker", "editPick"} => row \in DOMAIN PickerChoices /\ ~aborted

AskIInv == CallTyped /\ PickerHeld

\* There is a first row.
LEMMA FirstRow == AskedOK => 1 \in DOMAIN PickerChoices
BY ChoicesTyped

\* Also after a step.
LEMMA FirstRowNext == (AskedOK => 1 \in DOMAIN PickerChoices)'
BY FirstRow, PTL

\* The list is that of the question, its answer and the selection.
LEMMA SameChoices ==
  ASSUME UNCHANGED <<questions, index, results, selected, custom>>
  PROVE  PickerChoices' = PickerChoices
BY DEF PickerChoices, Option, DoneOffered, HasPrevious, question

\* A new picker is opened on its first row, unless the call was aborted.
LEMMA PickerOpens ==
  ASSUME CallTyped, AskedOK', UNCHANGED aborted, dialog' = selectAskChoice, row' = 1
  PROVE  dialog' \in Dialogs \cup Ended /\ PickerHeld'
BY FirstRowNext DEF CallTyped, PickerHeld, selectAskChoice, Dialogs, Ended

\* A question that is asked starts from its answer.
LEMMA AskedKeeps ==
  ASSUME CallTyped, NEW i \in Indices, NEW answers \in Seq(Result), Asked(i, answers),
         UNCHANGED <<questions, aborted>>, row' = 1
  PROVE  /\ AskedOK' /\ dialog' \in Dialogs \cup Ended /\ PickerHeld'
         /\ selected' \subseteq Labels /\ {custom', draft'} \subseteq Texts \cup {NoText}
<1>1. AskedOK'
  BY DEF Asked, AskedOK, CallTyped
<1>2. i <= Len(answers) => answers[i] \in Result
  BY ElementOfSeq, LenProperties, AskAssumption DEF Indices
<1>3. selected' \subseteq Labels /\ {custom', draft'} \subseteq Texts \cup {NoText}
  BY <1>2 DEF Asked, Result
<1> QED
  BY <1>1, <1>3, PickerOpens DEF Asked

\* An answer without text or options is completed with the default.
LEMMA Finalized ==
  ASSUME CallTyped, NEW result \in Result
  PROVE  finalizedResult(result) \in Result
<1>1. Lesser(Recommended, Len(question.options)) \in DOMAIN question.options
  BY OptionsTyped, AskAssumption DEF CallTyped, Lesser
<1>2. defaultSelection \subseteq Labels
  BY <1>1, OptionsTyped DEF CallTyped, defaultSelection
<1> QED
  BY <1>2 DEF finalizedResult, Result

\* An answer is kept, and the next question is asked.
LEMMA AnswersKeeps ==
  ASSUME CallTyped, NEW result \in Result, Answers(result), UNCHANGED <<questions, tui, aborted>>,
         given' \in [Indices -> SUBSET (Labels \cup Texts)]
  PROVE  AskIInv'
<1> DEFINE final == finalizedResult(result)
           answers == IF HasPrevious THEN [results EXCEPT ![index] = final] ELSE Append(results, final)
<1>1. final \in Result /\ index \in 1..Questions /\ Len(results) \in Nat /\ Questions \in Nat
  BY Finalized, LenProperties, AskAssumption DEF CallTyped, AskedOK, Indices
<1>2. answers \in Seq(Result) /\ Len(answers) <= Questions
  <2>1. CASE HasPrevious
    BY <1>1, <2>1, ExceptSeq DEF HasPrevious, CallTyped
  <2>2. CASE ~HasPrevious
    BY <1>1, <2>2, AppendProperties DEF HasPrevious, CallTyped
  <2> QED
    BY <2>1, <2>2
<1>3. /\ results' = answers /\ row' = 1
      /\ IF index < Questions THEN Asked(index + 1, answers)
         ELSE dialog' = "answered" /\ UNCHANGED <<index, local>>
  BY DEF Answers
<1> HIDE DEF answers
<1>4. CASE index < Questions
  <2>1. index + 1 \in Indices
    BY <1>1, <1>4 DEF Indices
  <2> QED
    BY <1>2, <1>3, <1>4, <2>1, AskedKeeps DEF AskIInv, CallTyped
<1>5. CASE ~(index < Questions)
  BY <1>2, <1>3, <1>5 DEF AskIInv, CallTyped, AskedOK, PickerHeld, local, Ended
<1> QED
  BY <1>4, <1>5

\* The way back asks an earlier question.
LEMMA GoesBackKeeps ==
  ASSUME CallTyped, index > 1, GoesBack, UNCHANGED <<questions, tui, aborted>>,
         given' \in [Indices -> SUBSET (Labels \cup Texts)]
  PROVE  AskIInv'
<1>1. index - 1 \in Indices
  BY AskAssumption DEF CallTyped, AskedOK, Indices
<1>2. AskedOK' /\ dialog' \in Dialogs \cup Ended /\ PickerHeld'
      /\ selected' \subseteq Labels /\ {custom', draft'} \subseteq Texts \cup {NoText}
  BY <1>1, AskedKeeps DEF GoesBack, CallTyped
<1> QED
  BY <1>2 DEF GoesBack, AskIInv, CallTyped

\* Whatever entry of the list is chosen.
LEMMA ChosenKeeps ==
  ASSUME AskIInv, NEW choice \in Entry, Chosen(choice), UNCHANGED <<questions, tui, aborted>>,
         dialog = "picker", given' \in [Indices -> SUBSET (Labels \cup Texts)]
  PROVE  AskIInv'
<1>0. CallTyped /\ AskedOK
  BY DEF AskIInv, CallTyped
<1>1. CASE Keep(choice)
  <2>1. index \in 1..Len(results) /\ results[index] \in Result
    BY <1>0, <1>1, ElementOfSeq, LenProperties, AskAssumption
    DEF Keep, Entry, HasPrevious, CallTyped, AskedOK, Indices
  <2> QED
    BY <1>0, <1>1, <2>1, AnswersKeeps DEF Keep
<1>2. CASE Toggle(choice)
  <2>1. selected' \subseteq Labels
    BY <1>0, <1>2 DEF Toggle, Entry, CallTyped
  <2>2. AskedOK'
    BY <1>0, <1>2 DEF Toggle, GoesOn, AskedOK
  <2> QED
    BY <1>0, <1>2, <2>1, <2>2, PickerOpens DEF Toggle, GoesOn, AskIInv, CallTyped
<1>3. CASE Choose(choice)
  <2>1. [selected |-> {choice.label}, custom |-> NoText] \in Result
    BY <1>3 DEF Choose, Entry, Result
  <2> QED
    BY <1>0, <1>3, <2>1, AnswersKeeps DEF Choose
<1>4. CASE Finish(choice)
  <2>1. [selected |-> selected, custom |-> custom] \in Result
    BY <1>0 DEF CallTyped, Result
  <2> QED
    BY <1>0, <1>4, <2>1, AnswersKeeps DEF Finish
<1>5. CASE Opens(choice)
  <2>1. dialog' \in {"other", "discuss", "editPick"}
        /\ UNCHANGED <<index, results, selected, custom, draft, row>>
    BY <1>5 DEF Opens, local
  <2>2. PickerChoices' = PickerChoices
    BY <2>1, SameChoices
  <2> QED
    BY <1>0, <2>1, <2>2 DEF AskIInv, CallTyped, AskedOK, PickerHeld, Dialogs
<1>6. CASE Back(choice)
  BY <1>0, <1>6, GoesBackKeeps DEF Back, Entry
<1> QED
  BY <1>1, <1>2, <1>3, <1>4, <1>5, <1>6 DEF Chosen

\* The rows of the standard dialogs.
EntryLabels == uniqueLabels([j \in DOMAIN Entries |-> Display(Entries[j])])

\* The answer of a standard dialog stands for an entry with the label of the row that is picked.
LEMMA SelectedEntry ==
  ASSUME AskedOK, NEW i \in DOMAIN Entries
  PROVE  \E j \in DOMAIN Entries : selectLabeled(Entries, i) = Entries[j] /\ EntryLabels[j] = EntryLabels[i]
<1> DEFINE Same == {j \in DOMAIN Entries : EntryLabels[j] = EntryLabels[i]}
           First(j) == /\ EntryLabels[j] = EntryLabels[i]
                       /\ \A k \in 1..(j - 1) : EntryLabels[k] # EntryLabels[i]
<1>1. DOMAIN Entries = 1..Len(Entries) /\ Len(Entries) \in Nat
  BY EntriesTyped
<1>2. Same \subseteq Nat /\ i \in Same
  BY <1>1
<1>3. PICK j \in Same : \A k \in Same : ~(<<k, j>> \in OpToRel(<, Nat))
  BY <1>2, WFMin, NatLessThanWellFounded
<1>4. First(j)
  <2>1. j \in 1..Len(Entries) /\ EntryLabels[j] = EntryLabels[i]
    BY <1>1, <1>3
  <2>2. ASSUME NEW k \in 1..(j - 1) PROVE EntryLabels[k] # EntryLabels[i]
    <3>1. k \in 1..Len(Entries) /\ k \in Nat /\ j \in Nat /\ k < j
      BY <1>1, <2>1, <2>2
    <3>2. <<k, j>> \in OpToRel(<, Nat)
      BY <3>1 DEF OpToRel
    <3>3. k \notin Same
      BY <1>3, <3>2
    <3> QED
      BY <1>1, <3>1, <3>3
  <2> QED
    BY <2>1, <2>2
<1>5. DOMAIN EntryLabels = DOMAIN Entries
  BY DEF EntryLabels, uniqueLabels
<1>6. selectLabeled(Entries, i) = Entries[CHOOSE l \in DOMAIN EntryLabels : First(l)]
  BY DEF selectLabeled, EntryLabels
<1> DEFINE chosen == CHOOSE l \in DOMAIN EntryLabels : First(l)
<1>7. \E l \in DOMAIN EntryLabels : First(l)
  BY <1>3, <1>4, <1>5
<1>8. chosen \in DOMAIN Entries /\ First(chosen)
  BY <1>5, <1>7
<1> QED
  BY <1>6, <1>8

\* What is picked counts as given to the question.
LEMMA PickedTyped ==
  ASSUME CallTyped, NEW choice \in Entry, Picked(choice)
  PROVE  given' \in [Indices -> SUBSET (Labels \cup Texts)]
BY DEF CallTyped, AskedOK, Entry, Picked, Noted

\* The cursor moves round the list.
LEMMA CursorKeeps == ASSUME AskIInv, Up \/ Down PROVE AskIInv'
<1>1. UNCHANGED <<questions, tui, index, results, selected, custom, draft, dialog, aborted, given>>
  BY DEF Up, Down, local
<1>2. PickerChoices' = PickerChoices
  BY <1>1, SameChoices
<1>3. row \in 1..Len(PickerChoices) /\ Len(PickerChoices) \in Nat \ {0}
      /\ DOMAIN PickerChoices = 1..Len(PickerChoices)
  BY ChoicesTyped DEF AskIInv, CallTyped, PickerHeld, Up, Down
<1>4. row' \in 1..Len(PickerChoices)
  <2> DEFINE n == Len(PickerChoices)
  <2>1. row' = (IF row = 1 THEN n ELSE row - 1) \/ row' = (IF row = n THEN 1 ELSE row + 1)
    BY DEF Up, Down
  <2>2. n \in Nat \ {0} /\ row \in 1..n
    BY <1>3
  <2> HIDE DEF n
  <2>3. row' \in 1..n
    BY <2>1, <2>2
  <2> QED
    BY <2>3 DEF n
<1> QED
  BY <1>1, <1>2, <1>3, <1>4 DEF AskIInv, CallTyped, AskedOK, PickerHeld

\* A row is chosen with the cursor, or in a standard dialog.
LEMMA ConfirmKeeps == ASSUME AskIInv, Confirm \/ Select PROVE AskIInv'
<1>1. CASE Confirm
  <2>1. PickerChoices[row] \in Entry
    BY <1>1, ChoicesTyped DEF Confirm, AskIInv, CallTyped, PickerHeld
  <2> QED
    BY <1>1, <2>1, ChosenKeeps, PickedTyped DEF Confirm, AskIInv
<1>2. CASE Select
  <2>1. PICK i \in DOMAIN Entries : Chosen(selectLabeled(Entries, i)) /\ Picked(Entries[i])
    BY <1>2 DEF Select
  <2>2. Entries[i] \in Entry /\ selectLabeled(Entries, i) \in Entry
    BY EntriesTyped, SelectedEntry DEF AskIInv, CallTyped
  <2> QED
    BY <1>2, <2>1, <2>2, ChosenKeeps, PickedTyped DEF Select, AskIInv
<1> QED
  BY <1>1, <1>2

\* The option to edit is picked, or a picker is left.
LEMMA LeaveKeeps == ASSUME AskIInv, EditKey \/ SelectEdit \/ Escape PROVE AskIInv'
<1>1. CASE EditKey
  BY <1>1 DEF EditKey, AskIInv, CallTyped, AskedOK, PickerHeld, Dialogs, local
<1>2. CASE SelectEdit
  <2>1. UNCHANGED <<questions, tui, index, results, selected, custom, draft, aborted, given>>
    BY <1>2 DEF SelectEdit, local
  <2>2. PickerChoices' = PickerChoices
    BY <2>1, SameChoices
  <2>3. dialog' = "edit" \/ (dialog' = selectAskChoice /\ row' = row)
    BY <1>2 DEF SelectEdit
  <2>4. dialog = "editPick"
    BY <1>2 DEF SelectEdit
  <2> QED
    BY <2>1, <2>2, <2>3, <2>4 DEF AskIInv, CallTyped, AskedOK, PickerHeld, Dialogs, Ended, selectAskChoice
<1>3. CASE Escape
  <2>1. CASE Cancels
    BY <1>3, <2>1 DEF Escape, Cancels, AskIInv, CallTyped, AskedOK, PickerHeld, Ended, local
  <2>2. CASE GoesBack /\ ~(aborted \/ index = 1)
    <3>1. index > 1
      BY <2>2, AskAssumption DEF AskIInv, CallTyped, AskedOK, Indices
    <3> QED
      BY <1>3, <2>2, <3>1, GoesBackKeeps DEF Escape, AskIInv, CallTyped
  <2> QED
    BY <1>3, <2>1, <2>2 DEF Escape, Dismissed
<1> QED
  BY <1>1, <1>2, <1>3

\* The loop goes on with what the question has.
LEMMA GoesOnKeeps ==
  ASSUME AskIInv, GoesOn, UNCHANGED <<questions, tui, selected, custom, aborted, given>>,
         draft' \in Texts \cup {NoText}
  PROVE  AskIInv'
<1>1. AskedOK' /\ CallTyped
  BY DEF GoesOn, AskIInv, CallTyped, AskedOK
<1> QED
  BY <1>1, PickerOpens DEF GoesOn, AskIInv, CallTyped

\* An editor closes.
LEMMA EditorKeeps == ASSUME AskIInv, NEW text \in Texts \cup {NoText}, EditorCloses(text) PROVE AskIInv'
<1>1. CASE text = NoText
  BY <1>1, GoesOnKeeps DEF EditorCloses, AskIInv, CallTyped, local
<1>2. CASE text # NoText
  <2>1. Remaining \subseteq Labels
    BY DEF Remaining, AskIInv, CallTyped
  <2>2. [selected |-> Remaining, custom |-> text] \in Result
    BY <2>1 DEF Result
  <2>3. given' \in [Indices -> SUBSET (Labels \cup Texts)]
    BY <1>2 DEF EditorCloses, Noted, AskIInv, CallTyped, AskedOK
  <2> QED
    BY <1>2, <2>2, <2>3, AnswersKeeps DEF EditorCloses, AskIInv
<1> QED
  BY <1>1, <1>2

\* The editor of a discussion closes, or its fork has started or failed.
LEMMA DiscussionKeeps ==
  ASSUME AskIInv,
         (\E text \in Texts \cup {NoText} : DiscussionCloses(text)) \/ \E started \in BOOLEAN : ForkEnds(started)
  PROVE  AskIInv'
<1>1. UNCHANGED <<questions, tui, selected, custom, aborted, given>> /\ draft' \in Texts \cup {NoText}
  BY DEF DiscussionCloses, ForkEnds, AskIInv, CallTyped
<1>2. CASE GoesOn
  BY <1>1, <1>2, GoesOnKeeps
<1>3. CASE dialog' = "forking" /\ UNCHANGED <<index, results, row>>
  BY <1>1, <1>3 DEF AskIInv, CallTyped, AskedOK, PickerHeld, Dialogs
<1> QED
  BY <1>2, <1>3 DEF DiscussionCloses, ForkEnds

\* The abort closes a picker.
LEMMA AbortsKeeps == ASSUME AskIInv, Aborts PROVE AskIInv'
BY DEF Aborts, AskIInv, CallTyped, AskedOK, PickerHeld, Ended, local

\* A step keeps the types, and an open picker in a call that goes on.
LEMMA AskNextKeeps == AskIInv /\ [AskNext]_askVars => AskIInv'
<1> SUFFICES ASSUME AskIInv, [AskNext]_askVars PROVE AskIInv'
  OBVIOUS
<1>1. CASE UNCHANGED askVars
  <2>1. PickerChoices' = PickerChoices
    BY <1>1, SameChoices DEF askVars, local
  <2> QED
    BY <1>1, <2>1 DEF askVars, local, AskIInv, CallTyped, AskedOK, PickerHeld
<1>2. CASE AskNext
  BY <1>2, CursorKeeps, ConfirmKeeps, LeaveKeeps, EditorKeeps, DiscussionKeeps, AbortsKeeps DEF AskNext
<1> QED
  BY <1>1, <1>2

\* At the beginning the first question is asked.
LEMMA InitAskIInv == AskInit => AskIInv
<1> SUFFICES ASSUME AskInit PROVE AskIInv
  OBVIOUS
<1>1. AskedOK
  BY AskAssumption DEF AskInit, AskedOK, Indices
<1>2. results \in Seq(Result) /\ Len(results) = 0
  BY EmptySeq DEF AskInit
<1>3. {questions} \subseteq [Indices -> Question] /\ Questions \in Nat /\ Len(results) <= Questions
  BY <1>2, AskAssumption DEF AskInit
<1>4. given \in [Indices -> SUBSET (Labels \cup Texts)]
  BY DEF AskInit
<1>5. CallTyped
  BY <1>1, <1>2, <1>3, <1>4 DEF AskInit, CallTyped, Dialogs
<1>6. row \in DOMAIN PickerChoices
  BY <1>1, FirstRow DEF AskInit
<1> QED
  BY <1>5, <1>6 DEF AskInit, AskIInv, PickerHeld

\* The inductive invariant holds in every reachable state.
THEOREM AskInvariant == AskSpec => []AskIInv
BY InitAskIInv, AskNextKeeps, PTL DEF AskSpec

\* The variables of a call keep their types.
THEOREM AskTypeCorrect == AskSpec => []AskTypeOK
<1>1. AskIInv => AskTypeOK
  <2> SUFFICES ASSUME AskIInv PROVE AskTypeOK
    OBVIOUS
  <2>1. \A i \in DOMAIN results : results[i] \in Result
    BY ElementOfSeq, LenProperties DEF AskIInv, CallTyped
  <2> QED
    BY <2>1 DEF AskIInv, CallTyped, AskedOK, PickerHeld, AskTypeOK
<1> QED
  BY <1>1, AskInvariant, PTL

\* An aborted call asks nothing more: an editor may still be open, but no picker follows.
THEOREM AbortedAsksNothingHolds == AskSpec => []AbortedAsksNothing
<1>1. AskIInv => AbortedAsksNothing
  BY DEF AskIInv, PickerHeld, AbortedAsksNothing
<1> QED
  BY <1>1, AskInvariant, PTL

\* The window holds the cursor, and as many rows as there are or fit.
LEMMA WindowFits ==
  ASSUME Len(PickerChoices) \in Nat \ {0}, row \in 1..Len(PickerChoices)
  PROVE  row \in Rendered /\ Cardinality(Rendered) = Lesser(MaxVisible, Len(PickerChoices))
<1> DEFINE n == Len(PickerChoices)
           visible == Lesser(n, MaxVisible)
           half == visible \div 2
<1>1. n \in Nat \ {0} /\ row \in 1..n /\ MaxVisible \in Nat \ {0}
  BY AskAssumption
<1>2. visible \in Nat \ {0} /\ visible <= n /\ visible <= MaxVisible
      /\ (visible = n \/ visible = MaxVisible)
  BY <1>1 DEF Lesser
<1>3. half \in Nat /\ half < visible
  BY <1>2
<1>4. Window = AtLeast0(Lesser(row - 1 - half, n - visible))
  BY DEF Window
<1>5. Rendered = (Window + 1)..Lesser(Window + MaxVisible, n)
  BY DEF Rendered
<1> HIDE DEF n, visible, half
<1>6. /\ Window \in Nat /\ Window + visible <= n
      /\ Window < row /\ row <= Window + visible
  BY <1>1, <1>2, <1>3, <1>4 DEF AtLeast0, Lesser
<1>7. Lesser(Window + MaxVisible, n) = Window + visible
  BY <1>1, <1>2, <1>6 DEF Lesser
<1>8. visible = Lesser(MaxVisible, n)
  BY <1>1, <1>2 DEF Lesser
<1>9. Cardinality((Window + 1)..(Window + visible)) = visible
  BY <1>2, <1>6, FS_Interval
<1> QED
  BY <1>1, <1>5, <1>6, <1>7, <1>8, <1>9 DEF n

\* The cursor's row is among those rendered, and no row is left empty while there are more.
THEOREM CursorRenderedHolds == AskSpec => []CursorRendered
<1>1. AskIInv => CursorRendered
  BY ChoicesTyped, WindowFits DEF AskIInv, CallTyped, PickerHeld, CursorRendered
<1> QED
  BY <1>1, AskInvariant, PTL

\* The marks of an option's row, and the rows of the other entries.
Marks == {Word("[x]"), Word("[ ]"), Word("(Recommended)"), Word("(Current)")}
Names == {Word(k) : k \in Kinds \ {"option"}}

\* No word of a label is a number in parentheses, a mark or the row of another entry.
PlainLabels ==
  \A label \in Labels : \A i \in DOMAIN label : label[i].number = 0 /\ label[i] \notin Marks \cup Names

\* The words a dialog may show.
DialogWords == Words \cup Marks \cup Names \cup {Number(n) : n \in Nat}

\* Marks and rows of entries have no number, and they differ.
LEMMA MarksTyped == Marks \cap Names = {} /\ \A w \in Marks \cup Names : w.number = 0
<1>1. \A w \in Marks : \E text \in {"[x]", "[ ]", "(Recommended)", "(Current)"} : w = Word(text)
  <2> HIDE DEF Word
  <2> QED
    BY Zenon DEF Marks
<1>2. Names = {[text |-> k, number |-> 0] : k \in {"keep", "done", "other", "fork", "back", "edit"}}
  BY DEF Names, Word, Kinds
<1>3. \A w \in Marks : w.number = 0 /\ w.text \in {"[x]", "[ ]", "(Recommended)", "(Current)"}
  <2> SUFFICES ASSUME NEW w \in Marks
               PROVE  w.number = 0 /\ w.text \in {"[x]", "[ ]", "(Recommended)", "(Current)"}
    OBVIOUS
  <2>1. PICK text \in {"[x]", "[ ]", "(Recommended)", "(Current)"} : w = Word(text)
    BY <1>1
  <2>2. Word(text).number = 0 /\ Word(text).text = text
    BY DEF Word
  <2> HIDE DEF Word
  <2> QED
    BY <2>1, <2>2
<1>4. \A w \in Names : w.number = 0 /\ w.text \in {"keep", "done", "other", "fork", "back", "edit"}
  BY <1>2
<1>5. {"[x]", "[ ]", "(Recommended)", "(Current)"} \cap {"keep", "done", "other", "fork", "back", "edit"} = {}
  OBVIOUS
<1> QED
  BY <1>3, <1>4, <1>5

\* A label is a sequence of words.
LEMMA LabelTyped == \A label \in Labels : label \in Seq(DialogWords)
<1>1. Words \subseteq DialogWords
  BY DEF DialogWords
<1> QED
  BY <1>1, SeqMonotonic, AskAssumption

\* A label between two sequences of marks.
LEMMA Framed ==
  ASSUME NEW label \in Seq(DialogWords), NEW before \in Seq(Marks), NEW after \in Seq(Marks),
         NEW displayed, displayed = before \o label \o after
  PROVE  /\ displayed \in Seq(DialogWords) /\ Len(before) \in Nat /\ Len(label) \in Nat
         /\ Len(displayed) \in Nat /\ Len(before) + Len(label) <= Len(displayed)
         /\ \A p \in 1..Len(displayed) :
              \/ p <= Len(before) /\ displayed[p] \in Marks
              \/ /\ p - Len(before) \in DOMAIN label /\ displayed[p] = label[p - Len(before)]
              \/ p > Len(before) + Len(label) /\ displayed[p] \in Marks
         /\ \A k \in DOMAIN label : displayed[Len(before) + k] = label[k]
<1> DEFINE first == before \o label
           n == Len(before)
           m == Len(label)
           l == Len(after)
<1>1. before \in Seq(DialogWords) /\ after \in Seq(DialogWords)
  BY SeqMonotonic DEF DialogWords
<1>2. n \in Nat /\ m \in Nat /\ l \in Nat /\ DOMAIN label = 1..m
  BY <1>1, LenProperties
<1>3. first \in Seq(DialogWords) /\ Len(first) = n + m
      /\ \A p \in 1..(n + m) : first[p] = IF p <= n THEN before[p] ELSE label[p - n]
  BY <1>1, ConcatProperties
<1> HIDE DEF first
<1>4. displayed \in Seq(DialogWords) /\ Len(displayed) = (n + m) + l
      /\ \A p \in 1..((n + m) + l) : displayed[p] = IF p <= n + m THEN first[p] ELSE after[p - (n + m)]
  BY <1>1, <1>3, ConcatProperties DEF first
<1>5. (\A p \in 1..n : before[p] \in Marks) /\ \A p \in 1..l : after[p] \in Marks
  BY ElementOfSeq
<1> HIDE DEF n, m, l
<1>6. ASSUME NEW p \in 1..((n + m) + l)
      PROVE  \/ p <= n /\ displayed[p] \in Marks
             \/ p - n \in 1..m /\ displayed[p] = label[p - n]
             \/ p > n + m /\ displayed[p] \in Marks
  <2>1. CASE p <= n
    <3>1. p \in 1..n /\ p \in 1..(n + m) /\ p <= n + m
      BY <1>2, <2>1
    <3> QED
      BY <1>3, <1>4, <1>5, <2>1, <3>1
  <2>2. CASE p > n /\ p <= n + m
    <3>1. p - n \in 1..m /\ p \in 1..(n + m) /\ ~(p <= n)
      BY <1>2, <2>2
    <3> QED
      BY <1>3, <1>4, <2>2, <3>1
  <2>3. CASE p > n + m
    <3>1. p - (n + m) \in 1..l /\ ~(p <= n + m)
      BY <1>2, <2>3
    <3> QED
      BY <1>4, <1>5, <2>3, <3>1
  <2>4. p <= n \/ (p > n /\ p <= n + m) \/ p > n + m
    BY <1>2
  <2> QED
    BY <2>1, <2>2, <2>3, <2>4
<1>7. ASSUME NEW k \in 1..m PROVE displayed[n + k] = label[k]
  <2>1. n + k \in 1..((n + m) + l) /\ n + k \in 1..(n + m) /\ ~(n + k <= n)
        /\ (n + k) - n = k /\ n + k <= n + m
    BY <1>2
  <2> QED
    BY <1>3, <1>4, <2>1
<1>8. (n + m) + l \in Nat /\ n + m <= (n + m) + l
  BY <1>2
<1> QED
  BY <1>2, <1>4, <1>6, <1>7, <1>8 DEF n, m

\* An option's row: its label between marks.
LEMMA OptionShown ==
  ASSUME NEW choice \in Entry, choice.kind = "option"
  PROVE  /\ choice.label \in Labels /\ choice.label \in Seq(DialogWords)
         /\ \E before \in Seq(Marks), after \in Seq(Marks) :
              Display(choice) = before \o choice.label \o after
<1> DEFINE before == If(question.multi, <<Word(IF choice.label \in selected THEN "[x]" ELSE "[ ]")>>)
           recommended == If(choice.recommended, <<Word("(Recommended)")>>)
           current == If(IsCurrent(choice.label), <<Word("(Current)")>>)
<1>1. choice.label \in Labels /\ choice.label \in Seq(DialogWords)
  BY LabelTyped DEF Entry
<1>2. <<Word(IF choice.label \in selected THEN "[x]" ELSE "[ ]")>> \in Seq(Marks) /\ <<Word("(Recommended)")>> \in Seq(Marks)
      /\ <<Word("(Current)")>> \in Seq(Marks)
  <2>1. Word(IF choice.label \in selected THEN "[x]" ELSE "[ ]") \in Marks
        /\ Word("(Recommended)") \in Marks /\ Word("(Current)") \in Marks
    BY DEF Marks
  <2>2. \A w \in Marks : <<w>> \in Seq(Marks)
    OBVIOUS
  <2> QED
    BY <2>1, <2>2
<1>3. before \in Seq(Marks) /\ recommended \in Seq(Marks) /\ current \in Seq(Marks)
  BY <1>2, EmptySeq DEF If
<1>4. Display(choice) = ((before \o choice.label) \o recommended) \o current
  BY DEF Display
<1> HIDE DEF before, recommended, current
<1>5. before \in Seq(DialogWords) /\ recommended \in Seq(DialogWords) /\ current \in Seq(DialogWords)
  BY <1>3, SeqMonotonic DEF DialogWords
<1>6. before \o choice.label \in Seq(DialogWords)
  BY <1>1, <1>5, ConcatProperties
<1>7. Display(choice) = (before \o choice.label) \o (recommended \o current)
  <2> DEFINE labelled == before \o choice.label
  <2>1. labelled \in Seq(DialogWords) /\ Display(choice) = (labelled \o recommended) \o current
    BY <1>4, <1>6
  <2> HIDE DEF labelled
  <2>2. Display(choice) = labelled \o (recommended \o current)
    BY <1>5, <2>1, ConcatAssociative
  <2> QED
    BY <2>2 DEF labelled
<1>8. recommended \o current \in Seq(Marks)
  BY <1>3, ConcatProperties
<1> QED
  BY <1>1, <1>3, <1>7, <1>8

\* A row is a sequence of words without a number.
LEMMA ShownTyped ==
  ASSUME PlainLabels, NEW choice \in Entry
  PROVE  /\ Display(choice) \in Seq(DialogWords)
         /\ \A p \in DOMAIN Display(choice) : Display(choice)[p].number = 0
<1>1. CASE choice.kind = "option"
  <2>1. PICK before \in Seq(Marks), after \in Seq(Marks) : Display(choice) = before \o choice.label \o after
    BY <1>1, OptionShown
  <2>2. choice.label \in Labels /\ choice.label \in Seq(DialogWords)
    BY <1>1, OptionShown
  <2> DEFINE displayed == Display(choice)
  <2> HIDE DEF displayed
  <2>3. displayed = before \o choice.label \o after
    BY <2>1 DEF displayed
  <2>4. /\ displayed \in Seq(DialogWords)
        /\ \A p \in 1..Len(displayed) :
             \/ displayed[p] \in Marks
             \/ p - Len(before) \in DOMAIN choice.label /\ displayed[p] = choice.label[p - Len(before)]
    BY <2>2, <2>3, Framed
  <2>5. DOMAIN displayed = 1..Len(displayed)
    BY <2>4, LenProperties
  <2> QED
    BY <2>2, <2>4, <2>5, MarksTyped DEF PlainLabels, displayed
<1>2. CASE choice.kind # "option"
  <2>1. Display(choice) = <<Word(choice.kind)>> /\ choice.kind \in Kinds
    BY <1>2 DEF Display, Entry
  <2>2. Word(choice.kind) \in DialogWords /\ Word(choice.kind).number = 0
    BY <1>2, <2>1 DEF Word, DialogWords, Names
  <2> QED
    BY <2>1, <2>2
<1> QED
  BY <1>1, <1>2

\* The row of an option is not that of another entry.
LEMMA OptionsDiffer ==
  ASSUME PlainLabels, NEW c \in Entry, NEW e \in Entry, c.kind = "option", Display(c) = Display(e)
  PROVE  e.kind = "option"
<1> SUFFICES ASSUME e.kind # "option" PROVE FALSE
  OBVIOUS
<1>1. PICK before \in Seq(Marks), after \in Seq(Marks) : Display(c) = before \o c.label \o after
  BY OptionShown
<1>2. c.label \in Labels /\ c.label \in Seq(DialogWords)
  BY OptionShown
<1>3. Display(c) = <<Word(e.kind)>> /\ Word(e.kind) \in Names
  BY DEF Display, Entry, Names
<1> DEFINE displayed == Display(c)
<1>4. Len(displayed) = 1 /\ displayed[1] \in Names
  BY <1>3
<1> HIDE DEF displayed
<1>5. displayed = before \o c.label \o after
  BY <1>1 DEF displayed
<1>6. \/ displayed[1] \in Marks
      \/ 1 - Len(before) \in DOMAIN c.label /\ displayed[1] = c.label[1 - Len(before)]
  BY <1>2, <1>4, <1>5, Framed
<1> QED
  BY <1>2, <1>4, <1>6, MarksTyped DEF PlainLabels

\* After n marks, the words of a row that are not marks are a label.
LabelAt(label, n, displayed) ==
  /\ {p \in 1..Len(displayed) : displayed[p] \notin Marks} = (n + 1)..(n + Len(label))
  /\ \A k \in 1..Len(label) : displayed[n + k] = label[k]

\* What is not a mark of an option's row is its label.
LEMMA LabelShown ==
  ASSUME PlainLabels, NEW label \in Labels, label \in Seq(DialogWords),
         NEW before \in Seq(Marks), NEW after \in Seq(Marks),
         NEW displayed, displayed = before \o label \o after
  PROVE  LabelAt(label, Len(before), displayed)
<1> DEFINE n == Len(before)
           m == Len(label)
           l == Len(displayed)
<1>1. n \in Nat /\ m \in Nat /\ l \in Nat /\ n + m <= l /\ DOMAIN label = 1..m
  BY Framed, LenProperties
<1>2. \A p \in 1..l : \/ p <= n /\ displayed[p] \in Marks
                      \/ p - n \in DOMAIN label /\ displayed[p] = label[p - n]
                      \/ p > n + m /\ displayed[p] \in Marks
  BY Framed
<1>3. \A k \in 1..m : label[k] \notin Marks /\ displayed[n + k] = label[k]
  BY <1>1, Framed DEF PlainLabels
<1> HIDE DEF n, m, l
<1>4. ASSUME NEW p \in 1..l, displayed[p] \notin Marks PROVE p \in (n + 1)..(n + m)
  <2>1. p - n \in 1..m
    BY <1>1, <1>2, <1>4
  <2> QED
    BY <1>1, <2>1
<1>5. ASSUME NEW p \in (n + 1)..(n + m) PROVE p \in 1..l /\ displayed[p] \notin Marks
  <2>1. p - n \in 1..m /\ n + (p - n) = p /\ p \in 1..l
    BY <1>1
  <2>2. displayed[n + (p - n)] \notin Marks
    BY <1>3, <2>1
  <2> QED
    BY <2>1, <2>2
<1> QED
  BY <1>3, <1>4, <1>5 DEF LabelAt, n, m, l

\* A label is told from the marks around it.
LEMMA LabelTold ==
  ASSUME NEW label \in Seq(DialogWords), NEW other \in Seq(DialogWords),
         NEW n \in Nat, NEW n2 \in Nat, NEW displayed, LabelAt(label, n, displayed), LabelAt(other, n2, displayed)
  PROVE  label = other
<1> DEFINE m == Len(label)
           m2 == Len(other)
           plain == {p \in 1..Len(displayed) : displayed[p] \notin Marks}
<1>1. plain = (n + 1)..(n + m) /\ \A k \in 1..m : displayed[n + k] = label[k]
  BY DEF LabelAt
<1>2. plain = (n2 + 1)..(n2 + m2) /\ \A k \in 1..m2 : displayed[n2 + k] = other[k]
  BY DEF LabelAt
<1>3. n \in Nat /\ n2 \in Nat /\ m \in Nat /\ m2 \in Nat /\ DOMAIN label = 1..m /\ DOMAIN other = 1..m2
  BY LenProperties
<1> HIDE DEF plain
<1>4. (n + 1)..(n + m) = (n2 + 1)..(n2 + m2)
  BY <1>1, <1>2
<1> HIDE DEF m, m2
<1>5. m = m2 /\ (m # 0 => n = n2)
  <2>1. CASE m = 0
    <3>1. n2 + 1 \notin (n + 1)..(n + m)
      BY <1>3, <2>1
    <3>2. n2 + 1 \notin (n2 + 1)..(n2 + m2)
      BY <1>4, <3>1
    <3> QED
      BY <1>3, <2>1, <3>2
  <2>2. CASE m # 0
    <3>1. n + 1 \in (n + 1)..(n + m) /\ n + m \in (n + 1)..(n + m)
      BY <1>3, <2>2
    <3>2. n + 1 >= n2 + 1 /\ n + m <= n2 + m2 /\ m2 # 0
      BY <1>4, <1>3, <3>1
    <3>3. n2 + 1 \in (n2 + 1)..(n2 + m2) /\ n2 + m2 \in (n2 + 1)..(n2 + m2)
      BY <1>3, <3>2
    <3>4. n2 + 1 >= n + 1 /\ n2 + m2 <= n + m
      BY <1>4, <1>3, <3>3
    <3> QED
      BY <1>3, <3>2, <3>4
  <2> QED
    BY <2>1, <2>2
<1>6. \A k \in 1..m : label[k] = other[k]
  <2> TAKE k \in 1..m
  <2>1. m # 0
    BY <1>3
  <2> QED
    BY <1>1, <1>2, <1>5, <2>1
<1> QED
  BY <1>5, <1>6, SeqEqual DEF m, m2

\* Equal rows of options have equal labels.
LEMMA LabelsTold ==
  ASSUME PlainLabels, NEW c \in Entry, NEW e \in Entry, c.kind = "option", e.kind = "option",
         Display(c) = Display(e)
  PROVE  c.label = e.label
<1>1. PICK before \in Seq(Marks), after \in Seq(Marks) : Display(c) = before \o c.label \o after
  BY OptionShown
<1>2. PICK before2 \in Seq(Marks), after2 \in Seq(Marks) : Display(c) = before2 \o e.label \o after2
  BY OptionShown
<1>3. c.label \in Labels /\ c.label \in Seq(DialogWords)
      /\ e.label \in Labels /\ e.label \in Seq(DialogWords)
  BY OptionShown
<1> DEFINE displayed == Display(c)
           label == c.label
           other == e.label
<1>4. /\ displayed = before \o label \o after /\ displayed = before2 \o other \o after2
      /\ label \in Labels /\ label \in Seq(DialogWords)
      /\ other \in Labels /\ other \in Seq(DialogWords)
  BY <1>1, <1>2, <1>3
<1> HIDE DEF displayed, label, other
<1>5. LabelAt(label, Len(before), displayed)
  BY <1>4, LabelShown
<1>6. LabelAt(other, Len(before2), displayed)
  BY <1>4, LabelShown
<1>7. Len(before) \in Nat /\ Len(before2) \in Nat
  BY LenProperties
<1>8. label = other
  BY <1>4, <1>5, <1>6, <1>7, LabelTold
<1> QED
  BY <1>8 DEF label, other

\* What a standard dialog shows: the row, or with a number the second time and later.
LEMMA NumberedRow ==
  ASSUME AskedOK, NEW i \in DOMAIN Entries
  PROVE  \/ EntryLabels[i] = Display(Entries[i])
         \/ \E n \in Nat \ {0} : EntryLabels[i] = Append(Display(Entries[i]), Number(n))
<1> DEFINE rows == [j \in DOMAIN Entries |-> Display(Entries[j])]
           same == {j \in 1..i : rows[j] = rows[i]}
<1>1. DOMAIN rows = DOMAIN Entries /\ rows[i] = Display(Entries[i]) /\ i \in Nat /\ i \in 1..i
  BY EntriesTyped
<1>2. IsFiniteSet(1..i)
  BY <1>1, FS_Interval
<1>3. IsFiniteSet(same)
  BY <1>2, FS_Subset
<1>4. Cardinality(same) \in Nat /\ Cardinality(same) # 0
  <2>1. i \in same
    BY <1>1
  <2> QED
    BY <1>3, <2>1, FS_CardinalityType, FS_EmptySet
<1>5. EntryLabels[i] = IF Cardinality(same) = 1 THEN rows[i]
                            ELSE Append(rows[i], Number(Cardinality(same)))
  BY <1>1 DEF EntryLabels, uniqueLabels
<1> QED
  BY <1>1, <1>4, <1>5

\* What a standard dialog shows tells the rows apart.
LEMMA RowsTold ==
  ASSUME AskedOK, PlainLabels, NEW i \in DOMAIN Entries, NEW j \in DOMAIN Entries,
         EntryLabels[i] = EntryLabels[j]
  PROVE  Display(Entries[i]) = Display(Entries[j])
<1> DEFINE s == Display(Entries[i])
           t == Display(Entries[j])
<1>1. Entries[i] \in Entry /\ Entries[j] \in Entry
  BY EntriesTyped
<1>2. /\ s \in Seq(DialogWords) /\ \A p \in DOMAIN s : s[p].number = 0
      /\ t \in Seq(DialogWords) /\ \A p \in DOMAIN t : t[p].number = 0
  BY <1>1, ShownTyped
<1>3. \/ EntryLabels[i] = s
      \/ \E n \in Nat \ {0} : EntryLabels[i] = Append(s, Number(n))
  BY NumberedRow
<1>4. \/ EntryLabels[j] = t
      \/ \E n \in Nat \ {0} : EntryLabels[j] = Append(t, Number(n))
  BY NumberedRow
<1> HIDE DEF s, t
<1>5. ASSUME NEW u \in Seq(DialogWords), NEW v \in Seq(DialogWords), NEW n \in Nat \ {0},
             \A p \in DOMAIN u : u[p].number = 0, u = Append(v, Number(n))
      PROVE  FALSE
  <2>1. Number(n) \in DialogWords /\ Number(n).number = n
    BY DEF Number, DialogWords
  <2>2. Len(v) + 1 \in DOMAIN Append(v, Number(n)) /\ Append(v, Number(n))[Len(v) + 1] = Number(n)
    BY <2>1, AppendProperties, LenProperties
  <2> QED
    BY <1>5, <2>1, <2>2
<1>6. ASSUME NEW n \in Nat \ {0}, NEW k \in Nat \ {0}, Append(s, Number(n)) = Append(t, Number(k))
      PROVE  s = t
  <2>1. Number(n) \in DialogWords /\ Number(k) \in DialogWords
    BY DEF DialogWords
  <2>2. Len(s) \in Nat /\ Len(t) \in Nat /\ Len(s) + 1 = Len(t) + 1
    BY <1>2, <1>6, <2>1, AppendProperties, LenProperties
  <2>3. \A p \in 1..Len(s) : s[p] = t[p]
    <3> TAKE p \in 1..Len(s)
    <3>1. p \in 1..Len(t)
      BY <2>2
    <3>2. Append(s, Number(n))[p] = s[p]
      BY <1>2, <2>1, AppendProperties
    <3>3. Append(t, Number(k))[p] = t[p]
      BY <1>2, <2>1, <3>1, AppendProperties
    <3> QED
      BY <1>6, <3>2, <3>3
  <2> QED
    BY <1>2, <2>2, <2>3, SeqEqual
<1>7. s = t
  BY <1>2, <1>3, <1>4, <1>5, <1>6
<1> QED
  BY <1>7 DEF s, t

\* No question is skipped, and what the question has was given to it, as what is answered was.
GivenHeld ==
  /\ AnswersGiven
  /\ index <= Len(results) + 1
  /\ selected \cup ({custom} \ {NoText}) \subseteq given[index]

\* What is given only grows.
Grows ==
  /\ given' \in [Indices -> SUBSET (Labels \cup Texts)]
  /\ \A i \in Indices : given[i] \subseteq given'[i]

\* The answers are those of questions.
LEMMA ResultsTyped ==
  ASSUME CallTyped
  PROVE  /\ Len(results) \in Nat /\ DOMAIN results = 1..Len(results) /\ DOMAIN results \subseteq Indices
         /\ \A i \in DOMAIN results : results[i] \in Result
         /\ index \in Nat \ {0} /\ Questions \in Nat /\ index <= Questions
         /\ (HasPrevious => index \in DOMAIN results)
<1>1. Len(results) \in Nat /\ DOMAIN results = 1..Len(results)
  BY LenProperties DEF CallTyped
<1>2. index \in Nat \ {0} /\ Questions \in Nat /\ index <= Questions
  BY AskAssumption DEF CallTyped, AskedOK, Indices
<1>3. \A i \in DOMAIN results : results[i] \in Result
  BY <1>1, ElementOfSeq DEF CallTyped
<1> QED
  BY <1>1, <1>2, <1>3 DEF CallTyped, Indices, HasPrevious

\* A question asked again starts from what was given to it.
LEMMA AskedHeld ==
  ASSUME CallTyped, NEW i \in Indices, NEW answers \in Seq(Result), Asked(i, answers), Grows,
         \A k \in DOMAIN answers :
           answers[k].selected \cup ({answers[k].custom} \ {NoText}) \subseteq given'[k]
  PROVE  selected' \cup ({custom'} \ {NoText}) \subseteq given'[index']
<1>1. i <= Len(answers) => i \in DOMAIN answers
  BY LenProperties, AskAssumption DEF Indices
<1>2. index' = i
  BY DEF Asked
<1>3. CASE questions[i].multi /\ i <= Len(answers)
  <2>1. selected' = answers[i].selected /\ custom' = answers[i].custom
    BY <1>3 DEF Asked
  <2> QED
    BY <1>1, <1>2, <1>3, <2>1
<1>4. CASE ~(questions[i].multi /\ i <= Len(answers))
  BY <1>2, <1>4 DEF Asked
<1> QED
  BY <1>3, <1>4

\* A sequence with one more element.
LEMMA Appended ==
  ASSUME NEW S, NEW s \in Seq(S), NEW e \in S
  PROVE  /\ Append(s, e) \in Seq(S) /\ DOMAIN Append(s, e) = 1..(Len(s) + 1)
         /\ Append(s, e)[Len(s) + 1] = e /\ \A i \in 1..Len(s) : Append(s, e)[i] = s[i]
<1>1. Append(s, e) \in Seq(S) /\ Len(Append(s, e)) = Len(s) + 1 /\ Append(s, e)[Len(s) + 1] = e
  BY AppendProperties
<1>2. \A i \in 1..Len(s) : Append(s, e)[i] = s[i]
  BY AppendProperties
<1> QED
  BY <1>1, <1>2, LenProperties

\* An answer that was given is kept as it is, beside the others.
LEMMA AnswersHeld ==
  ASSUME CallTyped, GivenHeld, NEW result \in Result, Answers(result), Grows,
         result.selected \cup ({result.custom} \ {NoText}) \subseteq given'[index],
         result.selected # {} \/ result.custom # NoText
  PROVE  GivenHeld'
<1> DEFINE answers == IF HasPrevious THEN [results EXCEPT ![index] = result]
                      ELSE Append(results, result)
           Fine(i) == /\ answers[i].selected \cup ({answers[i].custom} \ {NoText}) \subseteq given'[i]
                      /\ answers[i] # [selected |-> {}, custom |-> NoText]
<1>1. finalizedResult(result) = result
  BY DEF finalizedResult
<1>2. /\ results' = answers
      /\ IF index < Questions THEN Asked(index + 1, answers) ELSE UNCHANGED <<index, local>>
  BY <1>1 DEF Answers
<1>3. result # [selected |-> {}, custom |-> NoText]
  OBVIOUS
<1>4. \A i \in DOMAIN results :
        /\ results[i].selected \cup ({results[i].custom} \ {NoText}) \subseteq given'[i]
        /\ results[i] # [selected |-> {}, custom |-> NoText]
  BY ResultsTyped DEF GivenHeld, AnswersGiven, Grows
<1>5. answers \in Seq(Result) /\ \A i \in DOMAIN answers : Fine(i)
  <2>1. CASE HasPrevious
    <3>1. index \in 1..Len(results) /\ results \in Seq(Result) /\ DOMAIN results = 1..Len(results)
      BY <2>1, ResultsTyped DEF CallTyped
    <3>2. answers \in Seq(Result) /\ DOMAIN answers = 1..Len(results)
      BY <2>1, <3>1, ExceptSeq, LenProperties
    <3>3. \A i \in 1..Len(results) : answers[i] = IF i = index THEN result ELSE results[i]
      BY <2>1, <3>1
    <3> QED
      BY <1>3, <1>4, <3>1, <3>2, <3>3
  <2>2. CASE ~HasPrevious
    <3>1. answers = Append(results, result) /\ results \in Seq(Result)
          /\ DOMAIN results = 1..Len(results)
      BY <2>2, ResultsTyped DEF CallTyped
    <3> HIDE DEF answers
    <3>2. answers \in Seq(Result) /\ DOMAIN answers = 1..(Len(results) + 1)
          /\ answers[Len(results) + 1] = result /\ \A i \in 1..Len(results) : answers[i] = results[i]
      <4>1. Append(results, result) \in Seq(Result)
            /\ DOMAIN Append(results, result) = 1..(Len(results) + 1)
        BY <3>1, Appended
      <4>2. /\ Append(results, result)[Len(results) + 1] = result
            /\ \A i \in 1..Len(results) : Append(results, result)[i] = results[i]
        BY <3>1, Appended
      <4> QED
        BY <3>1, <4>1, <4>2, Zenon
    <3>3. Len(results) + 1 = index
      BY <2>2, ResultsTyped DEF HasPrevious, GivenHeld
    <3>4. \A i \in 1..(Len(results) + 1) : i = Len(results) + 1 \/ i \in 1..Len(results)
      BY ResultsTyped
    <3> QED
      BY <1>3, <1>4, <3>1, <3>2, <3>3, <3>4
  <2> QED
    BY <2>1, <2>2
<1>6. index <= Len(answers)
  <2>1. CASE HasPrevious
    <3>1. index \in 1..Len(results) /\ results \in Seq(Result)
      BY <2>1, ResultsTyped DEF CallTyped
    <3> QED
      BY <2>1, <3>1, ExceptSeq
  <2>2. CASE ~HasPrevious
    <3>1. Len(answers) = Len(results) + 1
      BY <2>2, AppendProperties DEF CallTyped
    <3> QED
      BY <3>1 DEF GivenHeld
  <2> QED
    BY <2>1, <2>2
<1> HIDE DEF answers
<1>7. AnswersGiven'
  BY <1>2, <1>5 DEF AnswersGiven
<1>8. index' <= Len(answers) + 1
  <2>1. Len(answers) \in Nat /\ index \in Nat
    BY <1>5, LenProperties, ResultsTyped
  <2>2. index' = index + 1 \/ index' = index
    BY <1>2 DEF Asked
  <2> QED
    BY <1>6, <2>1, <2>2
<1>9. selected' \cup ({custom'} \ {NoText}) \subseteq given'[index']
  <2>1. CASE index < Questions
    <3>1. index + 1 \in Indices
      BY <2>1, ResultsTyped DEF Indices
    <3> QED
      BY <1>2, <1>5, <2>1, <3>1, AskedHeld
  <2>2. CASE ~(index < Questions)
    BY <1>2, <2>2 DEF local, GivenHeld, Grows, CallTyped, AskedOK
  <2> QED
    BY <2>1, <2>2
<1> QED
  BY <1>2, <1>7, <1>8, <1>9 DEF GivenHeld

\* What is left as it is stays given.
LEMMA SameHeld ==
  ASSUME CallTyped, GivenHeld, UNCHANGED <<index, results, selected, custom>>, Grows
  PROVE  GivenHeld'
<1>1. \A i \in DOMAIN results : given[i] \subseteq given'[i]
  BY ResultsTyped DEF Grows
<1>2. given[index] \subseteq given'[index]
  BY DEF Grows, CallTyped, AskedOK
<1> QED
  BY <1>1, <1>2 DEF GivenHeld, AnswersGiven

\* The way back asks a question that has its answer.
LEMMA GoesBackHeld ==
  ASSUME CallTyped, GivenHeld, index > 1, GoesBack, Grows
  PROVE  GivenHeld'
<1>1. index - 1 \in Indices /\ results \in Seq(Result)
  BY ResultsTyped DEF Indices, CallTyped
<1>2. \A i \in DOMAIN results :
        results[i].selected \cup ({results[i].custom} \ {NoText}) \subseteq given'[i]
  BY ResultsTyped DEF GivenHeld, AnswersGiven, Grows
<1>3. selected' \cup ({custom'} \ {NoText}) \subseteq given'[index']
  BY <1>1, <1>2, AskedHeld DEF GoesBack
<1>4. index' = index - 1 /\ results' = results
  BY DEF GoesBack, Asked
<1>5. index - 1 <= Len(results) + 1
  BY ResultsTyped DEF GivenHeld
<1>6. AnswersGiven'
  BY <1>2, <1>4 DEF GivenHeld, AnswersGiven
<1> QED
  BY <1>3, <1>4, <1>5, <1>6 DEF GivenHeld

\* What the human sees is given, and what was given stays so.
LEMMA PickedHeld ==
  ASSUME CallTyped, NEW choice \in Entry, Picked(choice)
  PROVE  Grows /\ (choice.kind = "option" => choice.label \in given'[index])
<1>1. given' \in [Indices -> SUBSET (Labels \cup Texts)]
  BY PickedTyped
<1>2. CASE choice.kind = "option"
  BY <1>1, <1>2 DEF Picked, Noted, Grows, CallTyped, AskedOK
<1>3. CASE choice.kind # "option"
  BY <1>1, <1>3 DEF Picked, Grows
<1> QED
  BY <1>2, <1>3

\* Whatever entry is chosen: an option only where the human saw it.
LEMMA ChosenHeld ==
  ASSUME CallTyped, GivenHeld, NEW choice \in Entry, Chosen(choice), Grows,
         choice.kind = "option" => choice.label \in given'[index]
  PROVE  GivenHeld'
<1>1. CASE Keep(choice)
  <2>1. index \in DOMAIN results
    BY <1>1, ResultsTyped DEF Keep, Entry
  <2>2. results[index] \in Result /\ given[index] \subseteq given'[index]
    BY <2>1, ResultsTyped DEF Grows
  <2>3. /\ results[index].selected \cup ({results[index].custom} \ {NoText}) \subseteq given'[index]
        /\ results[index] # [selected |-> {}, custom |-> NoText]
    BY <2>1, <2>2 DEF GivenHeld, AnswersGiven
  <2>4. results[index].selected # {} \/ results[index].custom # NoText
    BY <2>2, <2>3 DEF Result
  <2> QED
    BY <1>1, <2>2, <2>3, <2>4, AnswersHeld DEF Keep
<1>2. CASE Toggle(choice)
  <2>1. selected' \subseteq selected \cup {choice.label} /\ choice.label \in given'[index]
        /\ custom' = custom
    BY <1>2 DEF Toggle
  <2>2. index' = index /\ results' = results
    BY <1>2 DEF Toggle, GoesOn
  <2>3. \A i \in DOMAIN results : given[i] \subseteq given'[i]
    BY ResultsTyped DEF Grows
  <2>4. given[index] \subseteq given'[index]
    BY DEF Grows, CallTyped, AskedOK
  <2> QED
    BY <2>1, <2>2, <2>3, <2>4 DEF GivenHeld, AnswersGiven
<1>3. CASE Choose(choice)
  <2> DEFINE result == [selected |-> {choice.label}, custom |-> NoText]
  <2>1. result \in Result /\ choice.label \in given'[index]
    BY <1>3 DEF Choose, Entry, Result
  <2>2. result.selected \cup ({result.custom} \ {NoText}) \subseteq given'[index]
        /\ result.selected # {}
    BY <2>1
  <2>3. Answers(result)
    BY <1>3 DEF Choose
  <2> HIDE DEF result
  <2> QED
    BY <2>1, <2>2, <2>3, AnswersHeld
<1>4. CASE Finish(choice)
  <2> DEFINE result == [selected |-> selected, custom |-> custom]
  <2>1. DoneOffered
    BY <1>4 DEF Finish, Entry
  <2>2. result \in Result /\ given[index] \subseteq given'[index]
    BY DEF CallTyped, AskedOK, Result, Grows
  <2>3. /\ result.selected \cup ({result.custom} \ {NoText}) \subseteq given'[index]
        /\ result.selected # {} \/ result.custom # NoText
    BY <2>1, <2>2 DEF DoneOffered, GivenHeld
  <2>4. Answers(result)
    BY <1>4 DEF Finish
  <2> HIDE DEF result
  <2> QED
    BY <2>2, <2>3, <2>4, AnswersHeld
<1>5. CASE Opens(choice)
  BY <1>5, SameHeld DEF Opens, local
<1>6. CASE Back(choice)
  BY <1>6, GoesBackHeld DEF Back, Entry
<1> QED
  BY <1>1, <1>2, <1>3, <1>4, <1>5, <1>6 DEF Chosen

\* In a standard dialog the answer stands for the option that the human saw.
LEMMA SelectHeld ==
  ASSUME CallTyped, GivenHeld, PlainLabels, Select
  PROVE  GivenHeld'
<1>1. PICK i \in DOMAIN Entries : Chosen(selectLabeled(Entries, i)) /\ Picked(Entries[i])
  BY DEF Select
<1>2. AskedOK
  BY DEF CallTyped
<1>3. PICK j \in DOMAIN Entries : selectLabeled(Entries, i) = Entries[j] /\ EntryLabels[j] = EntryLabels[i]
  BY <1>2, SelectedEntry
<1>4. Entries[i] \in Entry /\ Entries[j] \in Entry /\ Display(Entries[i]) = Display(Entries[j])
  BY <1>2, <1>3, EntriesTyped, RowsTold
<1>5. Entries[j].kind = "option" => Entries[i].kind = "option" /\ Entries[i].label = Entries[j].label
  BY <1>4, OptionsDiffer, LabelsTold
<1>6. Grows /\ (Entries[i].kind = "option" => Entries[i].label \in given'[index])
  BY <1>1, <1>4, PickedHeld
<1> QED
  BY <1>1, <1>3, <1>4, <1>5, <1>6, ChosenHeld

\* An editor closes: what is written is given.
LEMMA EditorHeld ==
  ASSUME CallTyped, GivenHeld, NEW text \in Texts \cup {NoText}, EditorCloses(text)
  PROVE  GivenHeld'
<1>1. CASE text = NoText
  BY <1>1, SameHeld DEF EditorCloses, GoesOn, local, Grows, CallTyped
<1>2. CASE text # NoText
  <2> DEFINE result == [selected |-> Remaining, custom |-> text]
  <2>1. Remaining \subseteq selected
    BY DEF Remaining
  <2>2. result \in Result
    BY <2>1 DEF Result, CallTyped
  <2>3. Grows /\ text \in given'[index] /\ given[index] \subseteq given'[index]
    BY <1>2 DEF EditorCloses, Noted, Grows, CallTyped, AskedOK
  <2>4. /\ result.selected \cup ({result.custom} \ {NoText}) \subseteq given'[index]
        /\ result.custom # NoText
    BY <1>2, <2>1, <2>3 DEF GivenHeld
  <2>5. Answers(result)
    BY <1>2 DEF EditorCloses
  <2> HIDE DEF result
  <2> QED
    BY <2>2, <2>3, <2>4, <2>5, AnswersHeld
<1> QED
  BY <1>1, <1>2

\* In Pi's own picker whatever the labels, in a standard dialog where they are plain.
RowsTell == tui \/ PlainLabels

\* A step keeps what is answered to what was given.
LEMMA GivenKeeps == AskIInv /\ RowsTell /\ GivenHeld /\ [AskNext]_askVars => GivenHeld'
<1> SUFFICES ASSUME AskIInv, RowsTell, GivenHeld, [AskNext]_askVars PROVE GivenHeld'
  OBVIOUS
<1>0. CallTyped /\ (UNCHANGED given => Grows)
  BY DEF AskIInv, CallTyped, Grows
<1>1. CASE UNCHANGED askVars \/ Up \/ Down \/ EditKey \/ SelectEdit \/ Aborts
  BY <1>0, <1>1, SameHeld DEF askVars, local, Up, Down, EditKey, SelectEdit, Aborts
<1>2. CASE Confirm
  <2>1. PickerChoices[row] \in Entry /\ Chosen(PickerChoices[row]) /\ Picked(PickerChoices[row])
    BY <1>2, ChoicesTyped DEF Confirm, AskIInv, CallTyped, PickerHeld
  <2> QED
    BY <1>0, <2>1, PickedHeld, ChosenHeld
<1>3. CASE Select
  BY <1>0, <1>3, SelectHeld DEF Select, RowsTell
<1>4. CASE Escape
  <2>1. CASE Cancels
    BY <1>0, <1>4, <2>1, SameHeld DEF Escape, Cancels, local
  <2>2. CASE GoesBack /\ index # 1
    BY <1>0, <1>4, <2>2, ResultsTyped, GoesBackHeld DEF Escape
  <2> QED
    BY <1>4, <2>1, <2>2 DEF Escape, Dismissed
<1>5. ASSUME NEW text \in Texts \cup {NoText}, EditorCloses(text) PROVE GivenHeld'
  BY <1>0, <1>5, EditorHeld
<1>6. ASSUME \/ \E text \in Texts \cup {NoText} : DiscussionCloses(text)
             \/ \E started \in BOOLEAN : ForkEnds(started)
      PROVE  GivenHeld'
  <2>1. UNCHANGED <<index, results, selected, custom, given>>
    BY <1>6 DEF DiscussionCloses, ForkEnds, GoesOn
  <2> QED
    BY <1>0, <2>1, SameHeld
<1> QED
  BY <1>1, <1>2, <1>3, <1>4, <1>5, <1>6 DEF AskNext

\* No answer is invented: whatever the way back and forth, the answer to a question consists of options
\* the human picked for it and of text written for it, and is never the default. It holds in Pi's own
\* picker whatever the labels, and in the standard dialogs where no label reads like a row that is numbered
\* or marked, or like another entry (ask.ts:371).
THEOREM AnswersGivenHolds == AskSpec => [](RowsTell => AnswersGiven)
<1>1. AskInit => GivenHeld
  BY AskAssumption, EmptySeq DEF AskInit, GivenHeld, AnswersGiven, Indices
<1>2. AskIInv /\ (RowsTell => GivenHeld) /\ [AskNext]_askVars => (RowsTell => GivenHeld)'
  <2> SUFFICES ASSUME AskIInv, RowsTell => GivenHeld, [AskNext]_askVars, RowsTell' PROVE GivenHeld'
    OBVIOUS
  <2>1. tui' = tui
    BY DEF AskNext, askVars, Up, Down, Confirm, Select, EditKey, SelectEdit, Escape, Aborts, EditorCloses,
           DiscussionCloses, ForkEnds
  <2>2. RowsTell
    BY <2>1 DEF RowsTell
  <2> QED
    BY <2>2, GivenKeeps
<1>3. (RowsTell => GivenHeld) => (RowsTell => AnswersGiven)
  BY DEF GivenHeld
<1> QED
  BY <1>1, <1>2, <1>3, AskInvariant, PTL DEF AskSpec
=============================================================================
