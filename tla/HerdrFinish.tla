----------------------------- MODULE HerdrFinish -----------------------------
(***************************************************************************)
(* /start-tab-finish and /start-space-finish of Pi in a Herdr pane         *)
(* (extensions/herdr-finish*.ts): a prompt is run here once every other    *)
(* agent of the scope is idle or done.                                     *)
(*                                                                         *)
(* The wait takes snapshots of the panes and subscribes to their changes.  *)
(* Herdr itself is external: panes come, go and change, a subscription     *)
(* sends one event per change, requests may fail.  Events travel; a        *)
(* revision that changed since the snapshot was asked for is a snapshot    *)
(* that is "stale".  A pane outside of the scope is "absent".              *)
(***************************************************************************)
EXTENDS Naturals

CONSTANTS
  Waits,      \* the waits started in this session, one after the other
  Others,     \* panes other than the caller's
  None,       \* no wait
  MaxChanges  \* bound: changes of the panes

ASSUME FinishAssumption == None \notin Waits /\ MaxChanges \in Nat

VARIABLES
  pane,     \* the other panes, as Herdr knows them
  self,     \* the caller's own pane
  wait,     \* the waits
  active,   \* the wait whose prompt is scheduled
  busy,     \* Pi runs, compacts or has messages queued
  changes

vars == <<pane, self, wait, active, busy, changes>>

Pane == {"absent", "shell", "working", "idle"}
Caller == {"free", "blocked", "foreign"}   \* foreign: another session, or moved out of the scope

\* The awaits of waitForHerdrFinish, then the settled promise.
Subscribing == {"lifecycle", "statuses"}
Waiting == Subscribing \cup {"top", "listing", "listed", "sleeping"}
Settled == {"returned", "rejected"}

Snapshot == [pane : [Others -> Pane], self : Caller]

Wait == [
  at : Waiting \cup Settled \cup {"off", "prompted", "ended"},
  lifecycle : BOOLEAN,               \* subscribed to lifecycle events
  statuses : BOOLEAN,                \* subscribed to the status events of
  watched : SUBSET Others,           \* these panes (and the caller's)
  coming : [lifecycle : 0..MaxChanges, statuses : 0..MaxChanges],  \* events on their way
  stale : BOOLEAN,
  observed : BOOLEAN,                \* blockedObserved
  panes : Snapshot]

NewWait == [
  at |-> "off", lifecycle |-> FALSE, statuses |-> FALSE, watched |-> {},
  coming |-> [lifecycle |-> 0, statuses |-> 0], stale |-> FALSE, observed |-> FALSE,
  panes |-> [pane |-> [p \in Others |-> "absent"], self |-> "free"]]

Go(w, at) == [wait EXCEPT ![w].at = at]

\* The finally block closes both subscriptions; the function's variables are gone.
Settle(w, at) == [wait EXCEPT ![w] = [NewWait EXCEPT !.at = at]]

-----------------------------------------------------------------------------
(* The wait *)

\* A new turn of the loop; what it was told so far does not count.
Again(w) == [wait EXCEPT ![w].at = "top", ![w].stale = FALSE, ![w].panes = NewWait.panes]

\* HerdrFinishClient.open answers once the subscription stands.
LifecycleStarted(w) ==
  /\ wait[w].at = "lifecycle"
  /\ wait' = [wait EXCEPT ![w].at = "top", ![w].lifecycle = TRUE]
  /\ UNCHANGED <<pane, self, active, busy, changes>>

Lists(w) ==
  /\ wait[w].at = "top"
  /\ wait' = [wait EXCEPT ![w].at = "listing", ![w].stale = FALSE]
  /\ UNCHANGED <<pane, self, active, busy, changes>>

Listed(w) ==
  /\ wait[w].at = "listing"
  /\ wait' = [wait EXCEPT ![w].at = "listed", ![w].panes = [pane |-> pane, self |-> self]]
  /\ UNCHANGED <<pane, self, active, busy, changes>>

Scoped(w) == {p \in Others : wait[w].panes.pane[p] # "absent"}
Pending(w) == {p \in Others : wait[w].panes.pane[p] = "working"}
Covered(w) == wait[w].statuses /\ wait[w].watched = Scoped(w)

Foreign(w) ==
  /\ wait[w].at = "listed" /\ wait[w].panes.self = "foreign"
  /\ wait' = Settle(w, "rejected")
  /\ UNCHANGED <<pane, self, active, busy, changes>>

\* The scope has other panes than the status subscription: replace it.
Resubscribes(w) ==
  /\ wait[w].at = "listed" /\ wait[w].panes.self # "foreign" /\ ~Covered(w)
  /\ wait' = [wait EXCEPT ![w].at = "statuses", ![w].statuses = FALSE, ![w].watched = {},
                            ![w].coming.statuses = 0, ![w].stale = FALSE]
  /\ UNCHANGED <<pane, self, active, busy, changes>>

\* Wrong: goes on with the snapshot that asked for the subscription.
SubscribedTo(w) ==
  [wait EXCEPT ![w].at = "listed", ![w].statuses = TRUE, ![w].watched = Scoped(w)]

Subscribed(w) ==
  [Again(w) EXCEPT ![w].statuses = TRUE, ![w].watched = Scoped(w)]

\* A pane that closed since it was listed fails the subscription; the scope is listed again.
StatusesStarted(w) ==
  /\ wait[w].at = "statuses"
  /\ wait' = IF \E p \in Scoped(w) : pane[p] = "absent" THEN Again(w) ELSE Subscribed(w)
  /\ UNCHANGED <<pane, self, active, busy, changes>>

\* Wrong: changes while the snapshot was in flight are not looked for.
Trusted(w) == Covered(w)

Current(w) == Covered(w) /\ ~wait[w].stale

ListsAgain(w) ==
  /\ wait[w].at = "listed" /\ wait[w].panes.self # "foreign"
  /\ Covered(w) /\ ~Current(w)
  /\ wait' = Again(w)
  /\ UNCHANGED <<pane, self, active, busy, changes>>

\* What a current snapshot says, once the caller's own blocked state is in it.
Decides(w) ==
  LET blocked == wait[w].panes.self = "blocked"
      seen == [wait EXCEPT ![w].observed = @ \/ blocked] IN
  /\ wait[w].at = "listed" /\ wait[w].panes.self # "foreign" /\ Current(w)
  /\ wait' = IF ~blocked /\ wait[w].observed THEN Settle(w, "rejected")
             ELSE IF blocked /\ Pending(w) = {} THEN Settle(w, "returned")
             ELSE [seen EXCEPT ![w].at = "sleeping"]
  /\ UNCHANGED <<pane, self, active, busy, changes>>

\* The revision is compared only after the snapshot that is under way.
Revised(r) == r.stale \/ r.at \in {"listing", "listed"}

\* Wrong: an event is counted, and wakes nobody.
Counted(r) == [r EXCEPT !.stale = Revised(r)]

\* changed()
Woken(r) == [r EXCEPT !.stale = Revised(r), !.at = IF @ = "sleeping" THEN "top" ELSE @,
                   !.panes = IF r.at = "sleeping" THEN NewWait.panes ELSE @]

Changed(w, topic) ==
  /\ wait[w].at \in Waiting /\ wait[w].coming[topic] > 0
  /\ wait' = [wait EXCEPT ![w] = [Woken(wait[w]) EXCEPT !.coming[topic] = wait[w].coming[topic] - 1]]
  /\ UNCHANGED <<pane, self, active, busy, changes>>

\* A request fails or times out.
RequestFails(w) ==
  /\ wait[w].at \in Subscribing \cup {"listing"}
  /\ wait' = Settle(w, "rejected")
  /\ UNCHANGED <<pane, self, active, busy, changes>>

\* The connection of a subscription is lost: the wait is aborted.
SubscriptionLost(w) ==
  /\ wait[w].at \in Waiting /\ wait[w].lifecycle
  /\ wait' = Settle(w, "rejected")
  /\ UNCHANGED <<pane, self, active, busy, changes>>

BlockedTimeout(w) ==
  /\ wait[w].at \in Waiting /\ ~wait[w].observed
  /\ wait' = Settle(w, "rejected")
  /\ UNCHANGED <<pane, self, active, busy, changes>>

-----------------------------------------------------------------------------
(* The commands and events of the extension *)

\* clear() of the active wait: its signal rejects the request or wakes the wait, which
\* throws; a wait that has returned no longer looks at it.
Aborted ==
  IF active # None /\ wait[active].at \in Waiting THEN Settle(active, "rejected") ELSE wait

Start(w) ==
  /\ active = None /\ ~busy /\ wait[w].at = "off"
  /\ active' = w
  /\ wait' = Go(w, "lifecycle")
  /\ UNCHANGED <<pane, self, busy, changes>>

\* /start-finish-cancel, or another branch of the session.
Cancel ==
  /\ active # None
  /\ wait' = Aborted /\ active' = None
  /\ UNCHANGED <<pane, self, busy, changes>>

\* Another prompt, or an agent that starts by itself: both cancel.
Works ==
  /\ ~busy
  /\ busy' = TRUE
  /\ wait' = Aborted /\ active' = None
  /\ UNCHANGED <<pane, self, changes>>

\* Pi may also be busy without an event, as when it compacts.
Compacts ==
  /\ ~busy
  /\ busy' = TRUE
  /\ UNCHANGED <<pane, self, wait, active, changes>>

Rests ==
  /\ busy
  /\ busy' = FALSE
  /\ UNCHANGED <<pane, self, wait, active, changes>>

Scheduled(w) == active = w

\* The wait resolved: the prompt is submitted if Pi is still idle, and starts an agent.
Resolved(w) ==
  /\ wait[w].at = "returned"
  /\ IF Scheduled(w) /\ ~busy
     THEN \/ wait' = Go(w, "prompted") /\ busy' = TRUE /\ active' = None
          \/ wait' = Go(w, "ended") /\ UNCHANGED busy /\ active' = None   \* the submission throws
     ELSE /\ wait' = Go(w, "ended")
          /\ active' = IF Scheduled(w) THEN None ELSE active
          /\ UNCHANGED busy
  /\ UNCHANGED <<pane, self, changes>>

Rejected(w) ==
  /\ wait[w].at = "rejected"
  /\ wait' = Go(w, "ended")
  /\ active' = IF Scheduled(w) THEN None ELSE active
  /\ UNCHANGED <<pane, self, busy, changes>>

-----------------------------------------------------------------------------
(* Herdr *)

\* Every subscription that stands is told.
Told(lifecycle, statuses(_)) ==
  [w \in Waits |->
    LET r == wait[w] IN
    [r EXCEPT !.coming =
      [lifecycle |-> IF lifecycle /\ r.lifecycle THEN @.lifecycle + 1 ELSE @.lifecycle,
       statuses |-> IF r.statuses /\ statuses(w) THEN @.statuses + 1 ELSE @.statuses]]]

\* A pane is created, closed or moved, or an agent is found in it: a lifecycle event.
\* The status of one that stays changes: a status event.
PaneChanges(p, s) ==
  /\ changes < MaxChanges /\ pane[p] # s
  /\ pane' = [pane EXCEPT ![p] = s]
  /\ wait' = LET Watches(w) == p \in wait[w].watched /\ "absent" \notin {pane[p], s}
             IN Told("absent" \in {pane[p], s} \/ pane[p] = "shell", Watches)
  /\ changes' = changes + 1
  /\ UNCHANGED <<self, active, busy>>

\* The Pi integration reports what the extension emitted, some time later, or loses it.
SelfChanges(s) ==
  /\ changes < MaxChanges /\ self \notin {s, "foreign"}
  /\ s = "blocked" => active # None
  /\ self' = s
  /\ wait' = LET Watches(w) == TRUE IN Told(s = "foreign", Watches)
  /\ changes' = changes + 1
  /\ UNCHANGED <<pane, active, busy>>

-----------------------------------------------------------------------------
Init ==
  /\ pane \in [Others -> Pane]
  /\ self = "free"
  /\ wait = [w \in Waits |-> NewWait]
  /\ active = None
  /\ busy = FALSE
  /\ changes = 0

Proceeds(w) ==
  \/ LifecycleStarted(w) \/ Lists(w) \/ Listed(w) \/ Foreign(w) \/ Resubscribes(w)
  \/ StatusesStarted(w) \/ ListsAgain(w) \/ Decides(w) \/ Resolved(w) \/ Rejected(w)

Topics == {"lifecycle", "statuses"}

Next ==
  \/ \E w \in Waits : \/ Start(w) \/ Proceeds(w) \/ RequestFails(w) \/ SubscriptionLost(w) \/ BlockedTimeout(w)
                      \/ \E topic \in Topics : Changed(w, topic)
  \/ Cancel \/ Works \/ Compacts \/ Rests
  \/ \E p \in Others, s \in Pane : PaneChanges(p, s)
  \/ \E s \in Caller : SelfChanges(s)

Spec == Init /\ [][Next]_vars

\* A request is answered or times out, an event arrives while its connection stands, and
\* the timer of the blocked state fires.
FairSpec ==
  /\ Spec
  /\ \A w \in Waits : /\ WF_vars(Proceeds(w) \/ RequestFails(w))
                      /\ WF_vars(BlockedTimeout(w))
                      /\ WF_vars(\E topic \in Topics : Changed(w, topic))

-----------------------------------------------------------------------------
(* Properties *)

\* Every variable keeps its type.
TypeOK ==
  /\ pane \in [Others -> Pane]
  /\ self \in Caller
  /\ wait \in [Waits -> Wait]
  /\ active \in Waits \cup {None}
  /\ busy \in BOOLEAN
  /\ changes \in 0..MaxChanges

Quiet == \A p \in Others : pane[p] # "working"
Coming(w) == \E topic \in Topics : wait[w].coming[topic] > 0

\* No wake-up is lost: while a wait sleeps, its snapshot shows Herdr as it is, or an event
\* that will wake it is on its way.
SleepsInformed ==
  \A w \in Waits :
    wait[w].at = "sleeping" => Coming(w) \/ wait[w].panes = [pane |-> pane, self |-> self]

\* A wait returns only when no other agent of the scope works and Herdr shows this Pi as
\* blocked, as far as events have arrived; its prompt is submitted only by the wait that
\* is scheduled, to a Pi that is idle.
PromptJustified ==
  [][\A w \in Waits :
       /\ wait[w].at = "listed" /\ wait'[w].at = "returned"
            => Coming(w) \/ (Quiet /\ self = "blocked")
       /\ wait[w].at = "returned" /\ wait'[w].at = "prompted"
            => active = w /\ ~busy]_vars

\* Once the other agents are quiet for good, a scheduled wait ends: it prompts, or says
\* why not.
WaitsEnd == []((active # None /\ []Quiet) => <>(active = None))
=============================================================================
