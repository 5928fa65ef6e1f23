----------------------------- MODULE TauStartup -----------------------------
(***************************************************************************)
(* Starting the shared Tau server on request (orchestration/tau-server.ts):*)
(* ensureTauServer of several clients, each in a process of its own, over  *)
(* the start-up claim (startup.lock) and the server's publication          *)
(* (server.json).                                                          *)
(*                                                                         *)
(* Every client may start one child; other servers are started by hand.    *)
(* What a server does is external: it publishes itself if no live server   *)
(* has, it answers probes, and it may die.  Time is not modelled: a        *)
(* deadline or a timeout may pass whenever the code looks at it.           *)
(***************************************************************************)
EXTENDS Naturals

CONSTANTS
  Clients,   \* processes that call ensureTauServer
  Manual,    \* servers started by hand
  None,      \* nobody
  MaxFaults  \* bound: clients and servers that die on their own

ASSUME StartupAssumption ==
  Clients \cap Manual = {} /\ None \notin Clients \cup Manual /\ MaxFaults \in Nat

VARIABLES
  client,     \* the calls
  claim,      \* startup.lock: who created it, and whether its PID is written
  server,     \* the servers; the child of a client has the client's name
  published,  \* the PID in server.json
  faults      \* processes that died on their own

vars == <<client, claim, server, published, faults>>

Servers == Clients \cup Manual

Client == [
  at : {"idle", "probing", "claiming", "writing", "rechecking", "reprobing", "watching", "readiness",
        "foreign", "stopping", "killing", "done", "failed", "dead"},
  target : Servers \cup {None},   \* the server it probes, and is given in the end
  disowned : BOOLEAN]             \* its child's exit is unconfirmed

NewClient == [at |-> "idle", target |-> None, disowned |-> FALSE]
Free == [by |-> None, written |-> FALSE]

\* From the creation of the claim to its removal.
Critical == {"writing", "rechecking", "reprobing", "watching", "readiness", "foreign", "stopping", "killing"}
Ended == {"done", "failed", "dead"}

-----------------------------------------------------------------------------
alive(s) == server[s] \notin {"off", "gone"}

\* A publication of a server that has stopped counts for nothing.
publication == IF published # None /\ alive(published) THEN published ELSE None

Go(c, at) == [client EXCEPT ![c].at = at]
Aim(c, at, s) == [client EXCEPT ![c].at = at, ![c].target = s]

\* The finally block.
Release(c) == Free

\* findTauServer before the claim.
Find(c) ==
  /\ client[c].at = "idle"
  /\ client' = IF publication = None THEN Go(c, "claiming") ELSE Aim(c, "probing", publication)
  /\ UNCHANGED <<claim, server, published, faults>>

\* A probe is answered by a server that is ready; it may fail nevertheless.
Answers(s) == server[s] = "ready"

Found(c) ==
  /\ client[c].at = "probing" /\ Answers(client[c].target)
  /\ client' = Go(c, "done")
  /\ UNCHANGED <<claim, server, published, faults>>

Unreachable(c) ==
  /\ client[c].at = "probing"
  /\ client' = Go(c, "failed")
  /\ UNCHANGED <<claim, server, published, faults>>

-----------------------------------------------------------------------------
(* The claim *)

\* O_EXCL.
Unclaimed == claim.by = None

CreateClaim(c) ==
  /\ client[c].at = "claiming" /\ Unclaimed
  /\ claim' = [by |-> c, written |-> FALSE]
  /\ client' = Go(c, "writing")
  /\ UNCHANGED <<server, published, faults>>

WriteClaim(c) ==
  /\ client[c].at = "writing"
  /\ claim' = [by |-> c, written |-> TRUE]
  /\ client' = Go(c, "rechecking")
  /\ UNCHANGED <<server, published, faults>>

\* Its owner is known and dead, or the deadline is over.
ClaimFails(c) ==
  /\ client[c].at = "claiming" /\ claim.by # None
  /\ client' = Go(c, "failed")
  /\ UNCHANGED <<claim, server, published, faults>>

-----------------------------------------------------------------------------
(* Under the claim *)

\* Wrong: what happened while the claim was held elsewhere is not looked at.
RecheckNothing == None

\* reuse() once more: another caller may have completed startup.
Recheck == publication

\* The log cannot be opened, or the child cannot be spawned: it is gone at once.
Spawn(c) ==
  /\ client[c].at = "rechecking" /\ Recheck = None
  /\ \E started \in {"starting", "gone"} : server' = [server EXCEPT ![c] = started]
  /\ client' = Go(c, "watching")
  /\ UNCHANGED <<claim, published, faults>>

Reprobe(c) ==
  /\ client[c].at = "rechecking" /\ Recheck # None
  /\ client' = Aim(c, "reprobing", Recheck)
  /\ UNCHANGED <<claim, server, published, faults>>

Reuse(c) ==
  /\ client[c].at = "reprobing"
  /\ \E at \in {"done", "failed"} :
       /\ at = "done" => Answers(client[c].target)
       /\ client' = Go(c, at)
  /\ claim' = Release(c)
  /\ UNCHANGED <<server, published, faults>>

\* SIGTERM, unless the child is gone.
Stop(c) == Go(c, "stopping")

Terminated(c) == [server EXCEPT ![c] = IF alive(c) THEN "terminated" ELSE "gone"]

\* The child has published itself, or another server has.
SeesOwn(c) ==
  /\ client[c].at = "watching" /\ alive(c) /\ publication = c
  /\ client' = Aim(c, "readiness", c)
  /\ UNCHANGED <<claim, server, published, faults>>

SeesOther(c) ==
  /\ client[c].at = "watching" /\ alive(c) /\ publication \notin {c, None}
  /\ client' = Aim(c, "stopping", publication)
  /\ server' = Terminated(c)
  /\ UNCHANGED <<claim, published, faults>>

\* Wrong: only the end of the child is noticed, not the end of the time it has.
GivesUpOnExit(c) == ~alive(c)

\* The child is gone, or has published nothing in time.
GivesUp(c) == alive(c) => publication = None

StartFails(c) ==
  /\ client[c].at = "watching" /\ GivesUp(c)
  /\ client' = Stop(c)
  /\ server' = Terminated(c)
  /\ UNCHANGED <<claim, published, faults>>

Ready(c) ==
  /\ client[c].at = "readiness" /\ Answers(c)
  /\ client' = Go(c, "done")
  /\ claim' = Release(c)
  /\ UNCHANGED <<server, published, faults>>

\* The probe fails, or the child has died meanwhile.
NotReady(c) ==
  /\ client[c].at = "readiness"
  /\ client' = [Stop(c) EXCEPT ![c].target = None]
  /\ server' = Terminated(c)
  /\ UNCHANGED <<claim, published, faults>>

\* The child's exit is awaited, first after SIGTERM, then after SIGKILL.
Stopped(c) ==
  /\ client[c].at \in {"stopping", "killing"} /\ ~alive(c)
  /\ IF client[c].target = None
     THEN client' = Go(c, "failed") /\ claim' = Release(c)
     ELSE client' = Go(c, "foreign") /\ UNCHANGED claim
  /\ UNCHANGED <<server, published, faults>>

Kill(c) ==
  /\ client[c].at = "stopping" /\ alive(c)
  /\ client' = Go(c, "killing")
  /\ server' = [server EXCEPT ![c] = "terminated"]
  /\ UNCHANGED <<claim, published, faults>>

\* The catch block stops once more and reports what is uncertain.
Unconfirmed(c) ==
  /\ client[c].at = "killing" /\ alive(c)
  /\ client' = [Go(c, "failed") EXCEPT ![c].disowned = TRUE]
  /\ claim' = Release(c)
  /\ UNCHANGED <<server, published, faults>>

UseForeign(c) ==
  /\ client[c].at = "foreign"
  /\ \E at \in {"done", "failed"} :
       /\ at = "done" => Answers(client[c].target)
       /\ client' = Go(c, at)
  /\ claim' = Release(c)
  /\ UNCHANGED <<server, published, faults>>

-----------------------------------------------------------------------------
(* Servers and faults *)

\* A server publishes itself unless a live one has, and answers some time later.
Publish(s) ==
  /\ server[s] = "starting" /\ publication = None
  /\ published' = s
  /\ server' = [server EXCEPT ![s] = "published"]
  /\ UNCHANGED <<client, claim, faults>>

BecomesReady(s) ==
  /\ server[s] = "published"
  /\ server' = [server EXCEPT ![s] = "ready"]
  /\ UNCHANGED <<client, claim, published, faults>>

StartManual(s) ==
  /\ s \in Manual /\ server[s] = "off"
  /\ server' = [server EXCEPT ![s] = "starting"]
  /\ UNCHANGED <<client, claim, published, faults>>

Exits(s) ==
  /\ server[s] = "terminated"
  /\ server' = [server EXCEPT ![s] = "gone"]
  /\ UNCHANGED <<client, claim, published, faults>>

ServerDies(s) ==
  /\ alive(s) /\ faults < MaxFaults
  /\ server' = [server EXCEPT ![s] = "gone"]
  /\ faults' = faults + 1
  /\ UNCHANGED <<client, claim, published>>

\* A client dies; its claim and its detached child stay.
ClientDies(c) ==
  /\ client[c].at \notin Ended /\ faults < MaxFaults
  /\ client' = Go(c, "dead")
  /\ faults' = faults + 1
  /\ UNCHANGED <<claim, server, published>>

\* A human removes the claim of a client that is dead, as its message asks for.
RemoveClaim ==
  /\ claim.by # None /\ client[claim.by].at = "dead"
  /\ claim' = Free
  /\ UNCHANGED <<client, server, published, faults>>

-----------------------------------------------------------------------------
Init ==
  /\ client = [c \in Clients |-> NewClient]
  /\ claim = Free
  /\ server = [s \in Servers |-> "off"]
  /\ published = None
  /\ faults = 0

Call(c) ==
  \/ Found(c) \/ Unreachable(c) \/ CreateClaim(c) \/ WriteClaim(c) \/ ClaimFails(c)
  \/ Spawn(c) \/ Reprobe(c) \/ Reuse(c) \/ SeesOwn(c) \/ SeesOther(c) \/ StartFails(c)
  \/ Ready(c) \/ NotReady(c) \/ Stopped(c) \/ Kill(c) \/ Unconfirmed(c) \/ UseForeign(c)

Server(s) == Publish(s) \/ BecomesReady(s) \/ StartManual(s) \/ Exits(s) \/ ServerDies(s)

Next ==
  \/ \E c \in Clients : Find(c) \/ Call(c) \/ ClientDies(c)
  \/ \E s \in Servers : Server(s)
  \/ RemoveClaim

Spec == Init /\ [][Next]_vars

\* A client goes on with its call: its loops poll, and its deadlines pass.
FairSpec == Spec /\ \A c \in Clients : WF_vars(Call(c))

-----------------------------------------------------------------------------
(* Properties *)

\* Every variable keeps its type.
TypeOK ==
  /\ client \in [Clients -> Client]
  /\ claim \in [by : Clients \cup {None}, written : BOOLEAN]
  /\ server \in [Servers -> {"off", "starting", "published", "ready", "terminated", "gone"}]
  /\ published \in Servers \cup {None}
  /\ faults \in 0..MaxFaults

\* Two children never run at the same time, except one whose client died or could not
\* confirm its end: the claim covers the second look for a server and the start.
OneChild ==
  \A c, d \in Clients :
    /\ c # d /\ alive(c) /\ alive(d)
    /\ client[c].at # "dead" /\ client[d].at # "dead"
    => client[c].disowned \/ client[d].disowned

\* A call that failed has left no child, unless it said so.
NoOrphan ==
  \A c \in Clients : client[c].at = "failed" /\ alive(c) => client[c].disowned

\* However a call ends, its claim is removed: one that is left belongs to a call that
\* runs, or to a client that died.
ClaimReleased ==
  claim.by # None => client[claim.by].at \in Critical \cup {"dead"}

\* What one client's start leaves behind.  It does not say that a client's ready server stays:
\* another one whose probe of its own child fails stops it (tau-server.ts:194).
StartupSafe == OneChild /\ NoOrphan /\ ClaimReleased

\* A call ends, whatever other clients and servers do.
CallsEnd == \A c \in Clients : client[c].at # "idle" ~> client[c].at \in Ended
=============================================================================
