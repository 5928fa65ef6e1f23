-------------------------- MODULE TauStartupProofs --------------------------
(***************************************************************************)
(* Proofs about TauStartup, for any number of clients, servers started by  *)
(* hand and faults: however starts overlap and fail, StartupSafe holds.    *)
(*                                                                         *)
(* StartupSafe alone is not inductive.  That a second child is not started *)
(* rests on two things: the claim is held by the one call between its      *)
(* creation and its removal (ClaimHeld), and a child that a finished call  *)
(* left running is the published server (ChildKnown, PublishedFirst), which*)
(* the look under the claim would have seen.                               *)
(***************************************************************************)
EXTENDS TauStartup, TLAPS

\* Points of a call at which its child may run.
WithChild == {"watching", "readiness", "stopping", "killing"}

\* The call that is at such a point holds the claim, and nobody else has it but the dead.
ClaimHeld ==
  /\ \A c \in Clients : client[c].at \in Critical => claim.by = c
  /\ ClaimReleased

\* A child runs under its call, or was found ready, or is disowned, or its client died.
ChildKnown ==
  \A c \in Clients : alive(c) =>
    \/ client[c].at \in WithChild \cup {"dead"}
    \/ client[c].at = "done" /\ server[c] = "ready"
    \/ client[c].at = "failed" /\ client[c].disowned

\* A server that has published itself, and was not stopped, is the one that is published.
PublishedFirst == \A s \in Servers : server[s] \in {"published", "ready"} => published = s

\* No child is watched beside one that was found ready.
Alone ==
  \A c, d \in Clients : c # d /\ alive(c) /\ alive(d) =>
    ~(client[c].at \in WithChild /\ client[d].at = "done")

IInv == TypeOK /\ ClaimHeld /\ ChildKnown /\ PublishedFirst /\ Alone

-----------------------------------------------------------------------------
\* What an action of a call does to the call's own record.
CallChanges(c) ==
  /\ client' = [client EXCEPT ![c] = client'[c]]
  /\ server' = [server EXCEPT ![c] = server'[c]]
  /\ client'[c] \in Client
  /\ server'[c] \in {"off", "starting", "published", "ready", "terminated", "gone"}
  /\ published' = published /\ faults' = faults
  /\ client[c].at \notin {"done", "failed", "dead"}

\* How it moves the claim: not at all, from nobody to itself, or from itself to nobody.
ClaimMoves(c) ==
  \/ claim' = claim /\ (client[c].at \in Critical <=> client'[c].at \in Critical)
  \/ /\ claim.by \in {None, c} /\ client'[c].at \in Critical
     /\ claim' \in [by : {c}, written : BOOLEAN]
  \/ client[c].at \in Critical /\ claim' = Free /\ client'[c].at \notin Critical

\* What becomes of its child: it is started where no other one is published, goes on unseen
\* or is found ready, and is given up only when it is gone or disowned.
ChildMoves(c) ==
  \/ /\ client[c].at = "rechecking" /\ publication = None /\ client'[c].at = "watching"
     /\ server'[c] \in {"starting", "gone"}
  \/ /\ server'[c] = server[c] \/ server'[c] \in {"terminated", "gone"}
     /\ server'[c] \notin {"off", "gone"} => alive(c)
     /\ \/ server'[c] \in {"off", "gone"}
        \/ client'[c].at \in WithChild /\ client[c].at \in WithChild
        \/ client'[c].at = "done" /\ server'[c] = "ready" /\ client[c].at \in WithChild
        \/ client'[c].at = "failed" /\ client'[c].disowned /\ client[c].at \in WithChild

LEMMA InitIInv == Init => IInv
<1> SUFFICES ASSUME Init PROVE IInv
  OBVIOUS
<1>1. TypeOK
  BY StartupAssumption DEF Init, TypeOK, NewClient, Free, Client, Servers
<1>2. ClaimHeld
  BY DEF Init, ClaimHeld, ClaimReleased, NewClient, Free, Critical
<1>3. ChildKnown /\ PublishedFirst /\ Alone
  BY DEF Init, ChildKnown, PublishedFirst, Alone, alive, Servers
<1> QED
  BY <1>1, <1>2, <1>3 DEF IInv

\* A move of a call changes its own record only.
LEMMA GoMoves ==
  ASSUME client \in [Clients -> Client], NEW c \in Clients,
         NEW at \in Critical \cup Ended \cup {"idle", "probing", "claiming"},
         NEW s \in Servers \cup {None}
  PROVE  /\ Go(c, at) = [client EXCEPT ![c] = Go(c, at)[c]]
         /\ Go(c, at)[c] \in Client /\ Go(c, at)[c].at = at
         /\ Aim(c, at, s) = [client EXCEPT ![c] = Aim(c, at, s)[c]]
         /\ Aim(c, at, s)[c] \in Client /\ Aim(c, at, s)[c].at = at
<1>1. client[c] \in Client /\ client \in [Clients -> Client]
  OBVIOUS
<1>2. /\ Go(c, at) = [client EXCEPT ![c] = [client[c] EXCEPT !.at = at]]
      /\ Aim(c, at, s) = [client EXCEPT ![c] = [[client[c] EXCEPT !.at = at] EXCEPT !.target = s]]
  BY <1>1 DEF Go, Aim, Client
<1>3. /\ [client[c] EXCEPT !.at = at] \in Client /\ [client[c] EXCEPT !.at = at].at = at
      /\ [[client[c] EXCEPT !.at = at] EXCEPT !.target = s] \in Client
      /\ [[client[c] EXCEPT !.at = at] EXCEPT !.target = s].at = at
  BY <1>1 DEF Client, Critical, Ended
<1> QED
  BY <1>1, <1>2, <1>3

\* What is known of the call's server and of server.json.
LEMMA Typed ==
  ASSUME IInv, NEW c \in Clients
  PROVE  /\ client \in [Clients -> Client] /\ c \in Servers
         /\ server \in [Servers -> {"off", "starting", "published", "ready", "terminated", "gone"}]
         /\ published \in Servers \cup {None} /\ publication \in Servers \cup {None}
         /\ server[c] \in {"off", "starting", "published", "ready", "terminated", "gone"}
         /\ client[c].at \notin WithChild \cup {"done", "failed", "dead"} => server[c] \in {"off", "gone"}
         /\ client[c].at \in Critical => claim.by = c
BY DEF IInv, TypeOK, ChildKnown, ClaimHeld, alive, publication, Servers

\* Actions that neither start nor stop a server nor touch the claim.
LEMMA Searching ==
  ASSUME IInv, NEW c \in Clients, Find(c) \/ Found(c) \/ Unreachable(c) \/ ClaimFails(c)
  PROVE  CallChanges(c) /\ ClaimMoves(c) /\ ChildMoves(c)
<1>1. /\ client' = [client EXCEPT ![c] = client'[c]]
      /\ client'[c] \in Client /\ client'[c].at \in {"probing", "claiming", "done", "failed"}
  <2>1. CASE Find(c)
    <3>1. CASE publication = None
      BY <2>1, <3>1, Typed, GoMoves DEF Find
    <3>2. CASE publication # None
      <4>1. PICK s \in Servers \cup {None} : client' = Aim(c, "probing", s)
        BY <2>1, <3>2, Typed DEF Find
      <4>2. /\ client' = [client EXCEPT ![c] = client'[c]]
            /\ client'[c] \in Client /\ client'[c].at = "probing"
        <5>1. "probing" \in Critical \cup Ended \cup {"idle", "probing", "claiming"}
          OBVIOUS
        <5>2. client \in [Clients -> Client]
          BY Typed
        <5> QED
          BY <4>1, <5>1, <5>2, GoMoves
      <4> QED
        BY <4>2
    <3> QED
      BY <3>1, <3>2
  <2>2. CASE Found(c) \/ Unreachable(c) \/ ClaimFails(c)
    BY <2>2, Typed, GoMoves DEF Found, Unreachable, ClaimFails, Ended
  <2> QED
    BY <2>1, <2>2
<1>2. UNCHANGED <<claim, server, published, faults>>
  BY DEF Find, Found, Unreachable, ClaimFails
<1>3. client[c].at \in {"idle", "probing", "claiming"}
  BY DEF Find, Found, Unreachable, ClaimFails
<1>4. CallChanges(c)
  BY <1>1, <1>2, <1>3, Typed DEF CallChanges
<1>5. ClaimMoves(c)
  BY <1>1, <1>2, <1>3 DEF ClaimMoves, Critical
<1>6. ChildMoves(c)
  BY <1>2, <1>3, Typed DEF ChildMoves, WithChild
<1> QED
  BY <1>4, <1>5, <1>6

\* Actions that take the claim, keep it or give it back where no child runs.
LEMMA Claiming ==
  ASSUME IInv, NEW c \in Clients,
         CreateClaim(c) \/ WriteClaim(c) \/ Reprobe(c) \/ Reuse(c) \/ UseForeign(c)
  PROVE  CallChanges(c) /\ ClaimMoves(c) /\ ChildMoves(c)
<1>1. UNCHANGED <<server, published, faults>>
  BY DEF CreateClaim, WriteClaim, Reprobe, Reuse, UseForeign
<1>2. client[c].at \in {"claiming", "writing", "rechecking", "reprobing", "foreign"}
  BY DEF CreateClaim, WriteClaim, Reprobe, Reuse, UseForeign
<1>3. /\ client' = [client EXCEPT ![c] = client'[c]] /\ client'[c] \in Client
      /\ ClaimMoves(c)
  <2>1. CASE CreateClaim(c)
    BY <2>1, Typed, GoMoves DEF CreateClaim, Unclaimed, ClaimMoves, Critical
  <2>2. CASE WriteClaim(c)
    BY <2>2, Typed, GoMoves DEF WriteClaim, ClaimMoves, Critical
  <2>3. CASE Reprobe(c)
    BY <2>3, Typed, GoMoves DEF Reprobe, Recheck, ClaimMoves, Critical
  <2>4. CASE Reuse(c) \/ UseForeign(c)
    <3>1. PICK at \in {"done", "failed"} : client' = Go(c, at)
      BY <2>4 DEF Reuse, UseForeign
    <3>2. client[c].at \in Critical /\ claim' = Free
      BY <2>4 DEF Reuse, UseForeign, Release, Critical
    <3> QED
      BY <3>1, <3>2, Typed, GoMoves DEF ClaimMoves, Critical, Ended
  <2> QED
    BY <2>1, <2>2, <2>3, <2>4
<1>4. CallChanges(c)
  BY <1>1, <1>2, <1>3, Typed DEF CallChanges
<1>5. ChildMoves(c)
  BY <1>1, <1>2, Typed DEF ChildMoves, WithChild
<1> QED
  BY <1>3, <1>4, <1>5

\* Under the claim, a child is started only where no server is published.
LEMMA Starting ==
  ASSUME IInv, NEW c \in Clients, Spawn(c)
  PROVE  CallChanges(c) /\ ClaimMoves(c) /\ ChildMoves(c)
<1>1. PICK started \in {"starting", "gone"} : server' = [server EXCEPT ![c] = started]
  BY DEF Spawn
<1>2. client' = Go(c, "watching") /\ client[c].at = "rechecking" /\ publication = None
      /\ UNCHANGED <<claim, published, faults>>
  BY DEF Spawn, Recheck
<1>3. server' = [server EXCEPT ![c] = server'[c]] /\ server'[c] \in {"starting", "gone"}
  BY <1>1, Typed
<1> QED
  BY <1>2, <1>3, Typed, GoMoves DEF CallChanges, ClaimMoves, ChildMoves, Critical

\* The child is stopped, or goes on as it is.
LEMMA ChildStopped ==
  ASSUME IInv, NEW c \in Clients
  PROVE  /\ Terminated(c) = [server EXCEPT ![c] = Terminated(c)[c]]
         /\ Terminated(c)[c] \in {"terminated", "gone"}
         /\ Terminated(c)[c] = "terminated" => alive(c)
BY Typed DEF Terminated

\* Actions that watch the child or give it up, the claim in hand.
LEMMA Watching ==
  ASSUME IInv, NEW c \in Clients,
         SeesOwn(c) \/ SeesOther(c) \/ StartFails(c) \/ NotReady(c) \/ Kill(c)
  PROVE  CallChanges(c) /\ ClaimMoves(c) /\ ChildMoves(c)
<1>1. UNCHANGED <<claim, published, faults>> /\ client[c].at \in WithChild
  BY DEF SeesOwn, SeesOther, StartFails, NotReady, Kill, WithChild
<1>2. /\ client' = [client EXCEPT ![c] = client'[c]] /\ client'[c] \in Client
      /\ client'[c].at \in WithChild
  <2>1. CASE SeesOwn(c)
    BY <2>1, Typed, GoMoves DEF SeesOwn, WithChild, Critical
  <2>2. CASE SeesOther(c)
    BY <2>2, Typed, GoMoves DEF SeesOther, WithChild, Critical
  <2>3. CASE StartFails(c) \/ Kill(c)
    BY <2>3, Typed, GoMoves DEF StartFails, Kill, Stop, WithChild, Critical
  <2>4. CASE NotReady(c)
    <3>1. client' = Aim(c, "stopping", None)
      BY <2>4, Typed DEF NotReady, Stop, Go, Aim, Client
    <3> QED
      BY <3>1, Typed, GoMoves DEF WithChild, Critical
  <2> QED
    BY <2>1, <2>2, <2>3, <2>4
<1>3. /\ server' = [server EXCEPT ![c] = server'[c]]
      /\ server'[c] = server[c] \/ server'[c] \in {"terminated", "gone"}
      /\ server'[c] \notin {"off", "gone"} => alive(c)
  <2>1. CASE SeesOwn(c)
    BY <2>1, Typed DEF SeesOwn, alive
  <2>2. CASE SeesOther(c) \/ StartFails(c) \/ NotReady(c)
    BY <2>2, ChildStopped DEF SeesOther, StartFails, NotReady
  <2>3. CASE Kill(c)
    BY <2>3, Typed DEF Kill, alive
  <2> QED
    BY <2>1, <2>2, <2>3
<1>4. server'[c] \in {"off", "starting", "published", "ready", "terminated", "gone"}
  BY <1>3, Typed
<1>5. ClaimMoves(c)
  BY <1>1, <1>2 DEF ClaimMoves, WithChild, Critical
<1> QED
  BY <1>1, <1>2, <1>3, <1>4, <1>5 DEF CallChanges, ChildMoves, WithChild

\* Actions that end the call or lead it to another server: its child is ready, gone or disowned.
LEMMA Finishing ==
  ASSUME IInv, NEW c \in Clients, Ready(c) \/ Stopped(c) \/ Unconfirmed(c)
  PROVE  CallChanges(c) /\ ClaimMoves(c) /\ ChildMoves(c)
<1>1. UNCHANGED <<server, published, faults>> /\ client[c].at \in WithChild
  BY DEF Ready, Stopped, Unconfirmed, WithChild
<1>2. CASE Ready(c)
  BY <1>1, <1>2, Typed, GoMoves
     DEF Ready, Release, Answers, alive, CallChanges, ClaimMoves, ChildMoves, WithChild, Critical, Ended
<1>3. CASE Stopped(c)
  <2>1. server[c] \in {"off", "gone"}
    BY <1>3 DEF Stopped, alive
  <2>2. CASE client[c].target = None
    BY <1>1, <1>3, <2>1, <2>2, Typed, GoMoves
       DEF Stopped, Release, CallChanges, ClaimMoves, ChildMoves, WithChild, Critical, Ended, alive
  <2>3. CASE client[c].target # None
    BY <1>1, <1>3, <2>1, <2>3, Typed, GoMoves
       DEF Stopped, CallChanges, ClaimMoves, ChildMoves, WithChild, Critical, alive
  <2> QED
    BY <2>2, <2>3
<1>4. CASE Unconfirmed(c)
  <2>1. /\ client' = [client EXCEPT ![c] = client'[c]] /\ client'[c] \in Client
        /\ client'[c].at = "failed" /\ client'[c].disowned
    BY <1>4, Typed DEF Unconfirmed, Go, Client
  <2> QED
    BY <1>1, <1>4, <2>1, Typed
       DEF Unconfirmed, Release, CallChanges, ClaimMoves, ChildMoves, WithChild, Critical, alive
<1> QED
  BY <1>2, <1>3, <1>4

\* Every step of a call is of this form.
LEMMA CallSteps ==
  ASSUME IInv, NEW c \in Clients, Find(c) \/ Call(c)
  PROVE  CallChanges(c) /\ ClaimMoves(c) /\ ChildMoves(c)
BY Searching, Claiming, Starting, Watching, Finishing DEF Call

-----------------------------------------------------------------------------
(* The inductive step *)

\* A step of a call keeps the invariant.
LEMMA CallKeeps ==
  ASSUME IInv, NEW c \in Clients, CallChanges(c), ClaimMoves(c), ChildMoves(c)
  PROVE  IInv'
<1> USE DEF CallChanges
<1>1. /\ client \in [Clients -> Client] /\ claim \in [by : Clients \cup {None}, written : BOOLEAN]
      /\ server \in [Servers -> {"off", "starting", "published", "ready", "terminated", "gone"}]
      /\ c \in Servers /\ None \notin Clients
  BY StartupAssumption DEF IInv, TypeOK, Servers
<1>2. \A d \in Clients : d # c => client'[d] = client[d] /\ server'[d] = server[d]
  BY <1>1 DEF Servers
<1>3. \A s \in Servers : s # c => server'[s] = server[s]
  BY <1>1
<1>4. TypeOK'
  <2>1. client' \in [Clients -> Client]
    BY <1>1
  <2>2. claim' \in [by : Clients \cup {None}, written : BOOLEAN]
    <3>1. CASE claim' = claim
      BY <1>1, <3>1
    <3>2. CASE claim' \in [by : {c}, written : BOOLEAN]
      BY <3>2
    <3>3. CASE claim' = Free
      BY <3>3 DEF Free
    <3> QED
      BY <3>1, <3>2, <3>3 DEF ClaimMoves
  <2>3. server' \in [Servers -> {"off", "starting", "published", "ready", "terminated", "gone"}]
    BY <1>1
  <2> QED
    BY <2>1, <2>2, <2>3 DEF IInv, TypeOK
<1>5. ClaimHeld'
  <2>1. /\ \A d \in Clients : client[d].at \in Critical => claim.by = d
        /\ claim.by # None => client[claim.by].at \in Critical \cup {"dead"}
    BY DEF IInv, ClaimHeld, ClaimReleased
  <2>2. CASE claim' = claim /\ (client[c].at \in Critical <=> client'[c].at \in Critical)
    <3>1. \A d \in Clients : client'[d].at \in Critical => claim'.by = d
      BY <1>1, <1>2, <2>1, <2>2
    <3>2. claim'.by # None => client'[claim'.by].at \in Critical \cup {"dead"}
      BY <1>1, <1>2, <2>1, <2>2
    <3> QED
      BY <3>1, <3>2 DEF ClaimHeld, ClaimReleased
  <2>3. CASE /\ claim.by \in {None, c} /\ client'[c].at \in Critical
             /\ claim' \in [by : {c}, written : BOOLEAN]
    BY <1>1, <1>2, <2>1, <2>3 DEF ClaimHeld, ClaimReleased
  <2>4. CASE client[c].at \in Critical /\ claim' = Free /\ client'[c].at \notin Critical
    BY <1>1, <1>2, <2>1, <2>4 DEF ClaimHeld, ClaimReleased, Free
  <2> QED
    BY <2>2, <2>3, <2>4 DEF ClaimMoves
<1>6. ASSUME NEW d \in Clients, alive(d)', client'[d].at \in WithChild
      PROVE  /\ \/ alive(d)
                \/ d = c /\ publication = None /\ client[c].at = "rechecking"
             /\ alive(d) => client[d].at \in WithChild
  <2>1. CASE d # c
    BY <1>2, <1>6, <2>1 DEF alive
  <2>2. CASE d = c
    BY <1>6, <2>2, Typed DEF ChildMoves, alive, WithChild
  <2> QED
    BY <2>1, <2>2
<1>7. ChildKnown'
  <2> SUFFICES ASSUME NEW d \in Clients, alive(d)'
               PROVE  \/ client'[d].at \in WithChild \cup {"dead"}
                      \/ client'[d].at = "done" /\ server'[d] = "ready"
                      \/ client'[d].at = "failed" /\ client'[d].disowned
    BY DEF ChildKnown
  <2>1. CASE d # c
    <3>1. alive(d) /\ client'[d] = client[d] /\ server'[d] = server[d]
      BY <1>2, <2>1 DEF alive
    <3>2. \/ client[d].at \in WithChild \cup {"dead"}
          \/ client[d].at = "done" /\ server[d] = "ready"
          \/ client[d].at = "failed" /\ client[d].disowned
      BY <3>1 DEF IInv, ChildKnown
    <3> QED
      BY <3>1, <3>2
  <2>2. CASE d = c
    <3>1. server'[c] \notin {"off", "gone"}
      BY <2>2 DEF alive
    <3> QED
      BY <2>2, <3>1 DEF ChildMoves, WithChild
  <2> QED
    BY <2>1, <2>2
<1>8. PublishedFirst'
  <2>1. server'[c] \in {"published", "ready"} => server'[c] = server[c]
    BY DEF ChildMoves
  <2> QED
    BY <1>1, <1>3, <2>1 DEF IInv, PublishedFirst
<1>9. Alone'
  <2> SUFFICES ASSUME NEW d \in Clients, NEW e \in Clients, d # e, alive(d)', alive(e)',
                      client'[d].at \in WithChild, client'[e].at = "done"
               PROVE  FALSE
    BY DEF Alone
  <2>1. CASE e = c
    <3>1. client[c].at \in WithChild
      BY <2>1 DEF ChildMoves, alive
    <3>2. client[d].at \in WithChild
      BY <1>2, <2>1
    <3> QED
      BY <2>1, <3>1, <3>2 DEF IInv, ClaimHeld, WithChild, Critical
  <2>2. CASE e # c
    <3>1. alive(e) /\ client[e].at = "done" /\ server[e] = "ready" /\ e \in Servers
      BY <1>2, <2>2 DEF alive, IInv, ChildKnown, WithChild, Servers
    <3>2. publication = e
      BY <1>1, <3>1 DEF IInv, PublishedFirst, publication, Servers
    <3> QED
      BY <1>1, <1>6, <3>1, <3>2 DEF IInv, Alone
  <2> QED
    BY <2>1, <2>2
<1> QED
  BY <1>4, <1>5, <1>7, <1>8, <1>9 DEF IInv

\* Servers that come, publish themselves and go.
LEMMA ServerKeeps == ASSUME IInv, NEW s \in Servers, Server(s) PROVE IInv'
<1>1. /\ client \in [Clients -> Client] /\ claim \in [by : Clients \cup {None}, written : BOOLEAN]
      /\ server \in [Servers -> {"off", "starting", "published", "ready", "terminated", "gone"}]
      /\ published \in Servers \cup {None} /\ faults \in 0..MaxFaults /\ MaxFaults \in Nat
      /\ None \notin Servers
  BY StartupAssumption DEF IInv, TypeOK, Servers
<1>2. UNCHANGED <<client, claim>>
  BY DEF Server, Publish, BecomesReady, StartManual, Exits, ServerDies
<1>3. PICK x \in {"starting", "published", "ready", "gone"} : server' = [server EXCEPT ![s] = x]
  BY DEF Server, Publish, BecomesReady, StartManual, Exits, ServerDies
<1>4. \A d \in Clients : alive(d)' => alive(d) /\ (server[d] = "ready" => server'[d] = "ready")
  <2>1. s \in Clients => s \notin Manual
    BY StartupAssumption
  <2> QED
    BY <1>1, <2>1 DEF Servers, Server, Publish, BecomesReady, StartManual, Exits, ServerDies, alive
<1>5. published' \in Servers \cup {None} /\ faults' \in 0..MaxFaults
  BY <1>1 DEF Server, Publish, BecomesReady, StartManual, Exits, ServerDies
<1>6. TypeOK'
  BY <1>1, <1>2, <1>3, <1>5 DEF TypeOK
<1>7. ClaimHeld'
  BY <1>2 DEF IInv, ClaimHeld, ClaimReleased
<1>8. ChildKnown' /\ Alone'
  BY <1>2, <1>4 DEF IInv, ChildKnown, Alone
<1>9. PublishedFirst'
  <2>1. CASE Publish(s)
    <3>1. \A z \in Servers : server[z] \notin {"published", "ready"}
      BY <1>1, <2>1 DEF Publish, publication, alive, IInv, PublishedFirst
    <3> QED
      BY <1>1, <2>1, <3>1 DEF Publish, PublishedFirst
  <2>2. CASE BecomesReady(s) \/ StartManual(s) \/ Exits(s) \/ ServerDies(s)
    BY <1>1, <2>2 DEF BecomesReady, StartManual, Exits, ServerDies, IInv, PublishedFirst
  <2> QED
    BY <2>1, <2>2 DEF Server
<1> QED
  BY <1>6, <1>7, <1>8, <1>9 DEF IInv

\* A client that dies leaves its child and its claim; a human removes the claim.
LEMMA DeathKeeps ==
  ASSUME IInv, NEW c \in Clients, ClientDies(c) \/ RemoveClaim \/ UNCHANGED vars
  PROVE  IInv'
<1>1. /\ client \in [Clients -> Client] /\ claim \in [by : Clients \cup {None}, written : BOOLEAN]
      /\ faults \in 0..MaxFaults /\ MaxFaults \in Nat
  BY StartupAssumption DEF IInv, TypeOK
<1>2. CASE ClientDies(c)
  <2>1. /\ client' \in [Clients -> Client] /\ client'[c].at = "dead"
        /\ \A d \in Clients : d # c => client'[d] = client[d]
    BY <1>1, <1>2, GoMoves DEF ClientDies, Go, Client, Ended
  <2>2. UNCHANGED <<claim, server, published>> /\ faults' \in 0..MaxFaults
    BY <1>1, <1>2 DEF ClientDies
  <2>3. TypeOK'
    BY <1>1, <2>1, <2>2 DEF IInv, TypeOK
  <2>4. ClaimHeld'
    BY <1>1, <2>1, <2>2 DEF IInv, ClaimHeld, ClaimReleased, Critical
  <2>5. ChildKnown' /\ PublishedFirst' /\ Alone'
    BY <2>1, <2>2 DEF IInv, ChildKnown, PublishedFirst, Alone, alive, WithChild
  <2> QED
    BY <2>3, <2>4, <2>5 DEF IInv
<1>3. CASE RemoveClaim
  <2>1. UNCHANGED <<client, server, published, faults>> /\ claim' = Free /\ claim.by # None
        /\ client[claim.by].at = "dead"
    BY <1>3 DEF RemoveClaim
  <2>2. TypeOK'
    BY <2>1 DEF IInv, TypeOK, Free
  <2>3. ClaimHeld'
    BY <1>1, <2>1 DEF IInv, ClaimHeld, ClaimReleased, Free, Critical
  <2>4. ChildKnown' /\ PublishedFirst' /\ Alone'
    BY <2>1 DEF IInv, ChildKnown, PublishedFirst, Alone, alive
  <2> QED
    BY <2>2, <2>3, <2>4 DEF IInv
<1>4. CASE UNCHANGED vars
  BY <1>4 DEF vars, IInv, TypeOK, ClaimHeld, ClaimReleased, ChildKnown, PublishedFirst, Alone, alive
<1> QED
  BY <1>2, <1>3, <1>4

-----------------------------------------------------------------------------
\* The inductive invariant holds in every reachable state.
THEOREM Invariant == Spec => []IInv
<1>1. IInv /\ [Next]_vars => IInv'
  <2> SUFFICES ASSUME IInv, [Next]_vars PROVE IInv'
    OBVIOUS
  <2>1. ASSUME NEW c \in Clients, Find(c) \/ Call(c) PROVE IInv'
    BY <2>1, CallSteps, CallKeeps
  <2>2. ASSUME NEW c \in Clients, ClientDies(c) PROVE IInv'
    BY <2>2, DeathKeeps
  <2>3. ASSUME NEW s \in Servers, Server(s) PROVE IInv'
    BY <2>3, ServerKeeps
  <2>4. CASE RemoveClaim
    <3>1. claim.by \in Clients
      BY <2>4 DEF RemoveClaim, IInv, TypeOK
    <3> QED
      BY <2>4, <3>1, DeathKeeps
  <2>5. CASE UNCHANGED vars
    BY <2>5 DEF vars, IInv, TypeOK, ClaimHeld, ClaimReleased, ChildKnown, PublishedFirst, Alone, alive
  <2> QED
    BY <2>1, <2>2, <2>3, <2>4, <2>5 DEF Next
<1> QED
  BY InitIInv, <1>1, PTL DEF Spec

\* Every variable of the start-up keeps its type.
THEOREM TypeCorrect == Spec => []TypeOK
<1>1. IInv => TypeOK
  BY DEF IInv
<1> QED
  BY <1>1, Invariant, PTL

\* Two children never run at once unless one is disowned or its client died, a failed call
\* leaves no child unsaid, and a claim that is left belongs to a running or a dead client.
THEOREM StartupIsSafe == Spec => []StartupSafe
<1>1. IInv => StartupSafe
  <2> SUFFICES ASSUME IInv PROVE StartupSafe
    OBVIOUS
  <2>1. ClaimReleased
    BY DEF IInv, ClaimHeld
  <2>2. NoOrphan
    BY DEF IInv, ChildKnown, NoOrphan, WithChild
  <2>3. OneChild
    <3> SUFFICES ASSUME NEW c \in Clients, NEW d \in Clients, c # d, alive(c), alive(d),
                        client[c].at # "dead", client[d].at # "dead"
                 PROVE  client[c].disowned \/ client[d].disowned
      BY DEF OneChild
    <3>1. ASSUME client[c].at \in WithChild, client[d].at \in WithChild PROVE FALSE
      BY <3>1 DEF IInv, ClaimHeld, WithChild, Critical
    <3>2. ASSUME client[c].at = "done", server[c] = "ready", client[d].at = "done", server[d] = "ready"
          PROVE  FALSE
      BY <3>2 DEF IInv, PublishedFirst, Servers
    <3> QED
      BY <3>1, <3>2 DEF IInv, ChildKnown, Alone
  <2> QED
    BY <2>1, <2>2, <2>3 DEF StartupSafe
<1> QED
  BY <1>1, Invariant, PTL
=============================================================================
