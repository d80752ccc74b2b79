------------------------------ MODULE Delivery ------------------------------
(***************************************************************************)
(* How a change of the room reaches the people who watch it: the hub's     *)
(* registry of clients, the bounded channel of each client, Publish, and   *)
(* the goroutine that serves each WebSocket.                               *)
(*                                                                         *)
(* What is pushed is always a whole snapshot of the room, read from the    *)
(* database and from the hub after the event was taken from the channel.   *)
(* So the content of the room is left out, and what is kept is whether a   *)
(* snapshot, in hand or on screen, shows every change that is announced.   *)
(* A change makes every snapshot that was read before it stale.  Writes    *)
(* that nobody is told of are left out: what is promised is not about them.*)
(*                                                                         *)
(* A client is one connection and is never used again: a viewer who comes  *)
(* back is another member of Conns.  One room; the hub keeps rooms apart.  *)
(***************************************************************************)
EXTENDS Naturals

CONSTANTS
  Handlers,   \* goroutines that serve requests
  Conns,      \* WebSocket connections that can ever be made
  People,     \* participants
  Host,       \* the one who removes others
  Owner,      \* whose connection each one is
  Cap         \* capacity of a client's channel (32 in the code)

Publishers == Handlers \cup Conns

ASSUME OwnerAssumption  == Owner \in [Conns -> People]
ASSUME HostAssumption   == Host \in People
ASSUME CapAssumption    == Cap \in Nat \ {0}
ASSUME ProcessAssumption == Handlers \cap Conns = {}

VARIABLES
  removed,     \* participants whose row has been deleted
  registered,  \* the hub's registry
  closed,      \* clients the hub has closed
  queue,       \* how many events each client's channel holds
  conn,        \* where the goroutine of each connection is
  pub,         \* the Publish call each goroutine is in, if any
  hand,        \* what the snapshot each connection is about to push shows
  screen       \* what each viewer sees

people  == <<removed>>
hub     == <<registered, closed, queue>>
viewers == <<hand, screen>>
vars    == <<removed, registered, closed, queue, conn, pub, hand, screen>>

\* A Publish call: the clients still to be offered the event, and those found
\* to be full.
Call == [pc : {"idle", "copy", "send"}, todo : SUBSET Conns,
         stalled : SUBSET Conns]
Idle == [pc |-> "idle", todo |-> {}, stalled |-> {}]

\* Where a connection is while its client has not been unregistered by it.
Serving == {"announce", "state", "push", "loop", "leave"}
ConnPCs == {"new", "accepted", "goodbye", "done"} \cup Serving

Shows == {"announced", "stale"}
Stale == [c \in Conns |-> "stale"]

\* Something that a snapshot shows changes.
Changes == hand' = Stale /\ screen' = Stale

Init ==
  /\ removed = {}
  /\ registered = {} /\ closed = {}
  /\ queue = [c \in Conns |-> 0]
  /\ conn = [c \in Conns |-> "new"]
  /\ pub = [p \in Publishers |-> Idle]
  /\ hand = Stale /\ screen = Stale

-----------------------------------------------------------------------------
\* Hub.Publish: copy the registry under its lock, offer the event to every
\* client of the copy without waiting, then unregister those whose channel
\* was full.

\* The goroutine p calls Publish.
Announce(p) == pub' = [pub EXCEPT ![p].pc = "copy"]

Copy(p) ==
  /\ pub[p].pc = "copy"
  /\ pub' = [pub EXCEPT ![p] = [pc |-> "send", todo |-> registered,
                                stalled |-> {}]]
  /\ UNCHANGED <<people, hub, conn, viewers>>

\* Faulty variant of Send: takes no notice of a full channel.
SendUnbounded(p) ==
  /\ pub[p].pc = "send"
  /\ \E c \in pub[p].todo :
       /\ queue' = [queue EXCEPT ![c] = @ + 1]
       /\ pub' = [pub EXCEPT ![p].todo = @ \ {c}]
  /\ UNCHANGED <<people, registered, closed, conn, viewers>>

Send(p) ==
  /\ pub[p].pc = "send"
  /\ \E c \in pub[p].todo :
       \/ /\ queue[c] < Cap
          /\ queue' = [queue EXCEPT ![c] = @ + 1]
          /\ pub' = [pub EXCEPT ![p].todo = @ \ {c}]
       \/ /\ queue[c] = Cap
          /\ pub' = [pub EXCEPT ![p].todo = @ \ {c},
                                ![p].stalled = @ \cup {c}]
          /\ UNCHANGED queue
  /\ UNCHANGED <<people, registered, closed, conn, viewers>>

\* Hub.Unregister: whoever was listed is not online any more.
Unregister(c) ==
  /\ registered' = registered \ {c}
  /\ closed' = closed \cup {c}
  /\ IF c \in registered THEN Changes ELSE UNCHANGED viewers

\* Faulty variant of DropStalled: takes the client off the list and no more.
DropStalledUnclosed(p) ==
  /\ pub[p].pc = "send" /\ pub[p].todo = {}
  /\ \E c \in pub[p].stalled :
       /\ registered' = registered \ {c}
       /\ pub' = [pub EXCEPT ![p].stalled = @ \ {c}]
  /\ Changes
  /\ UNCHANGED <<people, closed, queue, conn>>

DropStalled(p) ==
  /\ pub[p].pc = "send" /\ pub[p].todo = {}
  /\ \E c \in pub[p].stalled :
       /\ Unregister(c)
       /\ pub' = [pub EXCEPT ![p].stalled = @ \ {c}]
  /\ UNCHANGED <<people, queue, conn>>

Published(p) ==
  /\ pub[p].pc = "send" /\ pub[p].todo = {} /\ pub[p].stalled = {}
  /\ pub' = [pub EXCEPT ![p] = Idle]
  /\ UNCHANGED <<people, hub, conn, viewers>>

-----------------------------------------------------------------------------
\* Requests: one write to the database or several, then publish.

Change(h) ==
  /\ pub[h].pc \in {"idle", "copy"}
  /\ Announce(h)
  /\ Changes
  /\ UNCHANGED <<people, hub, conn>>

\* Faulty variant of KickParticipant: publishes before the row is deleted, so
\* that nothing is left to publish after.
KickParticipantLate(h, q) ==
  /\ pub[h].pc = "idle" /\ q \notin removed /\ q # Host
  /\ removed' = removed \cup {q}
  /\ Changes
  /\ UNCHANGED <<hub, conn, pub>>

\* The host cannot remove themselves.
KickParticipant(h, q) ==
  /\ pub[h].pc = "idle" /\ q \notin removed /\ q # Host
  /\ removed' = removed \cup {q}
  /\ Announce(h)
  /\ Changes
  /\ UNCHANGED <<hub, conn>>

-----------------------------------------------------------------------------
\* The goroutine of a connection.

\* requireSession found the participant; the handshake follows.
Accept(c) ==
  /\ conn[c] = "new" /\ Owner[c] \notin removed
  /\ conn' = [conn EXCEPT ![c] = "accepted"]
  /\ UNCHANGED <<people, hub, pub, viewers>>

\* Register, then NotifyPresence.
Register(c) ==
  /\ conn[c] = "accepted"
  /\ registered' = registered \cup {c}
  /\ conn' = [conn EXCEPT ![c] = "announce"]
  /\ Announce(c)
  /\ Changes
  /\ UNCHANGED <<people, closed, queue>>

\* pushState, the reading half.  State fails for a participant who is gone.
ReadState(c) ==
  /\ conn[c] \in {"announce", "state"} /\ pub[c].pc = "idle"
  /\ \/ /\ Owner[c] \notin removed
        /\ conn' = [conn EXCEPT ![c] = "push"]
        /\ hand' = [hand EXCEPT ![c] = "announced"]
     \/ /\ Owner[c] \in removed
        /\ conn' = [conn EXCEPT ![c] = "leave"]
        /\ UNCHANGED hand
  /\ UNCHANGED <<people, hub, pub, screen>>

\* pushState, the writing half; it may take long.
Push(c) ==
  /\ conn[c] = "push"
  /\ conn' = [conn EXCEPT ![c] = "loop"]
  /\ screen' = [screen EXCEPT ![c] = hand[c]]
  /\ hand' = [hand EXCEPT ![c] = "stale"]
  /\ UNCHANGED <<people, hub, pub>>

\* Faulty variant of Take: forwards the event without a snapshot.
TakeEventOnly(c) ==
  /\ conn[c] = "loop" /\ queue[c] > 0
  /\ queue' = [queue EXCEPT ![c] = @ - 1]
  /\ UNCHANGED <<people, registered, closed, conn, pub, viewers>>

\* Every event asks for a snapshot.
Take(c) ==
  /\ conn[c] = "loop" /\ queue[c] > 0
  /\ queue' = [queue EXCEPT ![c] = @ - 1]
  /\ conn' = [conn EXCEPT ![c] = "state"]
  /\ UNCHANGED <<people, registered, closed, pub, viewers>>

SeeClosed(c) ==
  /\ conn[c] = "loop" /\ c \in closed
  /\ conn' = [conn EXCEPT ![c] = "leave"]
  /\ UNCHANGED <<people, hub, pub, viewers>>

\* The viewer has gone, or a write, a ping or a read of the state has failed.
HangUp(c) ==
  /\ conn[c] \in {"announce", "state", "push", "loop"} /\ pub[c].pc = "idle"
  /\ conn' = [conn EXCEPT ![c] = "leave"]
  /\ UNCHANGED <<people, hub, pub, viewers>>

\* Faulty variant of Leave: a client the hub has dropped goes unannounced.
LeaveQuietly(c) ==
  /\ conn[c] = "leave"
  /\ conn' = [conn EXCEPT ![c] = "goodbye"]
  /\ Unregister(c)
  /\ IF c \in closed THEN UNCHANGED pub ELSE Announce(c)
  /\ UNCHANGED <<people, queue>>

\* The deferred Unregister and NotifyPresence.
Leave(c) ==
  /\ conn[c] = "leave"
  /\ conn' = [conn EXCEPT ![c] = "goodbye"]
  /\ Unregister(c)
  /\ Announce(c)
  /\ UNCHANGED <<people, queue>>

Gone(c) ==
  /\ conn[c] = "goodbye" /\ pub[c].pc = "idle"
  /\ conn' = [conn EXCEPT ![c] = "done"]
  /\ UNCHANGED <<people, hub, pub, viewers>>

-----------------------------------------------------------------------------
Publish(p) == Copy(p) \/ Send(p) \/ DropStalled(p) \/ Published(p)

Serve(c) ==
  \/ Register(c) \/ ReadState(c) \/ Push(c) \/ Take(c) \/ SeeClosed(c)
  \/ Leave(c) \/ Gone(c)

Next ==
  \/ \E p \in Publishers : Publish(p)
  \/ \E c \in Conns : Accept(c) \/ Serve(c) \/ HangUp(c)
  \/ \E h \in Handlers : Change(h) \/ \E q \in People : KickParticipant(h, q)

Spec == Init /\ [][Next]_vars

\* Goroutines that can run do run.  Nobody has to change the room or connect.
FairSpec ==
  /\ Spec
  /\ \A p \in Publishers : WF_vars(Publish(p))
  /\ \A c \in Conns : WF_vars(Serve(c))

-----------------------------------------------------------------------------
\* Properties.

TypeOK ==
  /\ removed \in SUBSET People
  /\ registered \in SUBSET Conns /\ closed \in SUBSET Conns
  /\ queue \in [Conns -> 0 .. Cap]
  /\ conn \in [Conns -> ConnPCs]
  /\ pub \in [Publishers -> Call]
  /\ hand \in [Conns -> Shows] /\ screen \in [Conns -> Shows]

\* Some goroutine still has an event for c, or is about to have one.
Coming(c) ==
  \/ \E p \in Publishers : pub[p].pc = "copy" \/ c \in pub[p].todo
  \/ \E d \in closed : conn[d] \in Serving

\* A viewer the hub lists, whose goroutine has nothing left to take.
CaughtUp(c) == c \in registered /\ conn[c] = "loop" /\ queue[c] = 0

\* Every announced change reaches every viewer: one whose goroutine waits on an
\* empty channel sees them all, unless an event is on its way.  No change falls
\* between a snapshot that was read too early and an event that was taken,
\* dropped or never sent, however full the channels are and whoever comes and
\* goes meanwhile.
NothingForgotten ==
  \A c \in Conns : CaughtUp(c) /\ screen[c] = "stale" => Coming(c)

\* When the requests stop, everybody who stays connected ends up seeing every
\* announced change, for good.
ViewsCatchUp ==
  <>[](\A h \in Handlers : pub[h].pc = "idle")
    => \A c \in Conns : <>[](conn[c] = "loop" => screen[c] # "stale")

\* A client the hub dropped does not linger: its connection ends, so that its
\* viewer notices and comes back.
UnlistedLeave ==
  \A c \in Conns :
    conn[c] \in Serving /\ c \notin registered ~> conn[c] = "done"

\* A participant who is removed loses their connections, even one that was
\* being made at that moment.
RemovedLeave ==
  \A c \in Conns :
    conn[c] # "new" /\ Owner[c] \in removed ~> conn[c] = "done"

=============================================================================
