--------------------------- MODULE DeliveryProofs ---------------------------
(***************************************************************************)
(* For any number of requests, connections and participants, and for any   *)
(* capacity of the channels, no announced change is forgotten.             *)
(***************************************************************************)
EXTENDS Delivery, TLAPS

LEMMA InitTypeOK == Init => TypeOK
  BY CapAssumption DEF Init, TypeOK, Call, Idle, Stale, Shows, ConnPCs

\* What Changes and Unregister leave behind is well typed.
LEMMA ViewersTyped ==
  ASSUME TypeOK, Changes \/ UNCHANGED viewers
  PROVE  hand' \in [Conns -> Shows] /\ screen' \in [Conns -> Shows]
<1>1. CASE Changes
  BY <1>1 DEF Changes, Stale, Shows
<1>2. CASE UNCHANGED viewers
  BY <1>2 DEF viewers, TypeOK
<1> QED BY <1>1, <1>2

LEMMA UnregisterTyped ==
  ASSUME TypeOK, NEW c \in Conns, Unregister(c)
  PROVE  /\ registered' \in SUBSET Conns /\ closed' \in SUBSET Conns
         /\ hand' \in [Conns -> Shows] /\ screen' \in [Conns -> Shows]
<1>1. Changes \/ UNCHANGED viewers
  BY DEF Unregister
<1>2. hand' \in [Conns -> Shows] /\ screen' \in [Conns -> Shows]
  BY <1>1, ViewersTyped
<1> QED BY <1>2 DEF Unregister, TypeOK

LEMMA AnnounceTyped ==
  ASSUME TypeOK, NEW p \in Publishers, Announce(p)
  PROVE  pub' \in [Publishers -> Call]
  BY DEF Announce, TypeOK, Call

LEMMA StepTypeOK == TypeOK /\ [Next]_vars => TypeOK'
<1> SUFFICES ASSUME TypeOK, [Next]_vars PROVE TypeOK'
  OBVIOUS
<1> USE CapAssumption
<1>1. ASSUME NEW p \in Publishers, Copy(p) PROVE TypeOK'
  BY <1>1 DEF TypeOK, Call, Copy, people, hub, viewers
<1>2. ASSUME NEW p \in Publishers, Send(p) PROVE TypeOK'
  <2>1. PICK c \in pub[p].todo :
          \/ /\ queue[c] < Cap
             /\ queue' = [queue EXCEPT ![c] = @ + 1]
             /\ pub' = [pub EXCEPT ![p].todo = @ \ {c}]
          \/ /\ queue[c] = Cap
             /\ pub' = [pub EXCEPT ![p].todo = @ \ {c},
                                   ![p].stalled = @ \cup {c}]
             /\ UNCHANGED queue
    BY <1>2 DEF Send
  <2>2. c \in Conns
    <3>1. pub[p] \in Call
      BY DEF TypeOK
    <3> QED BY <3>1, <2>1 DEF Call
  <2>3. queue' \in [Conns -> 0 .. Cap]
    BY <2>1, <2>2 DEF TypeOK
  <2>4. pub' \in [Publishers -> Call]
    <3>1. CASE pub' = [pub EXCEPT ![p].todo = @ \ {c}]
      BY <3>1 DEF TypeOK, Call
    <3>2. CASE pub' = [pub EXCEPT ![p].todo = @ \ {c},
                                  ![p].stalled = @ \cup {c}]
      <4>1. pub[p] \in Call
        BY DEF TypeOK
      <4>2. [pub[p] EXCEPT !.todo = @ \ {c}, !.stalled = @ \cup {c}] \in Call
        BY <4>1, <2>2 DEF Call
      <4> QED BY <3>2, <4>2 DEF TypeOK
    <3> QED BY <2>1, <3>1, <3>2
  <2> QED BY <1>2, <2>3, <2>4 DEF TypeOK, Send, people, viewers
<1>3. ASSUME NEW p \in Publishers, DropStalled(p) PROVE TypeOK'
  <2>1. PICK c \in pub[p].stalled :
          /\ Unregister(c)
          /\ pub' = [pub EXCEPT ![p].stalled = @ \ {c}]
    BY <1>3 DEF DropStalled
  <2>2. c \in Conns
    BY <2>1 DEF TypeOK, Call
  <2>3. pub' \in [Publishers -> Call]
    BY <2>1 DEF TypeOK, Call
  <2>4. /\ registered' \in SUBSET Conns /\ closed' \in SUBSET Conns
        /\ hand' \in [Conns -> Shows] /\ screen' \in [Conns -> Shows]
    BY <2>1, <2>2, UnregisterTyped
  <2>5. UNCHANGED <<people, queue, conn>>
    BY <1>3 DEF DropStalled
  <2> QED BY <2>3, <2>4, <2>5 DEF TypeOK, people
<1>4. ASSUME NEW p \in Publishers, Published(p) PROVE TypeOK'
  BY <1>4 DEF TypeOK, Call, Published, Idle, people, hub, viewers
<1>5. ASSUME NEW h \in Handlers, Change(h) PROVE TypeOK'
  <2>1. pub' \in [Publishers -> Call]
    BY <1>5, AnnounceTyped DEF Change, Publishers
  <2>2. hand' \in [Conns -> Shows] /\ screen' \in [Conns -> Shows]
    BY <1>5, ViewersTyped DEF Change
  <2> QED BY <1>5, <2>1, <2>2 DEF TypeOK, Change, people, hub
<1>6. ASSUME NEW h \in Handlers, NEW q \in People, KickParticipant(h, q)
      PROVE  TypeOK'
  <2>1. pub' \in [Publishers -> Call]
    BY <1>6, AnnounceTyped DEF KickParticipant, Publishers
  <2>2. hand' \in [Conns -> Shows] /\ screen' \in [Conns -> Shows]
    BY <1>6, ViewersTyped DEF KickParticipant
  <2> QED BY <1>6, <2>1, <2>2 DEF TypeOK, KickParticipant, hub
<1>7. CASE UNCHANGED vars
  BY <1>7 DEF TypeOK, vars
<1>8. ASSUME NEW c \in Conns, Accept(c) PROVE TypeOK'
  BY <1>8 DEF TypeOK, Accept, ConnPCs, people, hub, viewers
<1>9. ASSUME NEW c \in Conns, Register(c) PROVE TypeOK'
  <2>1. pub' \in [Publishers -> Call]
    BY <1>9, AnnounceTyped DEF Register, Publishers
  <2>2. hand' \in [Conns -> Shows] /\ screen' \in [Conns -> Shows]
    BY <1>9, ViewersTyped DEF Register
  <2>3. conn' \in [Conns -> ConnPCs] /\ registered' \in SUBSET Conns
    BY <1>9 DEF TypeOK, Register, ConnPCs, Serving
  <2> QED BY <1>9, <2>1, <2>2, <2>3 DEF TypeOK, Register, people
<1>10. ASSUME NEW c \in Conns, ReadState(c) PROVE TypeOK'
  BY <1>10 DEF TypeOK, ReadState, ConnPCs, Serving, Shows, people, hub
<1>11. ASSUME NEW c \in Conns, Push(c) PROVE TypeOK'
  BY <1>11 DEF TypeOK, Push, ConnPCs, Serving, Shows, people, hub
<1>12. ASSUME NEW c \in Conns, Take(c) PROVE TypeOK'
  BY <1>12 DEF TypeOK, Take, ConnPCs, Serving, people, viewers
<1>13. ASSUME NEW c \in Conns, SeeClosed(c) \/ HangUp(c) PROVE TypeOK'
  BY <1>13
     DEF TypeOK, SeeClosed, HangUp, ConnPCs, Serving, people, hub, viewers
<1>14. ASSUME NEW c \in Conns, Leave(c) PROVE TypeOK'
  <2>1. pub' \in [Publishers -> Call]
    BY <1>14, AnnounceTyped DEF Leave, Publishers
  <2>2. /\ registered' \in SUBSET Conns /\ closed' \in SUBSET Conns
        /\ hand' \in [Conns -> Shows] /\ screen' \in [Conns -> Shows]
    BY <1>14, UnregisterTyped DEF Leave
  <2>3. conn' \in [Conns -> ConnPCs]
    BY <1>14 DEF TypeOK, Leave, ConnPCs
  <2> QED BY <1>14, <2>1, <2>2, <2>3 DEF TypeOK, Leave, people
<1>15. ASSUME NEW c \in Conns, Gone(c) PROVE TypeOK'
  BY <1>15 DEF TypeOK, Gone, ConnPCs, people, hub, viewers
<1> QED
  BY <1>1, <1>2, <1>3, <1>4, <1>5, <1>6, <1>7, <1>8, <1>9, <1>10, <1>11, <1>12,
     <1>13, <1>14, <1>15 DEF Next, Publish, Serve

\* Every variable keeps its type; in particular no channel ever holds more
\* than its capacity, although publishers check and send without a lock.
THEOREM TypeCorrect == Spec => []TypeOK
  BY InitTypeOK, StepTypeOK, PTL DEF Spec

-----------------------------------------------------------------------------
\* Why nothing is forgotten: a snapshot that lacks an announced change, whether
\* still in hand or already on screen, belongs to a connection with an event in
\* its channel or on the way.  A connection that is about to read needs none.

Owed(c) ==
  \/ conn[c] = "loop" /\ screen[c] = "stale"
  \/ conn[c] = "push" /\ hand[c] = "stale"

ListedServe == \A c \in registered : conn[c] \in Serving

EventOwed == \A c \in registered : Owed(c) => queue[c] > 0 \/ Coming(c)

ForgetInv == TypeOK /\ ListedServe /\ EventOwed

\* An event on its way stays on its way while no goroutine moves on in Publish
\* and no dropped connection takes its leave.
LEMMA ComingKept ==
  ASSUME NEW c \in Conns, Coming(c), UNCHANGED pub,
         closed \subseteq closed',
         \A d \in closed : conn[d] \in Serving => conn'[d] \in Serving
  PROVE  Coming(c)'
  BY DEF Coming

\* A goroutine that has just called Publish owes everybody an event.
LEMMA AnnouncedComing ==
  ASSUME TypeOK, NEW p \in Publishers, Announce(p), NEW c \in Conns
  PROVE  Coming(c)'
<1>1. pub'[p].pc = "copy"
  BY DEF Announce, TypeOK, Call
<1> QED BY <1>1 DEF Coming

LEMMA InitForgetInv == Init => ForgetInv
  BY InitTypeOK DEF Init, ForgetInv, ListedServe, EventOwed

\* Only Register lists a client, and only Leave ends the service of one.
LEMMA StepListedServe ==
  ASSUME TypeOK, ListedServe, [Next]_vars
  PROVE  ListedServe'
<1> USE DEF ListedServe, Serving
<1>1. ASSUME NEW p \in Publishers, Publish(p) PROVE ListedServe'
  <2>1. registered' \subseteq registered /\ UNCHANGED conn
    BY <1>1 DEF Publish, Copy, Send, DropStalled, Published, Unregister, hub
  <2> QED BY <2>1
<1>2. ASSUME NEW c \in Conns, Accept(c) \/ Serve(c) \/ HangUp(c)
      PROVE  ListedServe'
  <2>1. CASE Accept(c)
    BY <2>1 DEF Accept, hub, TypeOK
  <2>2. CASE Register(c)
    BY <2>2 DEF Register, TypeOK
  <2>3. CASE Leave(c)
    <3>1. registered' = registered \ {c}
      BY <2>3 DEF Leave, Unregister
    <3>2. conn' = [conn EXCEPT ![c] = "goodbye"]
      BY <2>3 DEF Leave
    <3> QED BY <3>1, <3>2 DEF TypeOK
  <2>4. CASE Gone(c)
    BY <2>4 DEF Gone, hub, TypeOK
  <2>5. CASE ReadState(c) \/ Push(c) \/ Take(c) \/ SeeClosed(c) \/ HangUp(c)
    BY <2>5 DEF ReadState, Push, Take, SeeClosed, HangUp, hub, TypeOK
  <2> QED BY <1>2, <2>1, <2>2, <2>3, <2>4, <2>5 DEF Serve
<1>3. ASSUME NEW h \in Handlers,
             Change(h) \/ \E q \in People : KickParticipant(h, q)
      PROVE  ListedServe'
  BY <1>3 DEF Change, KickParticipant, hub
<1>4. CASE UNCHANGED vars
  BY <1>4 DEF vars
<1> QED BY <1>1, <1>2, <1>3, <1>4 DEF Next

\* One step of Publish.
LEMMA PublishEventOwed ==
  ASSUME ForgetInv, NEW p \in Publishers, Publish(p)
  PROVE  EventOwed'
<1> SUFFICES ASSUME NEW c \in registered', Owed(c)'
             PROVE  queue'[c] > 0 \/ Coming(c)'
  BY DEF EventOwed
<1> USE CapAssumption
<1>1. UNCHANGED conn
  BY DEF Publish, Copy, Send, DropStalled, Published
<1>2. c \in registered /\ c \in Conns
  BY DEF Publish, Copy, Send, DropStalled, Published, Unregister, hub,
         ForgetInv, TypeOK
<1>3. CASE Copy(p)
  <2>1. Owed(c) /\ UNCHANGED <<queue, closed>>
    BY <1>3, <1>1 DEF Copy, Owed, viewers, hub
  <2>2. queue[c] > 0 \/ Coming(c)
    BY <2>1, <1>2 DEF ForgetInv, EventOwed
  <2>3. c \in pub'[p].todo
    BY <1>3, <1>2 DEF Copy, ForgetInv, TypeOK
  <2> QED BY <2>3 DEF Coming
<1>4. CASE Send(p)
  <2>1. PICK d \in pub[p].todo :
          \/ /\ queue[d] < Cap
             /\ queue' = [queue EXCEPT ![d] = @ + 1]
             /\ pub' = [pub EXCEPT ![p].todo = @ \ {d}]
          \/ /\ queue[d] = Cap
             /\ pub' = [pub EXCEPT ![p].todo = @ \ {d},
                                   ![p].stalled = @ \cup {d}]
             /\ UNCHANGED queue
    BY <1>4 DEF Send
  <2>2. Owed(c) /\ UNCHANGED closed
    BY <1>4, <1>1 DEF Send, Owed, viewers
  <2>3. queue[c] > 0 \/ Coming(c)
    BY <2>2, <1>2 DEF ForgetInv, EventOwed
  <2>4. CASE d = c
    BY <2>1, <2>4, <1>2 DEF ForgetInv, TypeOK
  <2>5. CASE d # c /\ queue[c] > 0
    BY <2>1, <2>5, <1>2 DEF ForgetInv, TypeOK
  <2>6. CASE d # c /\ Coming(c)
    <3>1. pub[p].pc = "send" /\ pub \in [Publishers -> Call]
      BY <1>4 DEF Send, ForgetInv, TypeOK
    <3>2. /\ \A q \in Publishers \ {p} : pub'[q] = pub[q]
          /\ pub'[p].todo = pub[p].todo \ {d}
      BY <2>1, <3>1 DEF Call
    <3> QED BY <2>6, <3>1, <3>2, <2>2, <1>1 DEF Coming
  <2> QED BY <2>3, <2>4, <2>5, <2>6
<1>5. CASE DropStalled(p)
  <2>1. PICK d \in pub[p].stalled :
          /\ Unregister(d)
          /\ pub' = [pub EXCEPT ![p].stalled = @ \ {d}]
    BY <1>5 DEF DropStalled
  <2>2. CASE d \in registered
    BY <2>1, <2>2, <1>1 DEF Unregister, Coming, ForgetInv, ListedServe
  <2>3. CASE d \notin registered
    <3>1. Owed(c) /\ UNCHANGED queue
      BY <1>5, <1>1, <2>1, <2>3 DEF DropStalled, Unregister, Owed, viewers
    <3>2. queue[c] > 0 \/ Coming(c)
      BY <3>1, <1>2 DEF ForgetInv, EventOwed
    <3>3. \A q \in Publishers :
            pub'[q].pc = pub[q].pc /\ pub'[q].todo = pub[q].todo
      BY <2>1 DEF ForgetInv, TypeOK, Call
    <3>4. closed \subseteq closed'
      BY <2>1 DEF Unregister
    <3> QED BY <3>1, <3>2, <3>3, <3>4, <1>1 DEF Coming
  <2> QED BY <2>2, <2>3
<1>6. CASE Published(p)
  <2>1. Owed(c) /\ UNCHANGED <<queue, closed>>
    BY <1>6, <1>1 DEF Published, Owed, viewers, hub
  <2>2. queue[c] > 0 \/ Coming(c)
    BY <2>1, <1>2 DEF ForgetInv, EventOwed
  <2>3. /\ pub[p].pc = "send" /\ pub[p].todo = {}
        /\ \A q \in Publishers \ {p} : pub'[q] = pub[q]
    BY <1>6 DEF Published, ForgetInv, TypeOK
  <2> QED BY <2>1, <2>2, <2>3, <1>1 DEF Coming
<1> QED BY <1>3, <1>4, <1>5, <1>6 DEF Publish

\* One step of a connection.
LEMMA ConnectionEventOwed ==
  ASSUME ForgetInv, NEW d \in Conns, Accept(d) \/ Serve(d) \/ HangUp(d)
  PROVE  EventOwed'
<1> SUFFICES ASSUME NEW c \in registered', Owed(c)'
             PROVE  queue'[c] > 0 \/ Coming(c)'
  BY DEF EventOwed
<1> USE DEF Serving
<1>1. CASE Register(d) \/ Leave(d)
  <2>1. Announce(d) /\ c \in Conns
    BY <1>1 DEF Register, Leave, Unregister, ForgetInv, TypeOK
  <2> QED BY <2>1, AnnouncedComing DEF ForgetInv, Publishers
<1>2. CASE Accept(d) \/ ReadState(d) \/ Push(d) \/ Take(d) \/ SeeClosed(d)
           \/ HangUp(d) \/ Gone(d)
  <2>1. c \in registered /\ c \in Conns /\ UNCHANGED <<pub, closed>>
    BY <1>2 DEF Accept, ReadState, Push, Take, SeeClosed, HangUp, Gone, hub,
                ForgetInv, TypeOK
  <2>2. Owed(c) /\ queue'[c] = queue[c]
    <3>1. CASE d = c
      BY <1>2, <2>1, <3>1
         DEF Accept, ReadState, Push, Take, SeeClosed, HangUp, Gone, Owed, hub,
             viewers, ForgetInv, TypeOK
    <3>2. CASE d # c
      BY <1>2, <2>1, <3>2
         DEF Accept, ReadState, Push, Take, SeeClosed, HangUp, Gone, Owed, hub,
             viewers, ForgetInv, TypeOK
    <3> QED BY <3>1, <3>2
  <2>3. queue[c] > 0 \/ Coming(c)
    BY <2>1, <2>2 DEF ForgetInv, EventOwed
  <2>4. \A e \in closed : conn[e] \in Serving => conn'[e] \in Serving
    BY <1>2 DEF Accept, ReadState, Push, Take, SeeClosed, HangUp, Gone,
                ForgetInv, TypeOK
  <2> QED BY <2>1, <2>2, <2>3, <2>4, ComingKept
<1> QED BY <1>1, <1>2 DEF Serve

LEMMA StepForgetInv == ForgetInv /\ [Next]_vars => ForgetInv'
<1> SUFFICES ASSUME ForgetInv, [Next]_vars PROVE ForgetInv'
  OBVIOUS
<1>1. TypeOK' /\ ListedServe'
  BY StepTypeOK, StepListedServe DEF ForgetInv
<1>2. ASSUME NEW h \in Handlers,
             Change(h) \/ \E q \in People : KickParticipant(h, q)
      PROVE  EventOwed'
  <2>1. Announce(h) /\ registered' \subseteq Conns
    BY <1>2 DEF Change, KickParticipant, hub, ForgetInv, TypeOK
  <2> QED
    BY <2>1, AnnouncedComing DEF EventOwed, ForgetInv, Publishers
<1>3. ASSUME UNCHANGED vars PROVE EventOwed'
  BY <1>3 DEF vars, Owed, EventOwed, Coming, ForgetInv
<1>4. EventOwed'
  BY <1>2, <1>3, PublishEventOwed, ConnectionEventOwed DEF Next
<1> QED BY <1>1, <1>4 DEF ForgetInv

\* No announced change is forgotten, whatever the interleaving.
THEOREM NeverForgotten == Spec => []NothingForgotten
<1>1. ForgetInv => NothingForgotten
  BY DEF ForgetInv, TypeOK, EventOwed, Owed, NothingForgotten, CaughtUp
<1> QED BY <1>1, InitForgetInv, StepForgetInv, PTL DEF Spec

=============================================================================
