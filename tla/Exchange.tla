------------------------------ MODULE Exchange ------------------------------
(***************************************************************************)
(* Sending an estimate back: one topic imported from a tracker, the item it *)
(* was imported from, and the requests that write the agreed card first to  *)
(* the item and then to the room.                                           *)
(*                                                                          *)
(* The tracker is external: an item of Jira or Azure Boards has fields its  *)
(* size may be in, an item of GitHub has labels.  People change it there    *)
(* while a request is between two calls.                                    *)
(***************************************************************************)
EXTENDS Naturals

CONSTANTS
    Handlers,  \* goroutines serving requests that record an estimate
    Voters,    \* goroutines serving votes
    Deck,      \* the room's cards
    Escapes,   \* CardUnknown and CardCoffee
    Numbers,   \* the cards that are numbers
    NoCard,    \* no estimate
    Labels,    \* labels that are not estimates
    LastName   \* how many names the size field goes by

ASSUME ExchangeAssumption ==
    /\ NoCard \notin Deck
    /\ Numbers \subseteq Deck \ Escapes
    /\ LastName \in Nat \ {0}

Kinds == {"jira", "azure", "github"}
Names == 1 .. LastName  \* storyPointNames, azureEstimateFields: the preferred first
Estimates == Deck \ Escapes
FaceUp == {"revealed", "estimated"}

VARIABLES
    origin,  \* the tracker of the item, the size fields that exist there
             \* and those on the item's screen; none of this changes
    item,    \* the item
    conn,    \* the tracker the room is connected to
    status,  \* topics.status, or "gone"
    final,   \* topics.final_estimate
    voting,  \* the votes that have read the topic as pending
    req      \* the requests in flight

vars == <<origin, item, conn, status, final, voting, req>>

\* A request.  From pushed on, histories: whether it goes to the tracker, whether
\* others have changed the item since it last read or wrote it, the votes under way
\* since before it began, and whether the topic was turned face down since: by a
\* reset or by one of those votes.
Idle == [pc |-> "idle", card |-> NoCard, field |-> 1, kept |-> {},
         pushed |-> FALSE, crossed |-> FALSE, votes |-> {}, turned |-> FALSE]
Request == [pc : {"idle", "access", "look", "put", "patch", "read", "replace", "store"},
            card : Estimates \cup {NoCard}, field : Names, kept : SUBSET Labels,
            pushed : BOOLEAN, crossed : BOOLEAN, votes : SUBSET Voters,
            turned : BOOLEAN]

Origin == [kind : Kinds, offered : SUBSET Names, screen : SUBSET Names]
Item == [there : BOOLEAN, size : [origin.screen -> Numbers \cup {NoCard}],
         labels : SUBSET Labels, estimates : SUBSET Estimates]

Busy(h, pc) == req[h].pc = pc
Finish(h) == req' = [req EXCEPT ![h] = Idle]

Init ==
    /\ origin \in Origin
    /\ origin.screen \subseteq origin.offered
    /\ origin.kind = "azure" => origin.offered = origin.screen
    /\ origin.kind = "github" => origin.offered = {}
    /\ item = [there |-> TRUE, size |-> [f \in origin.screen |-> NoCard],
               labels |-> {}, estimates |-> {}]
    /\ conn = "none"
    /\ status = "pending"
    /\ final = NoCard
    /\ voting = {}
    /\ req = [h \in Handlers |-> Idle]

-----------------------------------------------------------------------------
\* The request until it calls the tracker

\* RevealedOrEstimated and checkEstimate.
Accepts(c) == status \in FaceUp /\ c \in Estimates

Begin(h, r) ==
    /\ Busy(h, "idle")
    /\ req' = [req EXCEPT ![h] = [r EXCEPT !.votes = voting]]
    /\ UNCHANGED <<origin, item, conn, status, final, voting>>

\* Faulty variant of PushEstimate: does not look whether the cards are up.
PushEstimateFaceDown(h, c) ==
    /\ c \in Estimates
    /\ Begin(h, [Idle EXCEPT !.pc = "access", !.card = c, !.pushed = TRUE])

PushEstimate(h, c) ==
    /\ Accepts(c)
    /\ Begin(h, [Idle EXCEPT !.pc = "access", !.card = c, !.pushed = TRUE])

\* The same decision taken without the tracker.
FinalizeTopic(h, c) ==
    /\ Accepts(c)
    /\ Begin(h, [Idle EXCEPT !.pc = "store", !.card = c])

\* Faulty variant of Takes: sends any card to any tracker of the item.
TakesAny(kind, c) == kind = origin.kind

\* ErrNotNumeric, and ErrBadKey: a key has the shape of its own tracker only.
Takes(kind, c) == kind = origin.kind /\ (kind # "github" => c \in Numbers)

FirstCall(kind) ==
    IF kind = "jira" THEN "look" ELSE IF kind = "azure" THEN "patch" ELSE "read"

\* The credentials are read once: a connection replaced later is not noticed.
Access(h) ==
    /\ Busy(h, "access")
    /\ \/ Takes(conn, req[h].card) /\ req' = [req EXCEPT ![h].pc = FirstCall(conn)]
       \/ ~Takes(conn, req[h].card) /\ Finish(h)
    /\ UNCHANGED <<origin, item, conn, status, final, voting>>

-----------------------------------------------------------------------------
\* Calls to the tracker

\* The item becomes new: a request that relies on what it was has been crossed.
Crossed(g, new) ==
    IF new # item /\ req[g].pc \in {"replace", "store"}
    THEN [req[g] EXCEPT !.crossed = TRUE] ELSE req[g]

Write(h, new) ==
    /\ item.there
    /\ item' = new
    /\ req' = [g \in Handlers |->
                  IF g = h THEN [req[h] EXCEPT !.pc = "store", !.crossed = FALSE]
                  ELSE Crossed(g, new)]

Missing(h) == ~item.there /\ Finish(h) /\ UNCHANGED item

Preferred(f, S) == f \in S /\ \A g \in S : f <= g

\* StoryPointsField: without the edit screen the first field there is.
Look(h) ==
    /\ Busy(h, "look")
    /\ \/ \E f \in Names :
            /\ \/ Preferred(f, origin.screen) /\ item.there
               \/ Preferred(f, origin.offered)
            /\ req' = [req EXCEPT ![h].pc = "put", ![h].field = f]
       \/ origin.screen = {} /\ Finish(h)
    /\ UNCHANGED <<origin, item, conn, status, final, voting>>

Sized(h) == [item EXCEPT !.size[req[h].field] = req[h].card]

Put(h) ==
    /\ Busy(h, "put")
    /\ \/ req[h].field \in origin.screen /\ Write(h, Sized(h))
       \/ req[h].field \notin origin.screen /\ Finish(h) /\ UNCHANGED item
       \/ Missing(h)
    /\ UNCHANGED <<origin, conn, status, final, voting>>

\* Faulty variant of Patch: the last refusal counts as an answer.
PatchForgetsRefusal(h) ==
    /\ Busy(h, "patch")
    /\ \/ req[h].field \in origin.screen /\ Write(h, Sized(h))
       \/ /\ item.there
          /\ \/ req[h].field < LastName /\ req' = [req EXCEPT ![h].field = @ + 1]
             \/ req[h].field = LastName /\ req' = [req EXCEPT ![h].pc = "store"]
          /\ UNCHANGED item
       \/ Missing(h)
    /\ UNCHANGED <<origin, conn, status, final, voting>>

\* One PATCH.  Azure answers 400 when the item does not have the field, and for
\* other reasons too; the next field is tried after either.
Patch(h) ==
    /\ Busy(h, "patch")
    /\ \/ req[h].field \in origin.screen /\ Write(h, Sized(h))
       \/ /\ item.there
          /\ \/ req[h].field < LastName /\ req' = [req EXCEPT ![h].field = @ + 1]
             \/ req[h].field = LastName /\ Finish(h)
          /\ UNCHANGED item
       \/ Missing(h)
    /\ UNCHANGED <<origin, conn, status, final, voting>>

\* Faulty variant of Read: does not read the labels it is going to replace.
ReadKeepsNothing(h) ==
    /\ Busy(h, "read")
    /\ \/ /\ item.there
          /\ req' = [req EXCEPT ![h].pc = "replace"]
          /\ UNCHANGED item
       \/ Missing(h)
    /\ UNCHANGED <<origin, conn, status, final, voting>>

\* The labels that are not estimates.
Read(h) ==
    /\ Busy(h, "read")
    /\ \/ /\ item.there
          /\ req' = [req EXCEPT ![h].pc = "replace", ![h].kept = item.labels]
          /\ UNCHANGED item
       \/ Missing(h)
    /\ UNCHANGED <<origin, conn, status, final, voting>>

\* The list of labels is replaced as a whole.
Replace(h) ==
    /\ Busy(h, "replace")
    /\ \/ Write(h, [item EXCEPT !.labels = req[h].kept, !.estimates = {req[h].card}])
       \/ Missing(h)
    /\ UNCHANGED <<origin, conn, status, final, voting>>

\* The room records the estimate, whatever has become of the topic meanwhile.
Store(h) ==
    /\ Busy(h, "store")
    /\ status # "gone"
    /\ status' = "estimated"
    /\ final' = req[h].card
    /\ Finish(h)
    /\ UNCHANGED <<origin, item, conn, voting>>

\* Anything else that stops a request: a call that fails or whose answer is
\* lost, credentials that expired or may not write, a topic that was deleted.
Fail(h) ==
    /\ ~Busy(h, "idle")
    /\ Finish(h)
    /\ UNCHANGED <<origin, item, conn, status, final, voting>>

-----------------------------------------------------------------------------
\* Others in the room

Connect(k) ==
    /\ conn' = k
    /\ UNCHANGED <<origin, item, status, final, voting, req>>

\* A reveal may have read the topic before it was estimated.
Reveal ==
    /\ status # "gone"
    /\ status' = "revealed"
    /\ UNCHANGED <<origin, item, conn, final, voting, req>>

\* CastVote, to its read of the topic: only a vote that finds it pending is going
\* to write the status.
StartVote(v) ==
    /\ v \notin voting
    /\ status = "pending"
    /\ voting' = voting \cup {v}
    /\ UNCHANGED <<origin, item, conn, status, final, req>>

\* The topic has been turned face down under the request r.
TurnedFor(r) == [r EXCEPT !.turned = TRUE, !.votes = {}]

\* The end of CastVote: the topic is voting, whatever has become of it meanwhile.
MarkVoting(v) ==
    /\ v \in voting
    /\ voting' = voting \ {v}
    /\ status' = IF status = "gone" THEN "gone" ELSE "voting"
    /\ req' = [h \in Handlers |->
                  IF v \in req[h].votes THEN TurnedFor(req[h]) ELSE req[h]]
    /\ UNCHANGED <<origin, item, conn, final>>

\* A vote whose insert fails.
FailVote(v) ==
    /\ v \in voting
    /\ voting' = voting \ {v}
    /\ req' = [h \in Handlers |-> [req[h] EXCEPT !.votes = @ \ {v}]]
    /\ UNCHANGED <<origin, item, conn, status, final>>

ResetTopic ==
    /\ status # "gone"
    /\ status' = "pending"
    /\ final' = NoCard
    /\ req' = [h \in Handlers |->
                  IF Busy(h, "idle") THEN Idle ELSE TurnedFor(req[h])]
    /\ UNCHANGED <<origin, item, conn, voting>>

DeleteTopic ==
    /\ status # "gone"
    /\ status' = "gone"
    /\ final' = NoCard
    /\ UNCHANGED <<origin, item, conn, voting, req>>

\* People in the tracker
Change(new) ==
    /\ item.there
    /\ item' = new
    /\ req' = [g \in Handlers |-> Crossed(g, new)]
    /\ UNCHANGED <<origin, conn, status, final, voting>>

DeleteItem == Change([item EXCEPT !.there = FALSE])
Resize(f, v) == Change([item EXCEPT !.size[f] = v])
Relabel(L) == origin.kind = "github" /\ Change([item EXCEPT !.labels = L])
Reestimate(E) == origin.kind = "github" /\ Change([item EXCEPT !.estimates = E])

Next ==
    \/ \E h \in Handlers :
         \/ \E c \in Deck : PushEstimate(h, c) \/ FinalizeTopic(h, c)
         \/ Access(h)
         \/ Look(h) \/ Put(h) \/ Patch(h) \/ Read(h) \/ Replace(h)
         \/ Store(h) \/ Fail(h)
    \/ \E k \in Kinds \cup {"none"} : Connect(k)
    \/ \E v \in Voters : StartVote(v) \/ MarkVoting(v) \/ FailVote(v)
    \/ Reveal \/ ResetTopic \/ DeleteTopic
    \/ DeleteItem
    \/ \E f \in origin.screen, v \in Numbers \cup {NoCard} : Resize(f, v)
    \/ \E L \in SUBSET Labels : Relabel(L)
    \/ \E E \in SUBSET Estimates : Reestimate(E)

Spec == Init /\ [][Next]_vars

-----------------------------------------------------------------------------
\* Properties

\* What is in the tracker is what it can hold: only numbers in size fields, only
\* estimates in estimate labels, and no size field the item does not have
\* (azure.go, jira.go and github.go, SetEstimate).
TypeOK ==
    /\ origin \in Origin
    /\ item \in Item
    /\ conn \in Kinds \cup {"none"}
    /\ status \in FaceUp \cup {"pending", "voting", "gone"}
    /\ final \in Estimates \cup {NoCard}
    /\ voting \in SUBSET Voters
    /\ req \in [Handlers -> Request]

\* The tracker shows c as the estimate, and on GitHub no other.
Shows(c) ==
    IF origin.kind = "github" THEN item.estimates = {c}
    ELSE \E f \in origin.screen : item.size[f] = c

\* When PushEstimate records a card in the room, the tracker shows it, unless
\* somebody changed the item after it was written (service/source.go:296-299).
SentIsThere ==
    [][\A h \in Handlers :
          Store(h) /\ req[h].pushed /\ ~req[h].crossed => Shows(final')]_vars

\* Sending an estimate to GitHub takes no label off the issue but the earlier
\* estimates, and puts none back, unless somebody changed the issue between the
\* read and the write (github.go, SetEstimate).
LabelsKept ==
    [][\A h \in Handlers :
          Replace(h) /\ ~req[h].crossed => item'.labels = item.labels]_vars

\* PushEstimate and FinalizeTopic look once whether the cards are up.  An estimate
\* lands on a topic lying face down only if the topic was reset meanwhile, or a
\* vote that had begun before the look wrote its status after it
\* (service/service.go:700-701); votes that come later cannot do that.
StoredFaceUp ==
    [][\A h \in Handlers :
          Store(h) /\ status \notin FaceUp => req[h].turned]_vars
=============================================================================
