------------------------------ MODULE Backlog -------------------------------
(***************************************************************************)
(* The backlog of one room: topics typed in, imported from a tracker,       *)
(* reordered and deleted.                                                   *)
(*                                                                          *)
(* A request counts the topics, asks for the next position and the keys     *)
(* there are, and then inserts topic by topic on the strength of what it    *)
(* has read; several requests do so at the same time.                       *)
(***************************************************************************)
EXTENDS Naturals, Sequences, FiniteSets

CONSTANTS
    Ids,        \* topic ids; given out again only when nothing refers to them
    None,       \* no topic
    Keys,       \* tracker keys
    NoKey,      \* a topic typed in by hand (external_key IS NULL)
    Listings,   \* what the tracker may list: sequences of keys
    Handlers,   \* goroutines serving requests
    MaxTopics,  \* MaxTopicsPerRoom
    MaxTyped,   \* bound: topics typed in by one request
    LastPlace   \* bound: the highest position that is read

ASSUME BacklogAssumption ==
    /\ None \notin Ids
    /\ NoKey \notin Keys
    /\ IsFiniteSet(Ids)
    /\ IsFiniteSet(Handlers) /\ Handlers # {}
    /\ Listings \subseteq Seq(Keys)
    /\ MaxTopics \in Nat
    /\ MaxTyped \in Nat
    /\ LastPlace \in Nat

VARIABLES
    live,       \* the rows of topics
    key,        \* external_key
    place,      \* position
    current,    \* rooms.current_topic_id, of a synchronous room
    req         \* the requests in flight

vars == <<live, key, place, current, req>>

\* A request that inserts topics.  The last four are histories: the keys it is to
\* import, the topics it found and those that others have inserted since, each
\* without what has been deleted meanwhile, and whether the order was changed.
Adding == [pc : {"insert"},
           todo : Seq(Keys \cup {NoKey}),  \* items still to look at
           wanted : SUBSET Keys,           \* the keys the host selected
           taken : SUBSET Keys,            \* keys known to be in the backlog
           size : Nat,                     \* len(current) + len(created)
           pos : Nat,                      \* the next position
           unset : BOOLEAN,                \* the session read no current topic
           first : Ids \cup {None},        \* created[0]
           due : SUBSET Keys, before : SUBSET Ids, others : SUBSET Ids,
           shuffled : BOOLEAN]
Ordering == [pc : {"reorder"}, order : Seq(Ids)]
Idle == [pc |-> "idle"]
Request == Adding \cup Ordering \cup {Idle}

Inserting == {h \in Handlers : req[h].pc = "insert"}

TypeOK ==
    /\ live \in SUBSET Ids
    /\ key \in [Ids -> Keys \cup {NoKey}]
    /\ place \in [Ids -> Nat]
    /\ current \in Ids \cup {None}
    /\ req \in [Handlers -> Request]

Init ==
    /\ live = {}
    /\ key = [i \in Ids |-> NoKey]
    /\ place = [i \in Ids |-> 0]
    /\ current = None
    /\ req = [h \in Handlers |-> Idle]

-----------------------------------------------------------------------------
\* Adding and importing

TakenKeys == {key[i] : i \in live} \ {NoKey}

\* Faulty variant of NextPlace: counts the topics.
NextPlaceByCount(n) == n = Cardinality(live)

\* NextTopicPosition: one more than the highest, or 0.
NextPlace(n) ==
    /\ \A i \in live : place[i] < n
    /\ n = 0 \/ \E i \in live : place[i] + 1 = n

\* What a request knows when it has read the backlog.  The reads of the topics, of
\* the next position and of the keys are one step: all of them are stale by the
\* time of the first insert in any case.
Looked(n, todo, wanted) ==
    [pc |-> "insert", todo |-> todo, wanted |-> wanted, taken |-> TakenKeys,
     size |-> Cardinality(live), pos |-> n, unset |-> current = None, first |-> None,
     due |-> {k \in wanted : \E i \in DOMAIN todo : todo[i] = k},
     before |-> live, others |-> {}, shuffled |-> FALSE]

AddTopics(h) ==
    /\ req[h].pc = "idle"
    /\ \E m \in 1..MaxTyped, n \in 0..LastPlace :
          /\ Cardinality(live) + m <= MaxTopics
          /\ NextPlace(n)
          /\ req' = [req EXCEPT ![h] = Looked(n, [i \in 1..m |-> NoKey], {})]
    /\ UNCHANGED <<live, key, place, current>>

\* The host selects keys, and the group is listed again.
ImportSourceItems(h) ==
    /\ req[h].pc = "idle"
    /\ \E items \in Listings, selected \in SUBSET Keys, n \in 0..LastPlace :
          /\ selected # {}
          /\ NextPlace(n)
          /\ req' = [req EXCEPT ![h] = Looked(n, items, selected)]
    /\ UNCHANGED <<live, key, place, current>>

\* Faulty variant of Skips: lets one item too many in.
SkipsOffByOne(r) ==
    LET k == Head(r.todo)
    IN k # NoKey /\ (k \notin r.wanted \/ k \in r.taken \/ r.size > MaxTopics)

\* An item is passed over when it is not selected, its key is in the backlog already
\* or the room is full.
Skips(r) ==
    LET k == Head(r.todo)
    IN k # NoKey /\ (k \notin r.wanted \/ k \in r.taken \/ r.size >= MaxTopics)

\* Faulty variant of Skip: stops at the first item that is skipped.
SkipStops(h) ==
    /\ req[h].pc = "insert" /\ req[h].todo # <<>>
    /\ Skips(req[h])
    /\ req' = [req EXCEPT ![h].todo = <<>>]
    /\ UNCHANGED <<live, key, place, current>>

Skip(h) ==
    /\ req[h].pc = "insert" /\ req[h].todo # <<>>
    /\ Skips(req[h])
    /\ req' = [req EXCEPT ![h].todo = Tail(@)]
    /\ UNCHANGED <<live, key, place, current>>

\* Faulty variant of Clash: no unique index.
ClashNever(k) == k \notin Keys /\ k # NoKey

\* The unique index on (room_id, external_key).
Clash(k) == k \in TakenKeys

\* A uuid that neither a row nor a request in flight knows.
Fresh(i) ==
    /\ i \notin live /\ i # current
    /\ \A h \in Handlers :
          /\ req[h].pc = "insert" => i # req[h].first
          /\ req[h].pc = "reorder" => \A j \in DOMAIN req[h].order : i # req[h].order[j]

\* Faulty variant of Created: does not remember the key.
CreatedForgetsKey(r, i) ==
    [r EXCEPT !.todo = Tail(@), !.size = @ + 1, !.pos = @ + 1,
              !.first = IF @ = None THEN i ELSE @]

\* The request when it has inserted its next item as topic i.
Created(r, i) ==
    [r EXCEPT !.todo = Tail(@), !.size = @ + 1, !.pos = @ + 1,
              !.taken = @ \cup ({Head(r.todo)} \ {NoKey}),
              !.first = IF @ = None THEN i ELSE @]

CreateTopic(h) ==
    /\ req[h].pc = "insert" /\ req[h].todo # <<>>
    /\ ~Skips(req[h])
    /\ ~Clash(Head(req[h].todo))
    /\ \E i \in Ids :
          LET k == Head(req[h].todo)
          IN /\ Fresh(i)
             /\ live' = live \cup {i}
             /\ key' = [key EXCEPT ![i] = k]
             /\ place' = [place EXCEPT ![i] = req[h].pos]
             /\ req' = [g \in Handlers |->
                          IF g = h THEN Created(req[h], i)
                          ELSE IF g \in Inserting THEN [req[g] EXCEPT !.others = @ \cup {i}]
                          ELSE req[g]]
    /\ UNCHANGED current

\* The insert is refused; the request fails and leaves what it has inserted.
Refused(h) ==
    /\ req[h].pc = "insert" /\ req[h].todo # <<>>
    /\ ~Skips(req[h])
    /\ Clash(Head(req[h].todo))
    /\ req' = [req EXCEPT ![h] = Idle]
    /\ UNCHANGED <<live, key, place, current>>

\* A blank title, a failing statement, a timeout, a caller who hangs up.
Abort(h) ==
    /\ req[h].pc # "idle"
    /\ req' = [req EXCEPT ![h] = Idle]
    /\ UNCHANGED <<live, key, place, current>>

\* All are inserted.  A synchronous room with nothing selected starts on the first
\* new topic.
Inserted(h) ==
    /\ req[h].pc = "insert" /\ req[h].todo = <<>>
    /\ current' = IF req[h].unset /\ req[h].first # None THEN req[h].first ELSE current
    /\ req' = [req EXCEPT ![h] = Idle]
    /\ UNCHANGED <<live, key, place>>

-----------------------------------------------------------------------------
\* The other operations

\* ReorderTopics: the new order names each topic of the list once.
ReorderTopics(h) ==
    /\ req[h].pc = "idle"
    /\ \E order \in [1..Cardinality(live) -> live] :
          /\ \A i, j \in DOMAIN order : i # j => order[i] # order[j]
          /\ req' = [req EXCEPT ![h] = [pc |-> "reorder", order |-> order]]
    /\ UNCHANGED <<live, key, place, current>>

\* Faulty variant of WriteOrder: the last topic comes first, below 0.
WriteOrderBelowZero(h) ==
    /\ req[h].pc = "reorder"
    /\ LET order == req[h].order
       IN place' = [i \in Ids |->
              IF i \in live /\ \E n \in DOMAIN order : order[n] = i
              THEN Len(order) - 1 - (CHOOSE n \in DOMAIN order : order[n] = i)
              ELSE place[i]]
    /\ req' = [g \in Handlers |->
                 IF g = h THEN Idle
                 ELSE IF g \in Inserting THEN [req[g] EXCEPT !.shuffled = TRUE]
                 ELSE req[g]]
    /\ UNCHANGED <<live, key, current>>

\* The transaction: positions from 0; a topic that is gone is passed over.
WriteOrder(h) ==
    /\ req[h].pc = "reorder"
    /\ LET order == req[h].order
       IN place' = [i \in Ids |->
              IF i \in live /\ \E n \in DOMAIN order : order[n] = i
              THEN (CHOOSE n \in DOMAIN order : order[n] = i) - 1
              ELSE place[i]]
    /\ req' = [g \in Handlers |->
                 IF g = h THEN Idle
                 ELSE IF g \in Inserting THEN [req[g] EXCEPT !.shuffled = TRUE]
                 ELSE req[g]]
    /\ UNCHANGED <<live, key, current>>

\* DeleteTopic.  A room that showed it shows another topic or none
\* (Rounds has the choice in detail).
DeleteTopic(i) ==
    /\ i \in live
    /\ live' = live \ {i}
    /\ \/ current # i /\ UNCHANGED current
       \/ current = i /\ current' \in (live \ {i}) \cup {None}
    /\ key' = [key EXCEPT ![i] = NoKey]
    /\ place' = [place EXCEPT ![i] = 0]
    /\ req' = [g \in Handlers |->
                 IF g \in Inserting
                 THEN [req[g] EXCEPT !.due = @ \ {key[i]},
                                     !.before = @ \ {i}, !.others = @ \ {i}]
                 ELSE req[g]]

Next ==
    \/ \E h \in Handlers :
          \/ AddTopics(h) \/ ImportSourceItems(h)
          \/ Skip(h) \/ CreateTopic(h) \/ Refused(h) \/ Inserted(h)
          \/ ReorderTopics(h) \/ WriteOrder(h)
          \/ Abort(h)
    \/ \E i \in Ids : DeleteTopic(i)

Spec == Init /\ [][Next]_vars

-----------------------------------------------------------------------------
\* Properties

\* The limit on topics is checked once, or against a count of one's own, before
\* many inserts.  When a request has inserted something, the room is over its limit
\* by no more than others have added while it ran.
LimitHoldsAlone ==
    \A h \in Inserting :
        req[h].first # None => Cardinality(live \ req[h].others) <= MaxTopics

\* Two imports of the same items at the same time do not double them.
KeysOnce == \A i, j \in live : key[i] = key[j] /\ key[i] # NoKey => i = j

\* An import can be run again safely (the comment on ImportSourceItems): it fails on
\* a key that is there already only if another request has inserted that key while
\* it ran, even when the tracker lists an item twice.
ClashesNeedOthers ==
    \A h \in Inserting :
        LET k == Head(req[h].todo)
        IN req[h].todo # <<>> /\ ~Skips(req[h]) /\ Clash(k)
              => \E i \in req[h].others : key[i] = k

\* An import that reports success has everything in the backlog that was selected
\* and is still listed, unless somebody deleted it meanwhile or the room was full.
ImportsComplete ==
    \A h \in Inserting :
        req[h].todo = <<>> /\ req[h].size < MaxTopics
           => req[h].due \subseteq TakenKeys

\* What a request adds next comes after every topic it found, unless the backlog is
\* put in another order while it runs.
NewTopicsLast ==
    \A h \in Inserting :
        ~req[h].shuffled => \A i \in req[h].before : place[i] < req[h].pos
=============================================================================
