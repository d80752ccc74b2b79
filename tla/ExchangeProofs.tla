--------------------------- MODULE ExchangeProofs ---------------------------
(***************************************************************************)
(* Proofs about Exchange, for any number of requests, any deck and any      *)
(* fields: the types, and what is promised about sending an estimate back.  *)
(***************************************************************************)
EXTENDS Exchange, TLAPS

\* A request that calls the tracker of the item carries a card it takes.
Suited(r) ==
    /\ r.pc # "idle" => r.card \in Estimates
    /\ r.pc \in {"look", "put", "patch"} => origin.kind # "github" /\ r.card \in Numbers
    /\ r.pc \in {"read", "replace"} => origin.kind = "github"

\* What a request has written is there, and what it has read still holds, unless
\* it has been crossed.
Holds(r) ==
    /\ r.pc = "store" /\ r.pushed /\ ~r.crossed => Shows(r.card)
    /\ r.pc = "replace" /\ ~r.crossed => r.kept = item.labels

\* The cards are up since the request found them so, unless they were turned face
\* down under it; and only the votes under way since before then can still do that.
Judged(r) ==
    r.pc # "idle" /\ ~r.turned =>
        status \in FaceUp \cup {"gone"} /\ voting \subseteq r.votes

Inv ==
    /\ TypeOK
    /\ \A h \in Handlers : Suited(req[h]) /\ Holds(req[h]) /\ Judged(req[h])

LEMMA InitInv == ASSUME Init PROVE Inv
<1> USE ExchangeAssumption
<1>1. origin \in Origin /\ 1 \in Names
  BY DEF Init, Names
<1>2. item \in Item
  BY DEF Init, Item
<1>3. TypeOK
  BY <1>1, <1>2 DEF Init, TypeOK, Request, Idle, Kinds
<1>4. \A h \in Handlers : Suited(req[h]) /\ Holds(req[h]) /\ Judged(req[h])
  BY DEF Init, Idle, Suited, Holds, Judged
<1> QED
  BY <1>3, <1>4 DEF Inv

\* An idle request promises nothing.
LEMMA IdleHolds == Suited(Idle) /\ Holds(Idle) /\ Judged(Idle) /\ Idle \in Request
BY ExchangeAssumption DEF Idle, Suited, Holds, Judged, Request, Names

\* Steps of a request that change neither the item nor the topic: only what they
\* make of the request itself is to be shown.
LEMMA QuietStep ==
    ASSUME Inv, NEW h \in Handlers, NEW r \in Request,
           req' = [req EXCEPT ![h] = r],
           UNCHANGED <<origin, item, status, final, voting>>,
           conn' \in Kinds \cup {"none"},
           Suited(r), Holds(r), Judged(r)
    PROVE  Inv'
<1>1. TypeOK'
  BY DEF Inv, TypeOK, Item
<1>2. ASSUME NEW g \in Handlers
      PROVE  (Suited(req[g]) /\ Holds(req[g]) /\ Judged(req[g]))'
  <2>1. req'[g] = IF g = h THEN r ELSE req[g]
    BY DEF Inv, TypeOK
  <2> QED
    BY <2>1 DEF Inv, Suited, Holds, Judged, Shows
<1> QED
  BY <1>1, <1>2 DEF Inv

LEMMA FinishStep ==
    ASSUME Inv, NEW h \in Handlers, Finish(h),
           UNCHANGED <<origin, item, conn, status, final, voting>>
    PROVE  Inv'
BY QuietStep, IdleHolds DEF Finish, Inv, TypeOK

LEMMA BeginStep ==
    ASSUME Inv, NEW h \in Handlers, NEW c \in Deck,
           PushEstimate(h, c) \/ FinalizeTopic(h, c)
    PROVE  Inv'
<1> DEFINE r == [[Idle EXCEPT !.pc = "access", !.card = c, !.pushed = TRUE]
                    EXCEPT !.votes = voting]
           s == [[Idle EXCEPT !.pc = "store", !.card = c] EXCEPT !.votes = voting]
<1>1. /\ Accepts(c)
      /\ req' = [req EXCEPT ![h] = r] \/ req' = [req EXCEPT ![h] = s]
      /\ UNCHANGED <<origin, item, conn, status, final, voting>>
  BY DEF PushEstimate, FinalizeTopic, Begin
<1>2. /\ r \in Request /\ r.pc = "access" /\ r.card = c /\ r.votes = voting
      /\ s \in Request /\ s.pc = "store" /\ s.card = c /\ ~s.pushed /\ s.votes = voting
  <2>1. c \in Estimates /\ Idle \in Request /\ voting \in SUBSET Voters
    BY <1>1, IdleHolds DEF Accepts, Inv, TypeOK
  <2>2. /\ r.pc = "access" /\ r.card = c /\ r.votes = voting
        /\ s.pc = "store" /\ s.card = c /\ ~s.pushed /\ s.votes = voting
    BY DEF Idle
  <2>3. r \in Request
    BY <2>1 DEF Request
  <2>4. s \in Request
    BY <2>1 DEF Request
  <2> QED
    BY <2>2, <2>3, <2>4
<1> HIDE DEF r, s
<1>3. Suited(r) /\ Holds(r) /\ Judged(r) /\ Suited(s) /\ Holds(s) /\ Judged(s)
  BY <1>1, <1>2 DEF Suited, Holds, Judged, Accepts
<1>4. conn' \in Kinds \cup {"none"}
  BY <1>1 DEF Inv, TypeOK
<1> QED
  BY <1>1, <1>2, <1>3, <1>4, QuietStep

LEMMA AccessStep == ASSUME Inv, NEW h \in Handlers, Access(h) PROVE Inv'
<1>1. CASE Finish(h)
  BY <1>1, FinishStep DEF Access
<1>2. CASE /\ Takes(conn, req[h].card)
           /\ req' = [req EXCEPT ![h].pc = FirstCall(conn)]
  <2> DEFINE r == [req[h] EXCEPT !.pc = FirstCall(conn)]
  <2>1. req[h] \in Request /\ req[h].pc = "access"
    BY DEF Inv, TypeOK, Access, Busy
  <2>2. /\ r \in Request
        /\ r.pc = FirstCall(conn)
        /\ r.card = req[h].card /\ r.turned = req[h].turned
        /\ r.votes = req[h].votes
    BY <2>1 DEF Request, FirstCall
  <2>3. FirstCall(conn) \in {"look", "patch", "read"}
    BY DEF FirstCall
  <2>4. Suited(r)
    <3>1. conn \in Kinds /\ conn = origin.kind /\ (conn # "github" => r.card \in Numbers)
      BY <1>2, <2>2 DEF Takes, Inv, TypeOK, Origin
    <3>2. r.card \in Estimates
      BY <2>1, <2>2 DEF Inv, Suited
    <3> QED
      BY <2>2, <3>1, <3>2 DEF Suited, FirstCall, Kinds
  <2>5. Holds(r) /\ Judged(r)
    BY <2>1, <2>2, <2>3 DEF Holds, Judged, Inv
  <2> QED
    BY <1>2, <2>2, <2>4, <2>5, QuietStep DEF Access, Inv, TypeOK
<1> QED
  BY <1>1, <1>2 DEF Access

LEMMA LookStep == ASSUME Inv, NEW h \in Handlers, Look(h) PROVE Inv'
<1>1. CASE Finish(h)
  BY <1>1, FinishStep DEF Look
<1>2. CASE \E f \in Names : req' = [req EXCEPT ![h].pc = "put", ![h].field = f]
  <2>1. PICK f \in Names : req' = [req EXCEPT ![h].pc = "put", ![h].field = f]
    BY <1>2
  <2> DEFINE r == [req[h] EXCEPT !.pc = "put", !.field = f]
  <2>2. req[h] \in Request /\ req[h].pc = "look"
    BY DEF Inv, TypeOK, Look, Busy
  <2>3. /\ r \in Request /\ r.pc = "put"
        /\ r.card = req[h].card /\ r.turned = req[h].turned
        /\ r.votes = req[h].votes
    BY <2>2 DEF Request
  <2>4. Suited(r) /\ Holds(r) /\ Judged(r)
    BY <2>2, <2>3 DEF Suited, Holds, Judged, Inv
  <2> QED
    BY <2>1, <2>3, <2>4, QuietStep DEF Look, Inv, TypeOK
<1> QED
  BY <1>1, <1>2 DEF Look

LEMMA ReadStep == ASSUME Inv, NEW h \in Handlers, Read(h) PROVE Inv'
<1>1. CASE Finish(h)
  BY <1>1, FinishStep DEF Read, Missing
<1>2. CASE req' = [req EXCEPT ![h].pc = "replace", ![h].kept = item.labels]
  <2> DEFINE r == [req[h] EXCEPT !.pc = "replace", !.kept = item.labels]
  <2>1. req[h] \in Request /\ req[h].pc = "read" /\ item.labels \subseteq Labels
    BY DEF Inv, TypeOK, Read, Busy, Item
  <2>2. /\ r \in Request /\ r.pc = "replace" /\ r.kept = item.labels
        /\ r.card = req[h].card /\ r.turned = req[h].turned
        /\ r.votes = req[h].votes
    BY <2>1 DEF Request
  <2>3. Suited(r) /\ Holds(r) /\ Judged(r)
    BY <2>1, <2>2 DEF Suited, Holds, Judged, Inv
  <2> QED
    BY <1>2, <2>2, <2>3, QuietStep DEF Read, Missing, Inv, TypeOK
<1> QED
  BY <1>1, <1>2 DEF Read, Missing

LEMMA FailStep == ASSUME Inv, NEW h \in Handlers, Fail(h) PROVE Inv'
BY FinishStep DEF Fail

\* Writing to the item crosses every request that relies on what it was.
LEMMA WriteStep ==
    ASSUME Inv, NEW h \in Handlers, NEW new \in Item, Write(h, new),
           NEW c, c = req[h].card, req[h].pc # "idle",
           UNCHANGED <<origin, conn, status, final, voting>>,
           Shows(c)'
    PROVE  Inv'
<1> DEFINE own == [req[h] EXCEPT !.pc = "store", !.crossed = FALSE]
           met(g) == [req[g] EXCEPT !.crossed = TRUE]
<1>1. \A g \in Handlers : req[g] \in Request
  BY DEF Inv, TypeOK
<1>2. ASSUME NEW g \in Handlers
      PROVE  \/ g = h /\ req'[g] = own
             \/ g # h /\ req'[g] = req[g] /\ (new = item \/ req[g].pc \notin {"replace", "store"})
             \/ g # h /\ req'[g] = met(g)
  BY DEF Write, Crossed
<1>3. \A g \in Handlers : /\ met(g) \in Request /\ met(g).crossed
                          /\ met(g).pc = req[g].pc /\ met(g).card = req[g].card
                          /\ met(g).turned = req[g].turned
                          /\ met(g).votes = req[g].votes
  BY <1>1 DEF Request
<1>4. /\ own \in Request /\ own.pc = "store" /\ own.card = req[h].card
      /\ own.turned = req[h].turned /\ own.votes = req[h].votes
  BY <1>1 DEF Request
<1>5. req' \in [Handlers -> Request]
  <2>1. req' = [g \in Handlers |-> req'[g]]
    BY DEF Write, Crossed
  <2>2. \A g \in Handlers : req'[g] \in Request
    BY <1>1, <1>2, <1>3, <1>4
  <2> QED
    BY <2>1, <2>2
<1>6. TypeOK'
  <2>1. item' \in Item'
    BY DEF Write, Item
  <2> QED
    BY <1>5, <2>1 DEF Inv, TypeOK
<1>7. ASSUME NEW g \in Handlers
      PROVE  (Suited(req[g]) /\ Holds(req[g]) /\ Judged(req[g]))'
  <2>1. Suited(req[g]) /\ Holds(req[g]) /\ Judged(req[g])
    BY DEF Inv
  <2>2. CASE g = h /\ req'[g] = own
    <3>1. Suited(req[g])'
      BY <1>4, <2>1, <2>2 DEF Suited
    <3>2. Holds(req[g])'
      BY <1>4, <2>2 DEF Holds, Shows
    <3>3. Judged(req[g])'
      BY <1>4, <2>1, <2>2 DEF Judged
    <3> QED
      BY <3>1, <3>2, <3>3
  <2>3. CASE /\ req'[g] = req[g]
             /\ new = item \/ req[g].pc \notin {"replace", "store"}
    BY <2>1, <2>3 DEF Write, Suited, Holds, Judged, Shows
  <2>4. CASE req'[g] = met(g)
    BY <1>3, <2>1, <2>4 DEF Suited, Holds, Judged
  <2> QED
    BY <1>2, <2>2, <2>3, <2>4
<1> QED
  BY <1>6, <1>7 DEF Inv

\* A number in a size field of the item.
LEMMA SizedShows ==
    ASSUME Inv, NEW h \in Handlers, req[h].pc \in {"put", "patch"},
           NEW c, c = req[h].card, NEW f, f = req[h].field,
           f \in origin.screen, item' = Sized(h), UNCHANGED origin
    PROVE  Sized(h) \in Item /\ Shows(c)'
<1>1. c \in Numbers /\ origin.kind # "github" /\ item \in Item
  BY DEF Inv, TypeOK, Suited
<1>2. /\ Sized(h) \in Item
      /\ Sized(h).size[f] = c
  BY <1>1 DEF Sized, Item
<1>3. Shows(c)'
  BY <1>1, <1>2 DEF Shows
<1> QED
  BY <1>2, <1>3

LEMMA PutStep == ASSUME Inv, NEW h \in Handlers, Put(h) PROVE Inv'
<1>1. CASE Finish(h) /\ UNCHANGED item
  BY <1>1, FinishStep DEF Put
<1>2. CASE req[h].field \in origin.screen /\ Write(h, Sized(h))
  <2>1. req[h].pc = "put" /\ item' = Sized(h) /\ UNCHANGED <<origin, conn, status, final, voting>>
    BY <1>2 DEF Put, Busy, Write
  <2>2. PICK c : c = req[h].card
    OBVIOUS
  <2>3. PICK f : f = req[h].field
    OBVIOUS
  <2>4. Sized(h) \in Item /\ Shows(c)'
    BY <1>2, <2>1, <2>2, <2>3, SizedShows
  <2> QED
    BY <1>2, <2>1, <2>2, <2>4, WriteStep
<1> QED
  BY <1>1, <1>2 DEF Put, Missing

LEMMA PatchStep == ASSUME Inv, NEW h \in Handlers, Patch(h) PROVE Inv'
<1>1. CASE Finish(h) /\ UNCHANGED item
  BY <1>1, FinishStep DEF Patch
<1>2. CASE req[h].field \in origin.screen /\ Write(h, Sized(h))
  <2>1. req[h].pc = "patch" /\ item' = Sized(h) /\ UNCHANGED <<origin, conn, status, final, voting>>
    BY <1>2 DEF Patch, Busy, Write
  <2>2. PICK c : c = req[h].card
    OBVIOUS
  <2>3. PICK f : f = req[h].field
    OBVIOUS
  <2>4. Sized(h) \in Item /\ Shows(c)'
    BY <1>2, <2>1, <2>2, <2>3, SizedShows
  <2> QED
    BY <1>2, <2>1, <2>2, <2>4, WriteStep
<1>3. CASE /\ req[h].field < LastName
           /\ req' = [req EXCEPT ![h].field = @ + 1]
           /\ UNCHANGED item
  <2> DEFINE r == [req[h] EXCEPT !.field = @ + 1]
  <2>1. req[h] \in Request /\ req[h].pc = "patch"
    BY DEF Inv, TypeOK, Patch, Busy
  <2>2. req[h].field \in Names /\ req[h].field + 1 \in Names
    BY <1>3, <2>1, ExchangeAssumption DEF Request, Names
  <2>3. /\ r \in Request /\ r.pc = "patch"
        /\ r.card = req[h].card /\ r.turned = req[h].turned
        /\ r.votes = req[h].votes
    BY <2>1, <2>2 DEF Request
  <2>4. Suited(r) /\ Holds(r) /\ Judged(r)
    BY <2>1, <2>3 DEF Suited, Holds, Judged, Inv
  <2> QED
    BY <1>3, <2>3, <2>4, QuietStep DEF Patch, Inv, TypeOK
<1> QED
  BY <1>1, <1>2, <1>3 DEF Patch, Missing

LEMMA ReplaceStep == ASSUME Inv, NEW h \in Handlers, Replace(h) PROVE Inv'
<1>1. CASE Finish(h) /\ UNCHANGED item
  BY <1>1, FinishStep DEF Replace
<1> DEFINE new == [item EXCEPT !.labels = req[h].kept, !.estimates = {req[h].card}]
<1>2. CASE Write(h, new)
  <2>1. /\ req[h].pc = "replace" /\ req[h] \in Request /\ item \in Item
        /\ req[h].card \in Estimates /\ origin.kind = "github"
        /\ UNCHANGED <<origin, conn, status, final, voting>>
    BY DEF Replace, Busy, Inv, TypeOK, Suited
  <2>2. new \in Item /\ new.estimates = {req[h].card}
    BY <2>1 DEF Item, Request
  <2>3. PICK c : c = req[h].card
    OBVIOUS
  <2>4. Shows(c)'
    BY <1>2, <2>1, <2>2, <2>3 DEF Shows, Write
  <2> QED
    BY <1>2, <2>1, <2>2, <2>3, <2>4, WriteStep
<1> QED
  BY <1>1, <1>2 DEF Replace, Missing

LEMMA StoreStep == ASSUME Inv, NEW h \in Handlers, Store(h) PROVE Inv'
<1>1. /\ req' = [req EXCEPT ![h] = Idle] /\ status' = "estimated"
      /\ final' = req[h].card /\ UNCHANGED <<origin, item, conn, voting>>
  BY DEF Store, Finish
<1>2. req[h].card \in Estimates
  BY DEF Store, Busy, Inv, Suited
<1>3. TypeOK'
  BY <1>1, <1>2, IdleHolds DEF Inv, TypeOK, Item, FaceUp
<1>4. ASSUME NEW g \in Handlers
      PROVE  (Suited(req[g]) /\ Holds(req[g]) /\ Judged(req[g]))'
  <2>1. req'[g] = IF g = h THEN Idle ELSE req[g]
    BY <1>1 DEF Inv, TypeOK
  <2> QED
    BY <1>1, <2>1 DEF Inv, Idle, Suited, Holds, Judged, Shows, FaceUp
<1> QED
  BY <1>3, <1>4 DEF Inv

LEMMA RoomStep ==
    ASSUME Inv,
           (\E k \in Kinds \cup {"none"} : Connect(k)) \/ Reveal \/ DeleteTopic
    PROVE  Inv'
<1>1. TypeOK'
  BY DEF Inv, TypeOK, Item, Connect, Reveal, DeleteTopic, FaceUp
<1>2. ASSUME NEW h \in Handlers
      PROVE  (Suited(req[h]) /\ Holds(req[h]) /\ Judged(req[h]))'
  BY DEF Inv, Connect, Reveal, DeleteTopic, Suited, Holds, Judged, Shows, FaceUp
<1> QED
  BY <1>1, <1>2 DEF Inv

\* What the room does to a request leaves what it sends and has read alone.
Same(r, q) ==
    /\ r.pc = q.pc /\ r.card = q.card /\ r.kept = q.kept
    /\ r.pushed = q.pushed /\ r.crossed = q.crossed

LEMMA RoomMove ==
    ASSUME Inv, req' = [h \in Handlers |-> req'[h]],
           \A h \in Handlers : /\ req'[h] \in Request
                               /\ req'[h] = Idle \/ Same(req'[h], req[h])
                               /\ Judged(req[h])',
           status' \in FaceUp \cup {"pending", "voting", "gone"},
           final' \in Estimates \cup {NoCard}, voting' \in SUBSET Voters,
           UNCHANGED <<origin, item, conn>>
    PROVE  Inv'
<1>1. TypeOK'
  BY DEF Inv, TypeOK, Item
<1>2. ASSUME NEW h \in Handlers
      PROVE  (Suited(req[h]) /\ Holds(req[h]))'
  <2>1. CASE req'[h] = Idle
    BY <2>1, IdleHolds DEF Idle, Suited, Holds
  <2>2. CASE Same(req'[h], req[h])
    BY <2>2 DEF Inv, Same, Suited, Holds, Shows
  <2> QED
    BY <2>1, <2>2
<1> QED
  BY <1>1, <1>2 DEF Inv

LEMMA TurnedType ==
    ASSUME NEW r \in Request
    PROVE  TurnedFor(r) \in Request /\ TurnedFor(r).turned /\ Same(TurnedFor(r), r)
BY DEF TurnedFor, Request, Same

LEMMA ResetStep == ASSUME Inv, ResetTopic PROVE Inv'
<1>1. ASSUME NEW h \in Handlers
      PROVE  /\ req'[h] \in Request
             /\ req'[h] = Idle \/ Same(req'[h], req[h])
             /\ Judged(req[h])'
  <2>1. req[h] \in Request
    BY DEF Inv, TypeOK
  <2>2. req'[h] = Idle \/ req'[h] = TurnedFor(req[h])
    BY Zenon DEF ResetTopic
  <2>3. CASE req'[h] = Idle
    BY <2>3, IdleHolds DEF Idle, Judged
  <2>4. CASE req'[h] = TurnedFor(req[h])
    BY <2>1, <2>4, TurnedType DEF Judged
  <2> QED
    BY <2>2, <2>3, <2>4
<1>2. req' = [h \in Handlers |-> req'[h]]
  BY DEF ResetTopic
<1> QED
  BY <1>1, <1>2, RoomMove DEF ResetTopic, Inv, TypeOK

LEMMA VoteStep ==
    ASSUME Inv, NEW v \in Voters, StartVote(v) \/ MarkVoting(v) \/ FailVote(v)
    PROVE  Inv'
<1>1. CASE StartVote(v)
  <2>1. ASSUME NEW h \in Handlers
        PROVE  /\ req'[h] \in Request
               /\ Same(req'[h], req[h])
               /\ Judged(req[h])'
    BY <1>1 DEF StartVote, Inv, TypeOK, Same, Judged, FaceUp
  <2>2. req' = [h \in Handlers |-> req'[h]]
    BY <1>1 DEF StartVote, Inv, TypeOK
  <2> QED
    BY <1>1, <2>1, <2>2, RoomMove DEF StartVote, Inv, TypeOK
<1>2. CASE MarkVoting(v)
  <2>1. ASSUME NEW h \in Handlers
        PROVE  /\ req'[h] \in Request
               /\ Same(req'[h], req[h])
               /\ Judged(req[h])'
    <3>1. req[h] \in Request /\ Judged(req[h])
      BY DEF Inv, TypeOK
    <3>2. \/ v \in req[h].votes /\ req'[h] = TurnedFor(req[h])
          \/ v \notin req[h].votes /\ req'[h] = req[h]
      BY <1>2, Zenon DEF MarkVoting
    <3>3. CASE req'[h] = TurnedFor(req[h])
      BY <3>1, <3>3, TurnedType DEF Judged
    <3>4. CASE v \notin req[h].votes /\ req'[h] = req[h]
      <4>1. req[h].pc = "idle" \/ req[h].turned
        BY <1>2, <3>1, <3>4 DEF Judged, MarkVoting
      <4> QED
        BY <3>1, <3>4, <4>1 DEF Same, Judged
    <3> QED
      BY <3>2, <3>3, <3>4
  <2>2. req' = [h \in Handlers |-> req'[h]]
    BY <1>2 DEF MarkVoting
  <2>3. status' \in FaceUp \cup {"pending", "voting", "gone"}
    BY <1>2 DEF MarkVoting
  <2> QED
    BY <1>2, <2>1, <2>2, <2>3, RoomMove DEF MarkVoting, Inv, TypeOK
<1>3. CASE FailVote(v)
  <2>1. ASSUME NEW h \in Handlers
        PROVE  /\ req'[h] \in Request
               /\ Same(req'[h], req[h])
               /\ Judged(req[h])'
    <3> DEFINE r == [req[h] EXCEPT !.votes = @ \ {v}]
    <3>1. req[h] \in Request /\ Judged(req[h]) /\ req'[h] = r
      BY <1>3 DEF FailVote, Inv, TypeOK
    <3>2. /\ r \in Request /\ Same(r, req[h]) /\ r.turned = req[h].turned
          /\ r.votes = req[h].votes \ {v} /\ r.pc = req[h].pc
      BY <3>1 DEF Request, Same
    <3> HIDE DEF r
    <3>3. Judged(req[h])'
      BY <1>3, <3>1, <3>2 DEF Judged, FailVote
    <3> QED
      BY <3>1, <3>2, <3>3
  <2>2. req' = [h \in Handlers |-> req'[h]]
    BY <1>3 DEF FailVote
  <2> QED
    BY <1>3, <2>1, <2>2, RoomMove DEF FailVote, Inv, TypeOK
<1> QED
  BY <1>1, <1>2, <1>3

\* People changing the item cross requests in the same way.
LEMMA ChangeStep ==
    ASSUME Inv, NEW new \in Item, Change(new)
    PROVE  Inv'
<1>1. ASSUME NEW h \in Handlers
      PROVE  /\ req'[h] \in Request
             /\ (Suited(req[h]) /\ Holds(req[h]) /\ Judged(req[h]))'
  <2>1. req[h] \in Request
    BY DEF Inv, TypeOK
  <2> DEFINE r == [req[h] EXCEPT !.crossed = TRUE]
  <2>2. CASE req'[h] = r
    <3>1. /\ r \in Request /\ r.crossed /\ r.pc = req[h].pc /\ r.card = req[h].card
          /\ r.turned = req[h].turned /\ r.votes = req[h].votes
      BY <2>1 DEF Request
    <3> HIDE DEF r
    <3>2. Suited(req[h]) /\ Judged(req[h]) /\ UNCHANGED <<origin, status, voting>>
      BY DEF Inv, Change
    <3> QED
      BY <2>2, <3>1, <3>2 DEF Suited, Holds, Judged
  <2>3. CASE /\ req'[h] = req[h]
             /\ new = item \/ req[h].pc \notin {"replace", "store"}
    BY <2>1, <2>3 DEF Change, Inv, Suited, Holds, Judged, Shows
  <2>4. req'[h] = Crossed(h, new)
    BY DEF Change
  <2>5. req'[h] = r \/ (req'[h] = req[h] /\ (new = item \/ req[h].pc \notin {"replace", "store"}))
    BY <2>4, Zenon DEF Crossed
  <2> QED
    BY <2>2, <2>3, <2>5
<1>2. TypeOK'
  <2>1. item' \in Item'
    BY DEF Item, Change
  <2>2. req' = [h \in Handlers |-> req'[h]]
    BY DEF Change
  <2> QED
    BY <1>1, <2>1, <2>2 DEF Change, Inv, TypeOK
<1> QED
  BY <1>1, <1>2 DEF Inv

LEMMA EditStep ==
    ASSUME Inv,
           \/ DeleteItem
           \/ \E f \in origin.screen, v \in Numbers \cup {NoCard} : Resize(f, v)
           \/ \E L \in SUBSET Labels : Relabel(L)
           \/ \E E \in SUBSET Estimates : Reestimate(E)
    PROVE  Inv'
<1>1. item \in Item
  BY DEF Inv, TypeOK
<1>2. CASE DeleteItem
  <2>1. [item EXCEPT !.there = FALSE] \in Item
    BY <1>1 DEF Item
  <2> QED
    BY <1>2, <2>1, ChangeStep DEF DeleteItem
<1>3. ASSUME NEW f \in origin.screen, NEW v \in Numbers \cup {NoCard}, Resize(f, v)
      PROVE  Inv'
  <2>1. [item EXCEPT !.size[f] = v] \in Item
    BY <1>1 DEF Item
  <2> QED
    BY <1>3, <2>1, ChangeStep DEF Resize
<1>4. ASSUME NEW L \in SUBSET Labels, Relabel(L)
      PROVE  Inv'
  <2>1. [item EXCEPT !.labels = L] \in Item
    BY <1>1 DEF Item
  <2> QED
    BY <1>4, <2>1, ChangeStep DEF Relabel
<1>5. ASSUME NEW E \in SUBSET Estimates, Reestimate(E)
      PROVE  Inv'
  <2>1. [item EXCEPT !.estimates = E] \in Item
    BY <1>1 DEF Item
  <2> QED
    BY <1>5, <2>1, ChangeStep DEF Reestimate
<1> QED
  BY <1>2, <1>3, <1>4, <1>5

LEMMA NextInv == ASSUME Inv, [Next]_vars PROVE Inv'
<1>1. CASE UNCHANGED vars
  BY <1>1 DEF vars, Inv, TypeOK, Item, Suited, Holds, Judged, Shows
<1>2. CASE Next
  <2>1. ASSUME NEW h \in Handlers, NEW c \in Deck,
               PushEstimate(h, c) \/ FinalizeTopic(h, c)
        PROVE  Inv'
    BY <2>1, BeginStep
  <2>2. ASSUME NEW h \in Handlers,
               Access(h) \/ Look(h) \/ Put(h) \/ Patch(h) \/ Read(h)
        PROVE  Inv'
    BY <2>2, AccessStep, LookStep, PutStep, PatchStep, ReadStep
  <2>3. ASSUME NEW h \in Handlers, Replace(h) \/ Store(h) \/ Fail(h) PROVE Inv'
    BY <2>3, ReplaceStep, StoreStep, FailStep
  <2> QED
    BY <1>2, <2>1, <2>2, <2>3, RoomStep, ResetStep, VoteStep, EditStep DEF Next
<1> QED
  BY <1>1, <1>2

LEMMA InvHolds == Spec => []Inv
<1>1. Init => Inv
  BY InitInv
<1>2. Inv /\ [Next]_vars => Inv'
  BY NextInv
<1> QED
  BY <1>1, <1>2, PTL DEF Spec

-----------------------------------------------------------------------------
\* Size fields only hold numbers and estimate labels only estimates
\* (SetEstimate of the three trackers), whatever the requests do.
THEOREM TypeCorrect == Spec => []TypeOK
<1>1. Inv => TypeOK
  BY DEF Inv
<1> QED
  BY <1>1, InvHolds, PTL

\* When a push records a card, the tracker shows it unless it was changed since
\* (PushEstimate).
THEOREM SentIsAlwaysThere == Spec => SentIsThere
<1>1. ASSUME Inv, NEW h \in Handlers, Store(h), req[h].pushed, ~req[h].crossed
      PROVE  Shows(final')
  BY <1>1 DEF Inv, Holds, Store, Busy
<1>2. Inv /\ [Next]_vars =>
        [\A h \in Handlers :
            Store(h) /\ req[h].pushed /\ ~req[h].crossed => Shows(final')]_vars
  BY <1>1
<1> QED
  BY <1>2, InvHolds, PTL DEF Spec, SentIsThere

\* Replacing the labels of an issue nobody touched takes only estimates off
\* (github.go, SetEstimate).
THEOREM LabelsAlwaysKept == Spec => LabelsKept
<1>1. ASSUME Inv, NEW h \in Handlers, Replace(h), ~req[h].crossed
      PROVE  item'.labels = item.labels
  <2>1. item \in Item /\ req[h].kept = item.labels
    BY <1>1 DEF Inv, TypeOK, Holds, Replace, Busy
  <2> QED
    BY <1>1, <2>1 DEF Replace, Write, Missing, Item
<1>2. Inv /\ [Next]_vars =>
        [\A h \in Handlers :
            Replace(h) /\ ~req[h].crossed => item'.labels = item.labels]_vars
  BY <1>1
<1> QED
  BY <1>2, InvHolds, PTL DEF Spec, LabelsKept

\* An estimate lands on a topic lying face down only if, during the request, it was
\* reset or a vote that had begun before wrote its status (PushEstimate,
\* FinalizeTopic and the end of CastVote).
THEOREM EstimatesAlwaysJudged == Spec => StoredFaceUp
<1>1. ASSUME Inv, NEW h \in Handlers, Store(h), status \notin FaceUp
      PROVE  req[h].turned
  BY <1>1 DEF Inv, Judged, Store, Busy
<1>2. Inv /\ [Next]_vars =>
        [\A h \in Handlers :
            Store(h) /\ status \notin FaceUp => req[h].turned]_vars
  BY <1>1
<1> QED
  BY <1>2, InvHolds, PTL DEF Spec, StoredFaceUp
=============================================================================
