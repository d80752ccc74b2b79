--------------------------- MODULE BacklogProofs ----------------------------
(***************************************************************************)
(* For any topics, keys, listings and number of requests and any limit: the *)
(* limit on topics is exceeded only by what others insert, no tracker key   *)
(* is in the backlog twice, an import fails on a clash only when another    *)
(* request has inserted the key, a successful one has left nothing out, and *)
(* new topics come last.                                                    *)
(***************************************************************************)
EXTENDS Backlog, FiniteSetTheorems, TLAPS

\* A request that is inserting has the fields of one.
LEMMA InsertingTyped ==
  ASSUME TypeOK, NEW h \in Handlers, req[h].pc = "insert"
  PROVE  /\ req[h] \in Adding
         /\ req[h].todo \in Seq(Keys \cup {NoKey}) /\ req[h].wanted \in SUBSET Keys
         /\ req[h].taken \in SUBSET Keys /\ req[h].size \in Nat /\ req[h].pos \in Nat
         /\ req[h].first \in Ids \cup {None}
         /\ req[h].due \in SUBSET Keys /\ req[h].before \in SUBSET Ids
         /\ req[h].others \in SUBSET Ids /\ req[h].shuffled \in BOOLEAN
<1>1. req[h] \in Adding
  BY DEF TypeOK, Request, Ordering, Idle
<1> QED BY <1>1 DEF Adding

LEMMA LiveFinite == ASSUME TypeOK PROVE IsFiniteSet(live) /\ Cardinality(live) \in Nat
  BY FS_Subset, FS_CardinalityType, BacklogAssumption DEF TypeOK

\* What is left of a list when its head is taken off.
LEMMA TailOf ==
  ASSUME NEW S, NEW s \in Seq(S), s # <<>>
  PROVE  /\ Head(s) \in S /\ Tail(s) \in Seq(S)
         /\ Len(Tail(s)) = Len(s) - 1 /\ Len(s) \in Nat \ {0}
         /\ \E n \in DOMAIN s : s[n] = Head(s)
         /\ \A n \in DOMAIN Tail(s) : \E m \in DOMAIN s : s[m] = Tail(s)[n]
         /\ \A n \in DOMAIN s : s[n] = Head(s) \/ \E m \in DOMAIN Tail(s) : Tail(s)[m] = s[n]
<1>1. /\ Len(s) \in Nat \ {0} /\ DOMAIN s = 1..Len(s) /\ Head(s) = s[1]
      /\ Len(Tail(s)) = Len(s) - 1 /\ DOMAIN Tail(s) = 1..(Len(s) - 1)
      /\ \A n \in 1..(Len(s) - 1) : Tail(s)[n] = s[n + 1]
  OBVIOUS
<1>2. Head(s) \in S /\ Tail(s) \in Seq(S)
  OBVIOUS
<1>3. \E n \in DOMAIN s : s[n] = Head(s)
  <2>1. 1 \in DOMAIN s /\ s[1] = Head(s)
    BY <1>1
  <2> QED BY <2>1
<1>4. \A n \in DOMAIN Tail(s) : \E m \in DOMAIN s : s[m] = Tail(s)[n]
  <2> TAKE n \in DOMAIN Tail(s)
  <2>1. n + 1 \in DOMAIN s /\ s[n + 1] = Tail(s)[n]
    BY <1>1
  <2> QED BY <2>1
<1>5. \A n \in DOMAIN s : s[n] = Head(s) \/ \E m \in DOMAIN Tail(s) : Tail(s)[m] = s[n]
  <2> TAKE n \in DOMAIN s
  <2>1. CASE n = 1
    BY <2>1, <1>1
  <2>2. CASE n # 1
    <3>1. n - 1 \in DOMAIN Tail(s) /\ Tail(s)[n - 1] = s[n]
      BY <2>2, <1>1
    <3> QED BY <3>1
  <2> QED BY <2>1, <2>2
<1> QED BY <1>1, <1>2, <1>3, <1>4, <1>5

-----------------------------------------------------------------------------
\* Types

LEMMA LookedTyped ==
  ASSUME TypeOK, NEW n \in Nat, NEW todo \in Seq(Keys \cup {NoKey}), NEW wanted \in SUBSET Keys
  PROVE  Looked(n, todo, wanted) \in Adding
<1>1. TakenKeys \in SUBSET Keys
  BY DEF TypeOK, TakenKeys
<1>2. {k \in wanted : \E i \in DOMAIN todo : todo[i] = k} \in SUBSET Keys
  OBVIOUS
<1>3. live \in SUBSET Ids
  BY DEF TypeOK
<1> QED BY <1>1, <1>2, <1>3, LiveFinite DEF Looked, Adding

LEMMA CreatedTyped ==
  ASSUME NEW r \in Adding, r.todo # <<>>, NEW i \in Ids
  PROVE  /\ Created(r, i) \in Adding
         /\ Created(r, i).todo = Tail(r.todo) /\ Created(r, i).wanted = r.wanted
         /\ Created(r, i).taken = r.taken \cup ({Head(r.todo)} \ {NoKey})
         /\ Created(r, i).size = r.size + 1 /\ Created(r, i).pos = r.pos + 1
         /\ Created(r, i).due = r.due /\ Created(r, i).before = r.before
         /\ Created(r, i).others = r.others /\ Created(r, i).shuffled = r.shuffled
<1>1. r.todo \in Seq(Keys \cup {NoKey}) /\ r.size \in Nat /\ r.pos \in Nat /\ r.taken \in SUBSET Keys
  BY DEF Adding
<1>2. Head(r.todo) \in Keys \cup {NoKey} /\ Tail(r.todo) \in Seq(Keys \cup {NoKey})
  BY <1>1, TailOf
<1>3. r.taken \cup ({Head(r.todo)} \ {NoKey}) \in SUBSET Keys
  BY <1>1, <1>2
<1>4. r.size + 1 \in Nat /\ r.pos + 1 \in Nat
  BY <1>1
<1> QED BY <1>2, <1>3, <1>4 DEF Created, Adding

LEMMA InitTypeOK == Init => TypeOK
  BY BacklogAssumption DEF Init, TypeOK, Request

LEMMA StepTypeOK == TypeOK /\ [Next]_vars => TypeOK'
<1> SUFFICES ASSUME TypeOK, [Next]_vars PROVE TypeOK'
  OBVIOUS
<1>1. ASSUME NEW h \in Handlers, AddTopics(h) PROVE TypeOK'
  <2>1. PICK m \in 1..MaxTyped, n \in 0..LastPlace :
           req' = [req EXCEPT ![h] = Looked(n, [i \in 1..m |-> NoKey], {})]
    BY <1>1 DEF AddTopics
  <2>2. n \in Nat /\ m \in Nat
    BY BacklogAssumption
  <2>3. [i \in 1..m |-> NoKey] \in Seq(Keys \cup {NoKey})
    BY <2>2
  <2>4. Looked(n, [i \in 1..m |-> NoKey], {}) \in Request
    BY <2>2, <2>3, LookedTyped DEF Request
  <2> QED BY <1>1, <2>1, <2>4 DEF AddTopics, TypeOK
<1>2. ASSUME NEW h \in Handlers, ImportSourceItems(h) PROVE TypeOK'
  <2>1. PICK items \in Listings, selected \in SUBSET Keys, n \in 0..LastPlace :
           req' = [req EXCEPT ![h] = Looked(n, items, selected)]
    BY <1>2 DEF ImportSourceItems
  <2>2. n \in Nat /\ items \in Seq(Keys)
    BY BacklogAssumption
  <2>3. items \in Seq(Keys \cup {NoKey})
    BY <2>2
  <2>4. Looked(n, items, selected) \in Request
    BY <2>2, <2>3, LookedTyped DEF Request
  <2> QED BY <1>2, <2>1, <2>4 DEF ImportSourceItems, TypeOK
<1>3. ASSUME NEW h \in Handlers, Skip(h) PROVE TypeOK'
  <2>1. req[h] \in Adding /\ Tail(req[h].todo) \in Seq(Keys \cup {NoKey})
    BY <1>3, InsertingTyped, TailOf DEF Skip
  <2>2. [req[h] EXCEPT !.todo = Tail(@)] \in Request
    BY <2>1 DEF Adding, Request
  <2> QED BY <1>3, <2>2 DEF Skip, TypeOK
<1>4. ASSUME NEW h \in Handlers, CreateTopic(h) PROVE TypeOK'
  <2>1. PICK i \in Ids :
           /\ live' = live \cup {i}
           /\ key' = [key EXCEPT ![i] = Head(req[h].todo)]
           /\ place' = [place EXCEPT ![i] = req[h].pos]
           /\ req' = [g \in Handlers |->
                        IF g = h THEN Created(req[h], i)
                        ELSE IF g \in Inserting THEN [req[g] EXCEPT !.others = @ \cup {i}]
                        ELSE req[g]]
    BY <1>4 DEF CreateTopic
  <2>2. req[h] \in Adding /\ Head(req[h].todo) \in Keys \cup {NoKey} /\ req[h].pos \in Nat
    BY <1>4, InsertingTyped, TailOf DEF CreateTopic
  <2>3. ASSUME NEW g \in Handlers PROVE req'[g] \in Request
    <3>1. CASE g = h
      BY <2>1, <2>2, <3>1, <1>4, CreatedTyped DEF Request, CreateTopic
    <3>2. CASE g # h /\ g \in Inserting
      <4>1. req[g] \in Adding /\ req[g].others \in SUBSET Ids
        BY <3>2, InsertingTyped DEF Inserting
      <4>2. req'[g] = [req[g] EXCEPT !.others = @ \cup {i}]
        BY <2>1, <3>2
      <4> QED BY <4>1, <4>2 DEF Adding, Request
    <3>3. CASE g # h /\ g \notin Inserting
      BY <2>1, <3>3 DEF TypeOK
    <3> QED BY <3>1, <3>2, <3>3
  <2>4. req' \in [Handlers -> Request]
    <3>1. req' = [g \in Handlers |-> req'[g]]
      BY <2>1
    <3> QED BY <2>3, <3>1
  <2>5. current' = current
    BY <1>4 DEF CreateTopic
  <2> QED BY <2>1, <2>2, <2>4, <2>5 DEF TypeOK
<1>5. ASSUME NEW h \in Handlers, Refused(h) \/ Abort(h) PROVE TypeOK'
  BY <1>5 DEF Refused, Abort, TypeOK, Request
<1>6. ASSUME NEW h \in Handlers, Inserted(h) PROVE TypeOK'
  <2>1. req[h].first \in Ids \cup {None}
    BY <1>6, InsertingTyped DEF Inserted
  <2> QED BY <1>6, <2>1 DEF Inserted, TypeOK, Request
<1>7. ASSUME NEW h \in Handlers, ReorderTopics(h) PROVE TypeOK'
  <2>1. PICK order \in [1..Cardinality(live) -> live] :
           req' = [req EXCEPT ![h] = [pc |-> "reorder", order |-> order]]
    BY <1>7 DEF ReorderTopics
  <2>2. order \in Seq(Ids)
    <3>1. order \in Seq(live)
      BY LiveFinite
    <3> QED BY <3>1 DEF TypeOK
  <2>3. [pc |-> "reorder", order |-> order] \in Request
    BY <2>2 DEF Request, Ordering
  <2> QED BY <1>7, <2>1, <2>3 DEF ReorderTopics, TypeOK
<1>8. ASSUME NEW h \in Handlers, WriteOrder(h) PROVE TypeOK'
  <2>1. req[h] \in Ordering
    BY <1>8 DEF WriteOrder, TypeOK, Request, Adding, Idle
  <2>2. req[h].order \in Seq(Ids)
    BY <2>1 DEF Ordering
  <2>3. DOMAIN req[h].order \subseteq Nat \ {0}
    BY <2>2
  <2>4. place' \in [Ids -> Nat]
    <3>1. ASSUME NEW i \in Ids PROVE place'[i] \in Nat
      <4>1. CASE i \in live /\ \E n \in DOMAIN req[h].order : req[h].order[n] = i
        <5>1. (CHOOSE n \in DOMAIN req[h].order : req[h].order[n] = i) \in Nat \ {0}
          BY <2>3, <4>1
        <5>2. place'[i] = (CHOOSE n \in DOMAIN req[h].order : req[h].order[n] = i) - 1
          BY <1>8, <4>1 DEF WriteOrder
        <5> QED BY <5>1, <5>2
      <4>2. CASE ~(i \in live /\ \E n \in DOMAIN req[h].order : req[h].order[n] = i)
        <5>1. place'[i] = place[i]
          BY <1>8, <4>2, Zenon DEF WriteOrder
        <5> QED BY <5>1 DEF TypeOK
      <4> QED BY <4>1, <4>2
    <3>2. place' = [i \in Ids |-> place'[i]]
      BY <1>8 DEF WriteOrder
    <3> QED BY <3>1, <3>2
  <2>5. req' \in [Handlers -> Request]
    <3>1. ASSUME NEW g \in Handlers PROVE req'[g] \in Request
      <4>1. CASE g = h
        BY <1>8, <4>1 DEF WriteOrder, Request
      <4>2. CASE g # h /\ g \in Inserting
        <5>1. req[g] \in Adding
          BY <4>2, InsertingTyped DEF Inserting
        <5>2. req'[g] = [req[g] EXCEPT !.shuffled = TRUE]
          BY <1>8, <4>2 DEF WriteOrder
        <5> QED BY <5>1, <5>2 DEF Adding, Request
      <4>3. CASE g # h /\ g \notin Inserting
        BY <1>8, <4>3 DEF WriteOrder, TypeOK
      <4> QED BY <4>1, <4>2, <4>3
    <3>2. req' = [g \in Handlers |-> req'[g]]
      BY <1>8 DEF WriteOrder
    <3> QED BY <3>1, <3>2
  <2> QED BY <1>8, <2>4, <2>5 DEF WriteOrder, TypeOK
<1>9. ASSUME NEW i \in Ids, DeleteTopic(i) PROVE TypeOK'
  <2>1. ASSUME NEW g \in Handlers PROVE req'[g] \in Request
    <3>1. CASE g \in Inserting
      <4>1. /\ req[g] \in Adding /\ req[g].due \in SUBSET Keys
            /\ req[g].before \in SUBSET Ids /\ req[g].others \in SUBSET Ids
        BY <3>1, InsertingTyped DEF Inserting
      <4>2. req'[g] = [req[g] EXCEPT !.due = @ \ {key[i]}, !.before = @ \ {i}, !.others = @ \ {i}]
        BY <1>9, <3>1 DEF DeleteTopic
      <4> QED BY <4>1, <4>2, ZenonT(60) DEF Adding, Request
    <3>2. CASE g \notin Inserting
      BY <1>9, <3>2 DEF DeleteTopic, TypeOK
    <3> QED BY <3>1, <3>2
  <2>2. req' \in [Handlers -> Request]
    <3>1. req' = [g \in Handlers |-> req'[g]]
      BY <1>9 DEF DeleteTopic
    <3> QED BY <2>1, <3>1
  <2>3. live' \in SUBSET Ids /\ current' \in Ids \cup {None}
    BY <1>9 DEF DeleteTopic, TypeOK
  <2>4. key' \in [Ids -> Keys \cup {NoKey}] /\ place' \in [Ids -> Nat]
    BY <1>9 DEF DeleteTopic, TypeOK
  <2> QED BY <2>2, <2>3, <2>4 DEF TypeOK
<1>10. CASE UNCHANGED vars
  BY <1>10 DEF vars, TypeOK
<1> QED BY <1>1, <1>2, <1>3, <1>4, <1>5, <1>6, <1>7, <1>8, <1>9, <1>10 DEF Next

\* Each topic has its type throughout (TypeOK): the rows, the positions and what
\* the requests have read.
THEOREM TypeCorrect == Spec => []TypeOK
<1>1. Init => TypeOK
  BY InitTypeOK
<1>2. TypeOK /\ [Next]_vars => TypeOK'
  BY StepTypeOK
<1> QED BY <1>1, <1>2, PTL DEF Spec

-----------------------------------------------------------------------------
\* What a request that inserts topics can rely on while others change the backlog.

\* Its count covers every topic but the others', and it stays within the limit.
Counted(h) ==
    /\ Cardinality(live \ req[h].others) <= req[h].size
    /\ req[h].first # None => req[h].size <= MaxTopics
    /\ \/ \A n \in DOMAIN req[h].todo : req[h].todo[n] # NoKey
       \/ req[h].size + Len(req[h].todo) <= MaxTopics

\* It knows every key but those of the others' topics.
KeysKnown(h) ==
    \A i \in live : key[i] # NoKey => key[i] \in req[h].taken \/ i \in req[h].others

\* What it is to import is in the backlog or still on its list.
Pending(h) ==
    /\ req[h].due \subseteq req[h].wanted
    /\ req[h].taken \cap req[h].due \subseteq TakenKeys
    /\ req[h].size < MaxTopics =>
          \A k \in req[h].due :
              k \in TakenKeys \/ \E n \in DOMAIN req[h].todo : req[h].todo[n] = k

\* What it found comes before what it adds next.
Last(h) ==
    /\ req[h].before \subseteq live
    /\ ~req[h].shuffled => \A i \in req[h].before : place[i] < req[h].pos

Kept(h) == Counted(h) /\ KeysKnown(h) /\ Pending(h) /\ Last(h)

BacklogPromised == \A h \in Handlers : req[h].pc = "insert" => Kept(h)

LEMMA LookedKept ==
  ASSUME TypeOK, NEW h \in Handlers, NEW n \in Nat, NEW todo \in Seq(Keys \cup {NoKey}),
         NEW wanted \in SUBSET Keys, NextPlace(n),
         (\A m \in DOMAIN todo : todo[m] # NoKey) \/ Cardinality(live) + Len(todo) <= MaxTopics,
         req' = [req EXCEPT ![h] = Looked(n, todo, wanted)],
         UNCHANGED <<live, key, place, current>>, BacklogPromised
  PROVE  BacklogPromised'
<1> SUFFICES ASSUME NEW g \in Handlers, req'[g].pc = "insert" PROVE Kept(g)'
  BY DEF BacklogPromised
<1> TakenKeys' = TakenKeys
  BY DEF TakenKeys
<1>1. CASE g = h
  <2>1. /\ req'[g].others = {} /\ req'[g].size = Cardinality(live) /\ req'[g].first = None
        /\ req'[g].todo = todo /\ req'[g].taken = TakenKeys /\ req'[g].wanted = wanted
        /\ req'[g].due = {k \in wanted : \E i \in DOMAIN todo : todo[i] = k}
        /\ req'[g].before = live /\ req'[g].pos = n
    BY <1>1 DEF TypeOK, Looked
  <2>2. Counted(g)'
    <3>1. live' \ req'[g].others = live
      BY <2>1
    <3>2. Cardinality(live' \ req'[g].others) = Cardinality(live)
      BY <3>1, Zenon
    <3> QED BY <2>1, <3>2, LiveFinite DEF Counted
  <2>3. KeysKnown(g)'
    BY <2>1 DEF KeysKnown, TakenKeys
  <2>4. Pending(g)'
    BY <2>1 DEF Pending
  <2>5. Last(g)'
    BY <2>1 DEF Last, NextPlace
  <2> QED BY <2>2, <2>3, <2>4, <2>5 DEF Kept
<1>2. CASE g # h
  <2>1. req'[g] = req[g]
    BY <1>2 DEF TypeOK
  <2>2. Kept(g)
    BY <2>1 DEF BacklogPromised
  <2> QED BY <2>1, <2>2, ZenonT(60) DEF Kept, Counted, KeysKnown, Pending, Last
<1> QED BY <1>1, <1>2

\* A request that stops leaves the others as they were.
LEMMA StoppedKept ==
  ASSUME TypeOK, NEW h \in Handlers, req' = [req EXCEPT ![h] = Idle],
         UNCHANGED <<live, key, place>>, BacklogPromised
  PROVE  BacklogPromised'
<1> SUFFICES ASSUME NEW g \in Handlers, req'[g].pc = "insert" PROVE Kept(g)'
  BY DEF BacklogPromised
<1>1. req'[g] = req[g]
  BY DEF TypeOK, Idle
<1>2. Kept(g)
  BY <1>1 DEF BacklogPromised
<1>3. TakenKeys' = TakenKeys
  BY DEF TakenKeys
<1> QED BY <1>1, <1>2, <1>3, ZenonT(60) DEF Kept, Counted, KeysKnown, Pending, Last

LEMMA SkipKept ==
  ASSUME TypeOK, BacklogPromised, NEW h \in Handlers, Skip(h)
  PROVE  BacklogPromised'
<1> SUFFICES ASSUME NEW g \in Handlers, req'[g].pc = "insert" PROVE Kept(g)'
  BY DEF BacklogPromised
<1>1. UNCHANGED <<live, key, place>> /\ TakenKeys' = TakenKeys
  BY DEF Skip, TakenKeys
<1>2. CASE g = h
  <2> DEFINE r == req[h]
  <2>1. /\ r.todo \in Seq(Keys \cup {NoKey}) /\ r.todo # <<>> /\ r.size \in Nat
        /\ r.due \in SUBSET Keys /\ r.pc = "insert"
    BY InsertingTyped DEF Skip
  <2>2. /\ req'[g].todo = Tail(r.todo) /\ req'[g].others = r.others /\ req'[g].size = r.size
        /\ req'[g].first = r.first /\ req'[g].taken = r.taken /\ req'[g].wanted = r.wanted
        /\ req'[g].due = r.due /\ req'[g].before = r.before /\ req'[g].pos = r.pos
        /\ req'[g].shuffled = r.shuffled
    <3>1. req'[g] = [r EXCEPT !.todo = Tail(@)] /\ r \in Adding
      BY <1>2, <2>1, InsertingTyped DEF Skip, TypeOK
    <3> QED BY <3>1 DEF Adding
  <2>3. Kept(h)
    BY <2>1 DEF BacklogPromised
  <2>4. Counted(g)'
    <3>1. \/ \A n \in DOMAIN Tail(r.todo) : Tail(r.todo)[n] # NoKey
          \/ r.size + Len(Tail(r.todo)) <= MaxTopics
      <4>1. CASE \A n \in DOMAIN r.todo : r.todo[n] # NoKey
        BY <4>1, <2>1, TailOf
      <4>2. CASE r.size + Len(r.todo) <= MaxTopics
        BY <4>2, <2>1, TailOf, BacklogAssumption
      <4> QED BY <4>1, <4>2, <2>3 DEF Kept, Counted
    <3> QED BY <1>1, <2>2, <2>3, <3>1 DEF Kept, Counted
  <2>5. KeysKnown(g)'
    BY <1>1, <2>2, <2>3 DEF Kept, KeysKnown
  <2>6. Pending(g)'
    <3>1. ASSUME r.size < MaxTopics, NEW k \in r.due
          PROVE  k \in TakenKeys \/ \E n \in DOMAIN Tail(r.todo) : Tail(r.todo)[n] = k
      <4>1. CASE k = Head(r.todo)
        <5>1. k \in r.wanted
          BY <2>3 DEF Kept, Pending
        <5>2. ~(r.size >= MaxTopics)
          BY <3>1, <2>1, BacklogAssumption
        <5>3. Head(r.todo) \notin r.wanted \/ Head(r.todo) \in r.taken
          BY <5>2 DEF Skip, Skips
        <5> QED BY <4>1, <5>1, <5>3, <2>3 DEF Kept, Pending
      <4>2. CASE k # Head(r.todo)
        <5>1. k \in TakenKeys \/ \E n \in DOMAIN r.todo : r.todo[n] = k
          BY <3>1, <2>3 DEF Kept, Pending
        <5> QED BY <5>1, <4>2, <2>1, TailOf
      <4> QED BY <4>1, <4>2
    <3> QED BY <1>1, <2>2, <2>3, <3>1 DEF Kept, Pending
  <2>7. Last(g)'
    BY <1>1, <2>2, <2>3 DEF Kept, Last
  <2> QED BY <2>4, <2>5, <2>6, <2>7 DEF Kept
<1>3. CASE g # h
  <2>1. req'[g] = req[g]
    BY <1>3 DEF Skip, TypeOK
  <2>2. Kept(g)
    BY <2>1 DEF BacklogPromised
  <2> QED BY <1>1, <2>1, <2>2 DEF Kept, Counted, KeysKnown, Pending, Last
<1> QED BY <1>2, <1>3

LEMMA OneMore ==
  ASSUME NEW S, NEW x, IsFiniteSet(S)
  PROVE  IsFiniteSet(S \cup {x}) /\ Cardinality(S \cup {x}) <= Cardinality(S) + 1
<1>1. Cardinality(S) \in Nat
  BY FS_CardinalityType
<1>2. CASE x \in S
  <2>1. S \cup {x} = S
    BY <1>2
  <2>2. IsFiniteSet(S \cup {x}) /\ Cardinality(S \cup {x}) = Cardinality(S)
    BY <2>1, Zenon
  <2> QED BY <1>1, <2>2
<1>3. CASE x \notin S
  BY <1>1, <1>3, FS_AddElement
<1> QED BY <1>2, <1>3

LEMMA CreateKept ==
  ASSUME TypeOK, BacklogPromised, NEW h \in Handlers, CreateTopic(h)
  PROVE  BacklogPromised'
<1> SUFFICES ASSUME NEW g \in Handlers, req'[g].pc = "insert" PROVE Kept(g)'
  BY DEF BacklogPromised
<1>1. PICK i \in Ids :
         /\ i \notin live
         /\ live' = live \cup {i}
         /\ key' = [key EXCEPT ![i] = Head(req[h].todo)]
         /\ place' = [place EXCEPT ![i] = req[h].pos]
         /\ req' = [f \in Handlers |->
                      IF f = h THEN Created(req[h], i)
                      ELSE IF f \in Inserting THEN [req[f] EXCEPT !.others = @ \cup {i}]
                      ELSE req[f]]
  BY DEF CreateTopic, Fresh
<1> DEFINE r == req[h]
<1>2. r.pc = "insert" /\ r.todo # <<>> /\ r \in Adding
  BY InsertingTyped DEF CreateTopic
<1>3. /\ r.todo \in Seq(Keys \cup {NoKey}) /\ r.size \in Nat /\ r.pos \in Nat
      /\ r.due \in SUBSET Keys /\ r.others \in SUBSET Ids
  BY <1>2, InsertingTyped
<1>4. /\ Head(r.todo) \in Keys \cup {NoKey} /\ Len(r.todo) \in Nat \ {0}
      /\ Len(Tail(r.todo)) = Len(r.todo) - 1
  BY <1>2, <1>3, TailOf
<1>5. /\ key \in [Ids -> Keys \cup {NoKey}] /\ live \in SUBSET Ids /\ place \in [Ids -> Nat]
      /\ key'[i] = Head(r.todo) /\ place'[i] = r.pos
      /\ \A j \in Ids \ {i} : key'[j] = key[j] /\ place'[j] = place[j]
  BY <1>1 DEF TypeOK
<1>6. TakenKeys \subseteq TakenKeys' /\ (Head(r.todo) # NoKey => Head(r.todo) \in TakenKeys')
  BY <1>1, <1>5 DEF TakenKeys
<1>7. CASE g = h
  <2>1. Kept(h)
    BY <1>2 DEF BacklogPromised
  <2>2. /\ req'[g].todo = Tail(r.todo) /\ req'[g].wanted = r.wanted
        /\ req'[g].taken = r.taken \cup ({Head(r.todo)} \ {NoKey})
        /\ req'[g].size = r.size + 1 /\ req'[g].pos = r.pos + 1
        /\ req'[g].due = r.due /\ req'[g].before = r.before
        /\ req'[g].others = r.others /\ req'[g].shuffled = r.shuffled
    <3>1. req'[g] = Created(r, i)
      BY <1>1, <1>7
    <3> QED BY <3>1, <1>2, CreatedTyped
  <2>3. Counted(g)'
    <3>1. Cardinality(live' \ r.others) <= r.size + 1
      <4>1. IsFiniteSet(live \ r.others) /\ Cardinality(live \ r.others) <= r.size
        BY LiveFinite, FS_Subset, <2>1 DEF Kept, Counted
      <4>2. live' \ r.others \subseteq (live \ r.others) \cup {i}
        BY <1>1
      <4>3. /\ IsFiniteSet((live \ r.others) \cup {i})
            /\ Cardinality((live \ r.others) \cup {i}) <= Cardinality(live \ r.others) + 1
        BY <4>1, OneMore
      <4>4. Cardinality(live' \ r.others) <= Cardinality((live \ r.others) \cup {i})
        BY <4>2, <4>3, FS_Subset
      <4>5. /\ Cardinality(live' \ r.others) \in Nat /\ Cardinality(live \ r.others) \in Nat
            /\ Cardinality((live \ r.others) \cup {i}) \in Nat
        BY <4>1, <4>2, <4>3, FS_Subset, FS_CardinalityType
      <4> QED BY <4>1, <4>3, <4>4, <4>5, <1>3
    <3>2. /\ r.size + 1 <= MaxTopics
          /\ \/ \A n \in DOMAIN Tail(r.todo) : Tail(r.todo)[n] # NoKey
             \/ (r.size + 1) + Len(Tail(r.todo)) <= MaxTopics
      <4>1. CASE \A n \in DOMAIN r.todo : r.todo[n] # NoKey
        <5>1. Head(r.todo) # NoKey
          BY <4>1, <1>2, <1>3, TailOf
        <5>2. ~(r.size >= MaxTopics)
          BY <5>1 DEF CreateTopic, Skips
        <5> QED BY <4>1, <5>2, <1>2, <1>3, TailOf, BacklogAssumption
      <4>2. CASE r.size + Len(r.todo) <= MaxTopics
        BY <4>2, <1>3, <1>4, BacklogAssumption
      <4> QED BY <4>1, <4>2, <2>1 DEF Kept, Counted
    <3>3. Cardinality(live' \ req'[g].others) <= req'[g].size
      <4>1. Cardinality(live' \ req'[g].others) = Cardinality(live' \ r.others)
        BY <2>2, Zenon
      <4> QED BY <4>1, <3>1, <2>2
    <3> QED BY <2>2, <3>2, <3>3 DEF Counted
  <2>4. KeysKnown(g)'
    BY <1>1, <1>5, <2>1, <2>2 DEF Kept, KeysKnown
  <2>5. Pending(g)'
    <3>1. (r.taken \cup ({Head(r.todo)} \ {NoKey})) \cap r.due \subseteq TakenKeys'
      BY <1>6, <2>1 DEF Kept, Pending
    <3>2. ASSUME r.size + 1 < MaxTopics, NEW k \in r.due
          PROVE  k \in TakenKeys' \/ \E n \in DOMAIN Tail(r.todo) : Tail(r.todo)[n] = k
      <4>1. k # NoKey
        BY <1>3, BacklogAssumption
      <4>2. r.size < MaxTopics
        BY <3>2, <1>3, BacklogAssumption
      <4>3. k \in TakenKeys \/ \E n \in DOMAIN r.todo : r.todo[n] = k
        BY <4>2, <2>1 DEF Kept, Pending
      <4> QED BY <4>1, <4>3, <1>2, <1>3, <1>6, TailOf
    <3> QED BY <2>1, <2>2, <3>1, <3>2 DEF Kept, Pending
  <2>6. Last(g)'
    <3>1. r.before \subseteq live'
      BY <1>1, <2>1 DEF Kept, Last
    <3>2. ASSUME ~r.shuffled, NEW j \in r.before PROVE place'[j] < r.pos + 1
      <4>1. j \in live /\ j \in Ids \ {i} /\ place[j] < r.pos
        BY <3>2, <2>1, <1>1, <1>5 DEF Kept, Last
      <4> QED BY <4>1, <1>3, <1>5
    <3> QED BY <2>2, <3>1, <3>2 DEF Last
  <2> QED BY <2>3, <2>4, <2>5, <2>6 DEF Kept
<1>8. CASE g # h
  <2> DEFINE q == req[g]
  <2>1. q.pc = "insert" /\ req'[g] = [q EXCEPT !.others = @ \cup {i}]
    BY <1>1, <1>8 DEF Inserting
  <2>2. Kept(g) /\ q \in Adding /\ q.others \in SUBSET Ids /\ q.size \in Nat /\ q.due \in SUBSET Keys
    BY <2>1, InsertingTyped DEF BacklogPromised
  <2>3. /\ req'[g].todo = q.todo /\ req'[g].others = q.others \cup {i} /\ req'[g].size = q.size
        /\ req'[g].first = q.first /\ req'[g].taken = q.taken /\ req'[g].wanted = q.wanted
        /\ req'[g].due = q.due /\ req'[g].before = q.before /\ req'[g].pos = q.pos
        /\ req'[g].shuffled = q.shuffled
    BY <2>1, <2>2 DEF Adding
  <2>4. Counted(g)'
    <3>1. live' \ req'[g].others \subseteq live \ q.others
      BY <1>1, <2>3
    <3>2. Cardinality(live' \ req'[g].others) <= Cardinality(live \ q.others)
      BY <3>1, LiveFinite, FS_Subset
    <3>3. Cardinality(live' \ req'[g].others) \in Nat /\ Cardinality(live \ q.others) \in Nat
      BY <3>1, LiveFinite, FS_Subset, FS_CardinalityType
    <3> QED BY <2>2, <2>3, <3>2, <3>3 DEF Kept, Counted
  <2>5. KeysKnown(g)'
    BY <1>1, <1>5, <2>2, <2>3 DEF Kept, KeysKnown
  <2>6. Pending(g)'
    BY <1>6, <2>2, <2>3 DEF Kept, Pending
  <2>7. Last(g)'
    BY <1>1, <1>5, <2>2, <2>3 DEF Kept, Last
  <2> QED BY <2>4, <2>5, <2>6, <2>7 DEF Kept
<1> QED BY <1>7, <1>8

LEMMA WriteOrderKept ==
  ASSUME TypeOK, BacklogPromised, NEW h \in Handlers, WriteOrder(h)
  PROVE  BacklogPromised'
<1> SUFFICES ASSUME NEW g \in Handlers, req'[g].pc = "insert" PROVE Kept(g)'
  BY DEF BacklogPromised
<1> DEFINE q == req[g]
<1>1. q.pc = "insert" /\ req'[g] = [q EXCEPT !.shuffled = TRUE]
  BY DEF WriteOrder, Inserting, Idle
<1>2. Kept(g) /\ q \in Adding
  BY <1>1, InsertingTyped DEF BacklogPromised
<1>3. /\ req'[g].todo = q.todo /\ req'[g].others = q.others /\ req'[g].size = q.size
      /\ req'[g].first = q.first /\ req'[g].taken = q.taken /\ req'[g].wanted = q.wanted
      /\ req'[g].due = q.due /\ req'[g].before = q.before /\ req'[g].shuffled
  BY <1>1, <1>2 DEF Adding
<1>4. UNCHANGED <<live, key>> /\ TakenKeys' = TakenKeys
  BY DEF WriteOrder, TakenKeys
<1> QED BY <1>2, <1>3, <1>4 DEF Kept, Counted, KeysKnown, Pending, Last

LEMMA DeleteKept ==
  ASSUME TypeOK, BacklogPromised, NEW i \in Ids, DeleteTopic(i)
  PROVE  BacklogPromised'
<1> SUFFICES ASSUME NEW g \in Handlers, req'[g].pc = "insert" PROVE Kept(g)'
  BY DEF BacklogPromised
<1> DEFINE q == req[g]
<1>1. /\ q.pc = "insert"
      /\ req'[g] = [q EXCEPT !.due = @ \ {key[i]}, !.before = @ \ {i}, !.others = @ \ {i}]
  BY DEF DeleteTopic, Inserting
<1>2. /\ Kept(g) /\ q \in Adding /\ q.due \in SUBSET Keys
      /\ q.others \in SUBSET Ids /\ q.size \in Nat
  BY <1>1, InsertingTyped DEF BacklogPromised
<1>3. /\ req'[g].todo = q.todo /\ req'[g].others = q.others \ {i} /\ req'[g].size = q.size
      /\ req'[g].first = q.first /\ req'[g].taken = q.taken /\ req'[g].wanted = q.wanted
      /\ req'[g].due = q.due \ {key[i]} /\ req'[g].before = q.before \ {i}
      /\ req'[g].pos = q.pos /\ req'[g].shuffled = q.shuffled
  BY <1>1, <1>2 DEF Adding
<1>4. /\ live' = live \ {i} /\ live \in SUBSET Ids
      /\ \A j \in Ids \ {i} : key'[j] = key[j] /\ place'[j] = place[j]
  BY DEF DeleteTopic, TypeOK
<1>5. TakenKeys \ {key[i]} \subseteq TakenKeys'
  BY <1>4 DEF TakenKeys
<1>6. Counted(g)'
  <2>1. live' \ req'[g].others \subseteq live \ q.others
    BY <1>3, <1>4
  <2>2. Cardinality(live' \ req'[g].others) <= Cardinality(live \ q.others)
    BY <2>1, LiveFinite, FS_Subset
  <2>3. Cardinality(live' \ req'[g].others) \in Nat /\ Cardinality(live \ q.others) \in Nat
    BY <2>1, LiveFinite, FS_Subset, FS_CardinalityType
  <2> QED BY <1>2, <1>3, <2>2, <2>3 DEF Kept, Counted
<1>7. KeysKnown(g)'
  BY <1>2, <1>3, <1>4 DEF Kept, KeysKnown
<1>8. Pending(g)'
  BY <1>2, <1>3, <1>5 DEF Kept, Pending
<1>9. Last(g)'
  BY <1>2, <1>3, <1>4 DEF Kept, Last
<1> QED BY <1>6, <1>7, <1>8, <1>9 DEF Kept

LEMMA StepBacklogPromised == TypeOK /\ BacklogPromised /\ [Next]_vars => BacklogPromised'
<1> SUFFICES ASSUME TypeOK, BacklogPromised, [Next]_vars PROVE BacklogPromised'
  OBVIOUS
<1>1. ASSUME NEW h \in Handlers, AddTopics(h) PROVE BacklogPromised'
  <2>1. PICK m \in 1..MaxTyped, n \in 0..LastPlace :
           /\ Cardinality(live) + m <= MaxTopics
           /\ NextPlace(n)
           /\ req' = [req EXCEPT ![h] = Looked(n, [i \in 1..m |-> NoKey], {})]
    BY <1>1 DEF AddTopics
  <2> DEFINE todo == [i \in 1..m |-> NoKey]
  <2>2. n \in Nat /\ m \in Nat /\ {} \in SUBSET Keys
    BY BacklogAssumption
  <2>3. todo \in Seq(Keys \cup {NoKey}) /\ Len(todo) = m
    BY <2>2
  <2>4. Cardinality(live) + Len(todo) <= MaxTopics
    BY <2>1, <2>3
  <2>5. req' = [req EXCEPT ![h] = Looked(n, todo, {})] /\ UNCHANGED <<live, key, place, current>>
    BY <1>1, <2>1 DEF AddTopics
  <2> HIDE DEF todo
  <2> QED BY <2>1, <2>2, <2>3, <2>4, <2>5, LookedKept
<1>2. ASSUME NEW h \in Handlers, ImportSourceItems(h) PROVE BacklogPromised'
  <2>1. PICK items \in Listings, selected \in SUBSET Keys, n \in 0..LastPlace :
           NextPlace(n) /\ req' = [req EXCEPT ![h] = Looked(n, items, selected)]
    BY <1>2 DEF ImportSourceItems
  <2>2. n \in Nat /\ items \in Seq(Keys)
    BY BacklogAssumption
  <2>3. items \in Seq(Keys \cup {NoKey}) /\ \A m \in DOMAIN items : items[m] # NoKey
    BY <2>2, BacklogAssumption
  <2>4. UNCHANGED <<live, key, place, current>>
    BY <1>2 DEF ImportSourceItems
  <2> QED BY <2>1, <2>2, <2>3, <2>4, LookedKept
<1>3. ASSUME NEW h \in Handlers, Skip(h) PROVE BacklogPromised'
  BY <1>3, SkipKept
<1>4. ASSUME NEW h \in Handlers, CreateTopic(h) PROVE BacklogPromised'
  BY <1>4, CreateKept
<1>5. ASSUME NEW h \in Handlers, Refused(h) \/ Abort(h) \/ Inserted(h) PROVE BacklogPromised'
  <2>1. req' = [req EXCEPT ![h] = Idle] /\ UNCHANGED <<live, key, place>>
    BY <1>5 DEF Refused, Abort, Inserted
  <2> QED BY <2>1, StoppedKept
<1>6. ASSUME NEW h \in Handlers, ReorderTopics(h) PROVE BacklogPromised'
  <2>1. PICK order : req' = [req EXCEPT ![h] = [pc |-> "reorder", order |-> order]]
    BY <1>6 DEF ReorderTopics
  <2>2. UNCHANGED <<live, key, place>> /\ TakenKeys' = TakenKeys
    BY <1>6 DEF ReorderTopics, TakenKeys
  <2> SUFFICES ASSUME NEW g \in Handlers, req'[g].pc = "insert" PROVE Kept(g)'
    BY DEF BacklogPromised
  <2>3. req'[g] = req[g]
    BY <2>1 DEF TypeOK
  <2>4. Kept(g)
    BY <2>3 DEF BacklogPromised
  <2> QED BY <2>2, <2>3, <2>4 DEF Kept, Counted, KeysKnown, Pending, Last
<1>7. ASSUME NEW h \in Handlers, WriteOrder(h) PROVE BacklogPromised'
  BY <1>7, WriteOrderKept
<1>8. ASSUME NEW i \in Ids, DeleteTopic(i) PROVE BacklogPromised'
  BY <1>8, DeleteKept
<1>9. CASE UNCHANGED vars
  <2>1. UNCHANGED <<live, key, place, req>> /\ TakenKeys' = TakenKeys
    BY <1>9 DEF vars, TakenKeys
  <2> QED BY <2>1 DEF BacklogPromised, Kept, Counted, KeysKnown, Pending, Last
<1> QED BY <1>1, <1>2, <1>3, <1>4, <1>5, <1>6, <1>7, <1>8, <1>9 DEF Next

LEMMA Promised == Spec => [](TypeOK /\ BacklogPromised)
<1>1. Init => TypeOK /\ BacklogPromised
  <2>1. Init => BacklogPromised
    BY DEF Init, BacklogPromised, Idle
  <2> QED BY <2>1, InitTypeOK
<1>2. TypeOK /\ BacklogPromised /\ [Next]_vars => (TypeOK /\ BacklogPromised)'
  BY StepTypeOK, StepBacklogPromised
<1> QED BY <1>1, <1>2, PTL DEF Spec

\* When a request has inserted topics, the room is over its limit by no more than
\* other requests have inserted since it counted (AddTopics, ImportSourceItems).
THEOREM LimitAlwaysHoldsAlone == Spec => []LimitHoldsAlone
<1>1. TypeOK /\ BacklogPromised => LimitHoldsAlone
  <2> SUFFICES ASSUME TypeOK, BacklogPromised, NEW h \in Inserting, req[h].first # None
               PROVE  Cardinality(live \ req[h].others) <= MaxTopics
    BY DEF LimitHoldsAlone
  <2>1. h \in Handlers /\ req[h].pc = "insert"
    BY DEF Inserting
  <2>2. Counted(h) /\ req[h].size \in Nat
    BY <2>1, InsertingTyped DEF BacklogPromised, Kept
  <2>3. Cardinality(live \ req[h].others) \in Nat
    BY LiveFinite, FS_Subset, FS_CardinalityType
  <2> QED BY <2>2, <2>3, BacklogAssumption DEF Counted
<1> QED BY <1>1, Promised, PTL

\* An import clashes with the unique index only on a key that another request has
\* inserted while it ran: running an import again is safe (ImportSourceItems).
THEOREM ClashesAlwaysNeedOthers == Spec => []ClashesNeedOthers
<1>1. TypeOK /\ BacklogPromised => ClashesNeedOthers
  <2> SUFFICES ASSUME TypeOK, BacklogPromised, NEW h \in Inserting, req[h].todo # <<>>,
                      ~Skips(req[h]), Clash(Head(req[h].todo))
               PROVE  \E i \in req[h].others : key[i] = Head(req[h].todo)
    BY DEF ClashesNeedOthers
  <2>1. h \in Handlers /\ req[h].pc = "insert"
    BY DEF Inserting
  <2>2. PICK i \in live : key[i] = Head(req[h].todo) /\ key[i] # NoKey
    BY DEF Clash, TakenKeys
  <2>3. key[i] \notin req[h].taken
    BY <2>2 DEF Skips
  <2>4. i \in req[h].others
    BY <2>1, <2>2, <2>3 DEF BacklogPromised, Kept, KeysKnown
  <2> QED BY <2>2, <2>4
<1> QED BY <1>1, Promised, PTL

\* When an import has gone through its list and the room is not full, every key that
\* was selected and listed and not deleted since is in the backlog (ImportSourceItems).
THEOREM ImportsAlwaysComplete == Spec => []ImportsComplete
<1>1. TypeOK /\ BacklogPromised => ImportsComplete
  BY DEF ImportsComplete, BacklogPromised, Kept, Pending, Inserting
<1> QED BY <1>1, Promised, PTL

\* New topics come after those the request found, unless the backlog is reordered
\* while it runs (NextTopicPosition, ReorderTopics).
THEOREM NewTopicsAlwaysLast == Spec => []NewTopicsLast
<1>1. TypeOK /\ BacklogPromised => NewTopicsLast
  BY DEF NewTopicsLast, BacklogPromised, Kept, Last, Inserting
<1> QED BY <1>1, Promised, PTL

\* No tracker key is in the backlog twice (the unique index of topics).
THEOREM KeysAlwaysOnce == Spec => []KeysOnce
<1>1. Init => KeysOnce
  BY DEF Init, KeysOnce
<1>2. TypeOK /\ KeysOnce /\ [Next]_vars => KeysOnce'
  <2> SUFFICES ASSUME TypeOK, KeysOnce, [Next]_vars PROVE KeysOnce'
    OBVIOUS
  <2>1. ASSUME NEW h \in Handlers, CreateTopic(h) PROVE KeysOnce'
    <3>1. PICK i \in Ids :
             /\ live' = live \cup {i} /\ i \notin live
             /\ key' = [key EXCEPT ![i] = Head(req[h].todo)]
      BY <2>1 DEF CreateTopic, Fresh
    <3>2. key'[i] = Head(req[h].todo) /\ \A j \in live : key'[j] = key[j]
      BY <3>1 DEF TypeOK
    <3>3. \A j \in live : key[j] = Head(req[h].todo) => key[j] = NoKey
      BY <2>1 DEF CreateTopic, Clash, TakenKeys
    <3> QED BY <3>1, <3>2, <3>3 DEF KeysOnce
  <2>2. ASSUME NEW i \in Ids, DeleteTopic(i) PROVE KeysOnce'
    <3>1. live' = live \ {i} /\ \A j \in live \ {i} : key'[j] = key[j]
      BY <2>2 DEF DeleteTopic, TypeOK
    <3> QED BY <3>1 DEF KeysOnce
  <2>3. CASE UNCHANGED <<live, key>>
    BY <2>3 DEF KeysOnce
  <2>4. ASSUME NEW h \in Handlers,
               \/ AddTopics(h) \/ ImportSourceItems(h) \/ Skip(h) \/ Refused(h)
               \/ Inserted(h) \/ ReorderTopics(h) \/ WriteOrder(h) \/ Abort(h)
        PROVE  UNCHANGED <<live, key>>
    BY <2>4 DEF AddTopics, ImportSourceItems, Skip, Refused, Inserted, ReorderTopics,
                WriteOrder, Abort
  <2> QED BY <2>1, <2>2, <2>3, <2>4 DEF Next, vars
<1> QED BY <1>1, <1>2, TypeCorrect, PTL DEF Spec
=============================================================================
