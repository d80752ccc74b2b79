---------------------------- MODULE SeatsProofs -----------------------------
(***************************************************************************)
(* For any number of people, names, topics and requests, any limit and any  *)
(* retention: how far the limit on players holds, when two people can have  *)
(* the same name, and that rooms in use are not purged.                     *)
(***************************************************************************)
EXTENDS Seats, FiniteSetTheorems, TLAPS

LEMMA AgesAreNumbers == Retention \in Nat /\ Ages \subseteq Nat /\ Gone \notin Ages /\ 0 \in Ages
  BY SeatsAssumption DEF Ages, Gone

LEMMA OlderTyped == ASSUME NEW a \in Ages PROVE Older(a) \in Ages
  BY SeatsAssumption DEF Ages, Older

\* A request that is not idle is about to name somebody.
LEMMA InHandNaming ==
  ASSUME TypeOK, NEW h \in Handlers, req[h].pc # "idle"
  PROVE  /\ req[h] \in Naming
         /\ req[h].who \in People /\ req[h].name \in Names /\ req[h].rivals \in SUBSET People
  BY DEF TypeOK, Request, Idle, Naming

\* Naming a person leaves the other requests what they are, with one rival more.
LEMMA NamedTyped ==
  ASSUME TypeOK, NEW h \in Handlers, NEW p \in People, req[h].pc # "idle", Named(h, p)
  PROVE  /\ req' \in [Handlers -> Request]
         /\ raced' \in SUBSET (SUBSET People)
         /\ req'[h] = Idle
         /\ \A g \in Handlers \ {h} :
               IF req[g].pc # "idle"
               THEN /\ req'[g].pc = req[g].pc /\ req'[g].who = req[g].who
                    /\ req'[g].name = req[g].name
                    /\ req'[g].rivals = req[g].rivals \cup {p}
               ELSE req'[g] = req[g]
<1>1. req[h].rivals \in SUBSET People
  BY InHandNaming
<1>2. raced' \in SUBSET (SUBSET People)
  BY <1>1 DEF Named, TypeOK
<1>3. ASSUME NEW g \in Handlers \ {h}, req[g].pc # "idle"
      PROVE  /\ [req[g] EXCEPT !.rivals = @ \cup {p}] \in Naming
             /\ req'[g] = [req[g] EXCEPT !.rivals = @ \cup {p}]
  <2>1. req[g] \in Naming
    BY <1>3, InHandNaming
  <2>2. req'[g] = [req[g] EXCEPT !.rivals = @ \cup {p}]
    BY <1>3 DEF Named, InHand
  <2> QED BY <2>1, <2>2 DEF Naming
<1>4. ASSUME NEW g \in Handlers \ {h}, req[g].pc = "idle" PROVE req'[g] = req[g]
  BY <1>4 DEF Named, InHand
<1>5. req'[h] = Idle
  BY DEF Named
<1>6. req' \in [Handlers -> Request]
  <2>1. ASSUME NEW g \in Handlers PROVE req'[g] \in Request
    BY <1>3, <1>4, <1>5 DEF Request, TypeOK
  <2>2. req' = [g \in Handlers |-> req'[g]]
    BY DEF Named
  <2> QED BY <2>1, <2>2
<1>7. ASSUME NEW g \in Handlers \ {h}, req[g].pc # "idle"
      PROVE  /\ req'[g].pc = req[g].pc /\ req'[g].who = req[g].who
             /\ req'[g].name = req[g].name
             /\ req'[g].rivals = req[g].rivals \cup {p}
  <2>1. req[g] \in Naming
    BY <1>7, InHandNaming
  <2> QED BY <2>1, <1>3, <1>7 DEF Naming
<1> QED BY <1>2, <1>4, <1>5, <1>6, <1>7

\* Losing rivals changes nothing else of a request.
LEMMA WithoutRivalsTyped ==
  ASSUME TypeOK, NEW gone, WithoutRivals(gone)
  PROVE  /\ req' \in [Handlers -> Request]
         /\ \A h \in Handlers : req'[h].pc = req[h].pc
         /\ \A h \in InHand : /\ req'[h].who = req[h].who /\ req'[h].name = req[h].name
                             /\ req'[h].rivals = req[h].rivals \ gone
<1>1. ASSUME NEW h \in Handlers
      PROVE  /\ req'[h] \in Request /\ req'[h].pc = req[h].pc
             /\ h \in InHand => /\ req'[h].who = req[h].who /\ req'[h].name = req[h].name
                                /\ req'[h].rivals = req[h].rivals \ gone
  <2>1. CASE h \in InHand
    <3>1. req[h] \in Naming
      BY <2>1, InHandNaming DEF InHand
    <3>2. req'[h] = [req[h] EXCEPT !.rivals = req[h].rivals \ gone]
      BY <2>1 DEF WithoutRivals
    <3> QED BY <3>1, <3>2 DEF Naming, Request
  <2>2. CASE h \notin InHand
    BY <2>2 DEF WithoutRivals, TypeOK
  <2> QED BY <2>1, <2>2
<1>2. req' = [h \in Handlers |-> req'[h]]
  BY DEF WithoutRivals
<1> QED BY <1>1, <1>2 DEF InHand

LEMMA InitTypeOK == Init => TypeOK
  BY SeatsAssumption, AgesAreNumbers DEF Init, TypeOK, Request, Ages

LEMMA StepTypeOK == TypeOK /\ [Next]_vars => TypeOK'
<1> SUFFICES ASSUME TypeOK, [Next]_vars PROVE TypeOK'
  OBVIOUS
<1> USE SeatsAssumption, AgesAreNumbers
<1>1. ASSUME NEW h \in Handlers, NEW n \in Names, CreateRoom(h, n) PROVE TypeOK'
  <2>1. [pc |-> "seat", who |-> Host, name |-> n, rivals |-> {}] \in Request
    BY DEF Request, Naming
  <2> QED BY <1>1, <2>1 DEF TypeOK, CreateRoom, Heard
<1>2. ASSUME NEW h \in Handlers, NEW p \in People, NEW n \in Names, JoinRoom(h, p, n)
      PROVE  TypeOK'
  <2>1. [pc |-> "seat", who |-> p, name |-> n, rivals |-> {}] \in Request
    BY DEF Request, Naming
  <2> QED BY <1>2, <2>1 DEF TypeOK, JoinRoom
<1>3. ASSUME NEW h \in Handlers, CreateParticipant(h) PROVE TypeOK'
  <2>1. req[h].who \in People /\ req[h].name \in Names
    BY <1>3, InHandNaming DEF CreateParticipant
  <2>2. req' \in [Handlers -> Request] /\ raced' \in SUBSET (SUBSET People)
    BY <1>3, <2>1, NamedTyped DEF CreateParticipant
  <2> QED BY <1>3, <2>1, <2>2 DEF TypeOK, CreateParticipant, Heard
<1>4. ASSUME NEW h \in Handlers, NEW p \in People, NEW n \in Names, UpdateProfile(h, p, n)
      PROVE  TypeOK'
  <2>1. [pc |-> "rename", who |-> p, name |-> n, rivals |-> {}] \in Request
    BY DEF Request, Naming
  <2> QED BY <1>4, <2>1 DEF TypeOK, UpdateProfile
<1>5. ASSUME NEW h \in Handlers, UpdateParticipant(h) PROVE TypeOK'
  <2>1. req[h].who \in People /\ req[h].name \in Names
    BY <1>5, InHandNaming DEF UpdateParticipant
  <2>2. CASE req[h].who \in Members
    <3>1. req' \in [Handlers -> Request] /\ raced' \in SUBSET (SUBSET People)
      BY <1>5, <2>1, <2>2, NamedTyped DEF UpdateParticipant
    <3> QED BY <1>5, <2>1, <2>2, <3>1 DEF TypeOK, UpdateParticipant
  <2>3. CASE req[h].who \notin Members
    BY <1>5, <2>3 DEF TypeOK, UpdateParticipant, Request
  <2> QED BY <2>2, <2>3
<1>6. ASSUME NEW h \in Handlers, Abort(h) PROVE TypeOK'
  BY <1>6 DEF TypeOK, Abort, Request
<1>7. ASSUME NEW p \in People, KickParticipant(p) PROVE TypeOK'
  BY <1>7, WithoutRivalsTyped DEF TypeOK, KickParticipant, Removed, Forget, Ages
<1>8. ASSUME NEW p \in People, Touch(p) PROVE TypeOK'
  BY <1>8 DEF TypeOK, Touch, Heard
<1>9. ASSUME NEW t \in Topics, AddTopic(t) PROVE TypeOK'
  BY <1>9 DEF TypeOK, AddTopic, Heard
<1>10. ASSUME NEW t \in Topics, DeleteTopic(t) PROVE TypeOK'
  BY <1>10 DEF TypeOK, DeleteTopic, Removed
<1>11. CASE Tick
  BY <1>11, OlderTyped DEF TypeOK, Tick
<1>12. CASE PurgeStaleRooms
  BY <1>12, WithoutRivalsTyped DEF TypeOK, PurgeStaleRooms, Ages
<1>13. CASE UNCHANGED vars
  BY <1>13 DEF TypeOK, vars
<1> QED BY <1>1, <1>2, <1>3, <1>4, <1>5, <1>6, <1>7, <1>8, <1>9, <1>10, <1>11, <1>12, <1>13
        DEF Next, Proceed

\* Rows, requests and histories keep their shape.
THEOREM TypeCorrect == Spec => []TypeOK
  BY InitTypeOK, StepTypeOK, PTL DEF Spec

-----------------------------------------------------------------------------
\* How full a room can get.

\* The requests that have found a free seat and not taken it yet.
Joining == {h \in Handlers : req[h].pc = "seat"}

\* The seats taken and those promised.
SeatsPromised ==
    /\ room = Gone => Members = {}
    /\ Cardinality(Members) + Cardinality(Joining) < MaxPlayers + Cardinality(Handlers)

LEMMA OneMore ==
  ASSUME NEW S, NEW x, IsFiniteSet(S)
  PROVE  IsFiniteSet(S \cup {x}) /\ Cardinality(S \cup {x}) <= Cardinality(S) + 1
<1>1. Cardinality(S) \in Nat
  BY FS_CardinalityType
<1>2. CASE x \in S
  <2>1. S \cup {x} = S
    BY <1>2
  <2>2. IsFiniteSet(S \cup {x}) /\ Cardinality(S \cup {x}) = Cardinality(S)
    BY <2>1, Zenon
  <2> QED BY <1>1, <2>2
<1>3. CASE x \notin S
  BY <1>1, <1>3, FS_AddElement
<1> QED BY <1>2, <1>3

LEMMA SetsFinite ==
  /\ IsFiniteSet(Members) /\ IsFiniteSet(Joining)
  /\ Cardinality(Members) \in Nat /\ Cardinality(Joining) \in Nat
  /\ Cardinality(Handlers) \in Nat \ {0}
  /\ Cardinality(Joining) <= Cardinality(Handlers)
<1>1. IsFiniteSet(Members) /\ IsFiniteSet(Joining)
  BY FS_Subset, SeatsAssumption DEF Members, Joining
<1>2. Cardinality(Handlers) # 0
  BY FS_EmptySet, SeatsAssumption
<1> QED
  BY <1>1, <1>2, FS_CardinalityType, FS_Subset, SeatsAssumption DEF Joining

LEMMA SetsFinitePrime ==
  /\ IsFiniteSet(Members') /\ IsFiniteSet(Joining')
  /\ Cardinality(Members') \in Nat /\ Cardinality(Joining') \in Nat
  /\ Cardinality(Joining') <= Cardinality(Handlers)
<1>1. IsFiniteSet(Members') /\ IsFiniteSet(Joining')
  BY FS_Subset, SeatsAssumption DEF Members, Joining
<1> QED
  BY <1>1, FS_CardinalityType, FS_Subset, SeatsAssumption DEF Joining

\* No new member and no new promise.
LEMMA FewerSeats ==
  ASSUME SeatsPromised, Members' \subseteq Members, Joining' \subseteq Joining, UNCHANGED room
  PROVE  SeatsPromised'
<1>1. Cardinality(Members') <= Cardinality(Members) /\ Cardinality(Joining') <= Cardinality(Joining)
  BY SetsFinite, FS_Subset
<1>2. room' = Gone => Members' = {}
  BY DEF SeatsPromised, Gone
<1> QED BY <1>1, <1>2, SetsFinite, SetsFinitePrime, SeatsAssumption DEF SeatsPromised, Gone

\* A new promise is made on a free seat only, whatever was promised before.
LEMMA PromiseMade ==
  ASSUME SeatsPromised, Cardinality(Members) < MaxPlayers, Members' = Members,
         room' # Gone
  PROVE  SeatsPromised'
  BY SetsFinite, SetsFinitePrime, SeatsAssumption DEF SeatsPromised

LEMMA InitSeatsPromised == Init => SeatsPromised
<1> SUFFICES ASSUME Init PROVE SeatsPromised
  OBVIOUS
<1>1. Members = {} /\ Joining = {}
  BY DEF Init, Members, Joining, Idle
<1>2. Cardinality(Members) = 0 /\ Cardinality(Joining) = 0
  BY <1>1, FS_EmptySet
<1> QED BY <1>1, <1>2, SetsFinite, SeatsAssumption DEF SeatsPromised

LEMMA StepSeatsPromised == TypeOK /\ SeatsPromised /\ [Next]_vars => SeatsPromised'
<1> SUFFICES ASSUME TypeOK, SeatsPromised, [Next]_vars PROVE SeatsPromised'
  OBVIOUS
<1>1. ASSUME NEW h \in Handlers, NEW n \in Names, CreateRoom(h, n) PROVE SeatsPromised'
  <2>1. Members = {} /\ Cardinality(Members) = 0
    BY <1>1, FS_EmptySet DEF CreateRoom, SeatsPromised
  <2>2. Cardinality(Members) < MaxPlayers
    BY <2>1, SeatsAssumption
  <2> QED BY <1>1, <2>2, PromiseMade, SeatsAssumption DEF CreateRoom, Members, Gone
<1>2. ASSUME NEW h \in Handlers, NEW p \in People, NEW n \in Names, JoinRoom(h, p, n)
      PROVE  SeatsPromised'
  BY <1>2, PromiseMade DEF JoinRoom, Members, Gone
<1>3. ASSUME NEW h \in Handlers, CreateParticipant(h) PROVE SeatsPromised'
  <2>1. h \in Joining /\ req[h].pc # "idle" /\ req[h].who \in People
    BY <1>3, InHandNaming DEF CreateParticipant, Joining
  <2>2. Joining' = Joining \ {h}
    BY <1>3, <2>1, NamedTyped DEF CreateParticipant, Joining, Idle
  <2>3. Members' \subseteq Members \cup {req[h].who}
    BY <1>3 DEF CreateParticipant, Members, TypeOK
  <2>4. Cardinality(Joining') = Cardinality(Joining) - 1
    BY <2>1, <2>2, SetsFinite, FS_RemoveElement
  <2>5. Cardinality(Members') <= Cardinality(Members) + 1
    <3>1. IsFiniteSet(Members \cup {req[h].who})
          /\ Cardinality(Members \cup {req[h].who}) <= Cardinality(Members) + 1
      BY SetsFinite, OneMore
    <3>2. Cardinality(Members') <= Cardinality(Members \cup {req[h].who})
      BY <2>3, <3>1, FS_Subset
    <3>3. Cardinality(Members \cup {req[h].who}) \in Nat
      BY <3>1, FS_CardinalityType
    <3> QED BY <3>1, <3>2, <3>3, SetsFinite, SetsFinitePrime
  <2>6. room' # Gone
    BY <1>3 DEF CreateParticipant, Gone
  <2> QED BY <2>4, <2>5, <2>6, SetsFinite, SetsFinitePrime, SeatsAssumption DEF SeatsPromised
<1>4. ASSUME NEW h \in Handlers, NEW p \in People, NEW n \in Names, UpdateProfile(h, p, n)
      PROVE  SeatsPromised'
  BY <1>4, FewerSeats DEF UpdateProfile, Members, Joining, TypeOK
<1>5. ASSUME NEW h \in Handlers, UpdateParticipant(h) PROVE SeatsPromised'
  <2>1. req[h].pc # "idle" /\ req[h].pc # "seat" /\ req[h].who \in People
    BY <1>5, InHandNaming DEF UpdateParticipant
  <2>2. Members' \subseteq Members
    BY <1>5 DEF UpdateParticipant, Members, TypeOK
  <2>3. Joining' \subseteq Joining
    <3>1. CASE req[h].who \in Members
      BY <1>5, <2>1, <3>1, NamedTyped DEF UpdateParticipant, Joining, Idle
    <3>2. CASE req[h].who \notin Members
      BY <1>5, <3>2 DEF UpdateParticipant, Joining, Idle, TypeOK
    <3> QED BY <3>1, <3>2
  <2> QED BY <1>5, <2>2, <2>3, FewerSeats DEF UpdateParticipant
<1>6. ASSUME NEW h \in Handlers, Abort(h) PROVE SeatsPromised'
  BY <1>6, FewerSeats DEF Abort, Members, Joining, Idle, TypeOK
<1>7. ASSUME NEW p \in People, KickParticipant(p) PROVE SeatsPromised'
  <2>1. Joining' \subseteq Joining
    BY <1>7, WithoutRivalsTyped DEF KickParticipant, Forget, Joining
  <2> QED BY <1>7, <2>1, FewerSeats DEF KickParticipant, Forget, Members, TypeOK
<1>8. ASSUME NEW p \in People, Touch(p) PROVE SeatsPromised'
  BY <1>8, FewerSeats DEF Touch, Members, Joining
<1>9. ASSUME NEW t \in Topics, AddTopic(t) \/ DeleteTopic(t) PROVE SeatsPromised'
  BY <1>9, FewerSeats DEF AddTopic, DeleteTopic, Members, Joining
<1>10. CASE Tick
  <2>1. Members' = Members /\ Joining' = Joining
    BY <1>10 DEF Tick, Members, Joining
  <2>2. room' = Gone => room = Gone
    BY <1>10, OlderTyped, AgesAreNumbers DEF Tick, TypeOK, Gone
  <2> QED BY <2>1, <2>2 DEF SeatsPromised, Gone
<1>11. CASE PurgeStaleRooms
  <2>1. Members' = {} /\ Joining' = Joining
    BY <1>11, WithoutRivalsTyped DEF PurgeStaleRooms, Members, Joining
  <2>2. Cardinality(Members') = 0
    BY <2>1, FS_EmptySet
  <2> QED BY <2>1, <2>2, SetsFinite, SeatsAssumption DEF SeatsPromised
<1>12. CASE UNCHANGED vars
  BY <1>12 DEF SeatsPromised, Members, Joining, vars, Gone
<1> QED BY <1>1, <1>2, <1>3, <1>4, <1>5, <1>6, <1>7, <1>8, <1>9, <1>10, <1>11, <1>12
        DEF Next, Proceed

\* A room exceeds MaxPlayers by less than the number of requests served side by
\* side, although the check of JoinRoom is not made again by its insert.
THEOREM LimitAlwaysNearlyHolds == Spec => []LimitNearlyHolds
<1>1. TypeOK /\ SeatsPromised => LimitNearlyHolds
  BY SetsFinite, SeatsAssumption DEF SeatsPromised, LimitNearlyHolds
<1> QED
  BY <1>1, InitTypeOK, StepTypeOK, InitSeatsPromised, StepSeatsPromised, PTL DEF Spec

-----------------------------------------------------------------------------
\* Names.

\* Whoever bears the name a request is about to give to somebody else got it after
\* that request had looked.
RivalsKnown ==
    \A h \in InHand : \A p \in Members :
        p # req[h].who /\ name[p] = req[h].name => p \in req[h].rivals

NamesInv == TwinsRaced /\ RivalsKnown

LEMMA InitNamesInv == Init => NamesInv
  BY DEF Init, NamesInv, TwinsRaced, RivalsKnown, Members, InHand, Idle

\* Storing a name.
LEMMA NamedKeepsNamesInv ==
  ASSUME TypeOK, NamesInv, NEW h \in Handlers, req[h].pc # "idle",
         name' = [name EXCEPT ![req[h].who] = req[h].name],
         Named(h, req[h].who)
  PROVE  NamesInv'
<1> DEFINE w == req[h].who
           n == req[h].name
<1>1. w \in People /\ n \in Names /\ req[h].rivals \in SUBSET People /\ n # NoName
  BY InHandNaming, SeatsAssumption
<1>2. name'[w] = n /\ \A p \in People \ {w} : name'[p] = name[p]
  BY <1>1 DEF TypeOK
<1>3. Members' = Members \cup {w}
  BY <1>1, <1>2 DEF Members
<1>4. \A p \in Members : p # w /\ name[p] = n => p \in req[h].rivals
  BY DEF NamesInv, RivalsKnown, InHand
<1>5. raced' = {r \in raced : w \notin r} \cup {{w, q} : q \in req[h].rivals \ {w}}
  BY DEF Named
<1>6. TwinsRaced'
  <2> SUFFICES ASSUME NEW p \in Members', NEW q \in Members', p # q, name'[p] = name'[q]
               PROVE  {p, q} \in raced'
    BY DEF TwinsRaced
  <2>0. p \in People /\ q \in People
    BY DEF Members
  <2>1. CASE p # w /\ q # w
    <3>1. {p, q} \in raced
      BY <1>2, <1>3, <2>0, <2>1 DEF NamesInv, TwinsRaced
    <3> QED BY <1>5, <2>1, <3>1
  <2>2. CASE p = w
    <3>1. q \in Members /\ q # w /\ name[q] = n
      BY <1>2, <1>3, <2>0, <2>2
    <3> QED BY <1>4, <1>5, <2>2, <3>1
  <2>3. CASE q = w
    <3>1. p \in Members /\ p # w /\ name[p] = n
      BY <1>2, <1>3, <2>0, <2>3
    <3>2. {p, q} = {w, p}
      BY <2>3
    <3> QED BY <1>4, <1>5, <3>1, <3>2
  <2> QED BY <2>1, <2>2, <2>3
<1>7. RivalsKnown'
  <2> SUFFICES ASSUME NEW g \in InHand', NEW p \in Members',
                      p # req'[g].who, name'[p] = req'[g].name
               PROVE  p \in req'[g].rivals
    BY DEF RivalsKnown
  <2>1. g \in Handlers \ {h} /\ req[g].pc # "idle" /\ g \in InHand
    BY <1>1, NamedTyped DEF InHand, Idle
  <2>2. /\ req'[g].who = req[g].who /\ req'[g].name = req[g].name
        /\ req'[g].rivals = req[g].rivals \cup {w}
    BY <1>1, <2>1, NamedTyped
  <2>3. CASE p = w
    BY <2>2, <2>3
  <2>4. CASE p # w
    BY <1>2, <1>3, <2>1, <2>2, <2>4 DEF NamesInv, RivalsKnown, Members
  <2> QED BY <2>3, <2>4
<1> QED BY <1>6, <1>7 DEF NamesInv

\* Looking for a name that nobody else bears.
LEMMA LookingKeepsNamesInv ==
  ASSUME TypeOK, NamesInv, NEW h \in Handlers, NEW p \in People, NEW n \in Names,
         NEW pc, ~Taken(n, p), UNCHANGED <<name, raced>>,
         req' = [req EXCEPT ![h] = [pc |-> pc, who |-> p, name |-> n, rivals |-> {}]]
  PROVE  NamesInv'
<1>1. Members' = Members
  BY DEF Members
<1>2. TwinsRaced'
  BY <1>1 DEF NamesInv, TwinsRaced
<1>3. RivalsKnown'
  <2> SUFFICES ASSUME NEW g \in InHand', NEW q \in Members,
                      q # req'[g].who, name[q] = req'[g].name
               PROVE  q \in req'[g].rivals
    BY <1>1 DEF RivalsKnown
  <2>1. CASE g = h
    BY <2>1 DEF Taken, TypeOK, Members, InHand
  <2>2. CASE g # h
    <3>1. req'[g] = req[g] /\ g \in InHand
      BY <2>2 DEF InHand, TypeOK
    <3> QED BY <3>1 DEF NamesInv, RivalsKnown
  <2> QED BY <2>1, <2>2
<1> QED BY <1>2, <1>3 DEF NamesInv

LEMMA StepNamesInv == TypeOK /\ SeatsPromised /\ NamesInv /\ [Next]_vars => NamesInv'
<1> SUFFICES ASSUME TypeOK, SeatsPromised, NamesInv, [Next]_vars PROVE NamesInv'
  OBVIOUS
<1>1. ASSUME NEW h \in Handlers, NEW n \in Names, CreateRoom(h, n) PROVE NamesInv'
  <2>1. ~Taken(n, Host)
    BY <1>1, SeatsAssumption DEF CreateRoom, SeatsPromised, Taken, Members
  <2> QED BY <1>1, <2>1, LookingKeepsNamesInv, SeatsAssumption DEF CreateRoom
<1>2. ASSUME NEW h \in Handlers, NEW p \in People, NEW n \in Names, JoinRoom(h, p, n)
      PROVE  NamesInv'
  BY <1>2, LookingKeepsNamesInv DEF JoinRoom
<1>3. ASSUME NEW h \in Handlers, CreateParticipant(h) PROVE NamesInv'
  BY <1>3, NamedKeepsNamesInv DEF CreateParticipant
<1>4. ASSUME NEW h \in Handlers, NEW p \in People, NEW n \in Names, UpdateProfile(h, p, n)
      PROVE  NamesInv'
  BY <1>4, LookingKeepsNamesInv DEF UpdateProfile
<1>5. ASSUME NEW h \in Handlers, UpdateParticipant(h) PROVE NamesInv'
  <2>1. CASE req[h].who \in Members
    BY <1>5, <2>1, NamedKeepsNamesInv DEF UpdateParticipant
  <2>2. CASE req[h].who \notin Members
    BY <1>5, <2>2 DEF UpdateParticipant, NamesInv, TwinsRaced, RivalsKnown, Members, InHand,
                      Idle, TypeOK
  <2> QED BY <2>1, <2>2
<1>6. ASSUME NEW h \in Handlers, Abort(h) PROVE NamesInv'
  BY <1>6 DEF Abort, NamesInv, TwinsRaced, RivalsKnown, Members, InHand, Idle, TypeOK
<1>7. ASSUME NEW p \in People, KickParticipant(p) PROVE NamesInv'
  <2>1. Members' = Members \ {p} /\ \A q \in Members' : name'[q] = name[q]
    BY <1>7 DEF KickParticipant, Forget, Members, TypeOK
  <2>2. TwinsRaced'
    BY <1>7, <2>1 DEF KickParticipant, Forget, NamesInv, TwinsRaced
  <2>3. RivalsKnown'
    BY <1>7, <2>1, WithoutRivalsTyped
    DEF KickParticipant, Forget, NamesInv, RivalsKnown, InHand
  <2> QED BY <2>2, <2>3 DEF NamesInv
<1>8. CASE PurgeStaleRooms
  BY <1>8 DEF PurgeStaleRooms, NamesInv, TwinsRaced, RivalsKnown, Members
<1>9. CASE UNCHANGED <<name, req, raced>>
  BY <1>9 DEF NamesInv, TwinsRaced, RivalsKnown, Members, InHand
<1>10. ASSUME NEW p \in People, Touch(p) PROVE NamesInv'
  BY <1>9, <1>10 DEF Touch
<1>11. ASSUME NEW t \in Topics, AddTopic(t) \/ DeleteTopic(t) PROVE NamesInv'
  BY <1>9, <1>11 DEF AddTopic, DeleteTopic
<1>12. CASE Tick
  BY <1>9, <1>12 DEF Tick
<1> QED BY <1>1, <1>2, <1>3, <1>4, <1>5, <1>6, <1>7, <1>8, <1>9, <1>10, <1>11, <1>12
        DEF Next, Proceed, vars

\* Two people have the same name only if the requests that named them overlapped.
THEOREM TwinsAlwaysRaced == Spec => []TwinsRaced
<1>1. NamesInv => TwinsRaced
  BY DEF NamesInv
<1> QED
  BY <1>1, InitTypeOK, StepTypeOK, InitSeatsPromised, StepSeatsPromised, InitNamesInv,
     StepNamesInv, PTL DEF Spec

-----------------------------------------------------------------------------
\* The janitor.

\* Whatever has happened in the room lately, some row that is still there is as
\* young as that, unless the host has taken it away.
Witnessed ==
    room # Gone /\ trace = "kept" =>
                   \/ room <= quiet
                   \/ \E p \in Members : seen[p] <= quiet
                   \/ \E t \in Topics : topics[t] # Gone /\ topics[t] <= quiet

LEMMA InitWitnessed == Init => Witnessed
  BY DEF Init, Witnessed

LEMMA OlderMonotone == ASSUME NEW a \in Ages, NEW b \in Ages, a <= b PROVE Older(a) <= Older(b)
  BY SeatsAssumption DEF Ages, Older

LEMMA StepWitnessed == TypeOK /\ Witnessed /\ [Next]_vars => Witnessed'
<1> SUFFICES ASSUME TypeOK, Witnessed, [Next]_vars PROVE Witnessed'
  OBVIOUS
<1> USE SeatsAssumption, AgesAreNumbers
<1>0. quiet \in Nat /\ \A p \in People : seen[p] \in Nat
  BY DEF TypeOK
<1>1. ASSUME NEW h \in Handlers, NEW n \in Names, CreateRoom(h, n) PROVE Witnessed'
  BY <1>1 DEF CreateRoom, Heard, Witnessed
<1>2. ASSUME NEW h \in Handlers, NEW p \in People, NEW n \in Names,
             JoinRoom(h, p, n) \/ UpdateProfile(h, p, n)
      PROVE  Witnessed'
  BY <1>2 DEF JoinRoom, UpdateProfile, Witnessed, Members, Gone
<1>3. ASSUME NEW h \in Handlers, CreateParticipant(h) PROVE Witnessed'
  <2>1. req[h].who \in People /\ req[h].name \in Names
    BY <1>3, InHandNaming DEF CreateParticipant
  <2>2. req[h].who \in Members' /\ seen'[req[h].who] = 0 /\ quiet' = 0
    BY <1>3, <2>1 DEF CreateParticipant, Heard, Members, TypeOK
  <2> QED BY <2>2 DEF Witnessed
<1>4. ASSUME NEW h \in Handlers, UpdateParticipant(h) PROVE Witnessed'
  <2>1. req[h].who \in People /\ req[h].name \in Names
    BY <1>4, InHandNaming DEF UpdateParticipant
  <2>2. Members' = Members
    BY <1>4, <2>1 DEF UpdateParticipant, Members, TypeOK
  <2> QED BY <1>4, <2>2 DEF UpdateParticipant, Witnessed, Gone
<1>5. ASSUME NEW h \in Handlers, Abort(h) PROVE Witnessed'
  BY <1>5 DEF Abort, Witnessed, Members, Gone
<1>6. ASSUME NEW p \in People, KickParticipant(p) PROVE Witnessed'
  <2> SUFFICES ASSUME ~(seen[p] <= quiet), room # Gone, trace = "kept" PROVE Witnessed'
    BY <1>6 DEF KickParticipant, Removed, Witnessed, Gone
  <2>1. \A q \in Members : q # p => q \in Members' /\ seen'[q] = seen[q]
    BY <1>6 DEF KickParticipant, Forget, Members, TypeOK
  <2>2. \A q \in Members : seen[q] <= quiet => q # p
    OBVIOUS
  <2> QED BY <1>6, <2>1, <2>2 DEF KickParticipant, Witnessed
<1>7. ASSUME NEW p \in People, Touch(p) PROVE Witnessed'
  <2>1. p \in Members' /\ seen'[p] = 0 /\ quiet' = 0
    BY <1>7 DEF Touch, Heard, Members, TypeOK
  <2> QED BY <2>1 DEF Witnessed
<1>8. ASSUME NEW t \in Topics, AddTopic(t) PROVE Witnessed'
  <2>1. topics'[t] = 0 /\ quiet' = 0 /\ Gone' # 0
    BY <1>8 DEF AddTopic, Heard, TypeOK, Gone
  <2> QED BY <2>1 DEF Witnessed
<1>9. ASSUME NEW t \in Topics, DeleteTopic(t) PROVE Witnessed'
  <2> SUFFICES ASSUME ~(topics[t] <= quiet), room # Gone, trace = "kept" PROVE Witnessed'
    BY <1>9 DEF DeleteTopic, Removed, Witnessed, Gone
  <2>1. \A u \in Topics : u # t => topics'[u] = topics[u]
    BY <1>9 DEF DeleteTopic, TypeOK
  <2>2. Members' = Members
    BY <1>9 DEF DeleteTopic, Members
  <2> QED BY <1>9, <2>1, <2>2 DEF DeleteTopic, Witnessed, Gone
<1>10. CASE Tick
  <2> SUFFICES ASSUME room' # Gone, trace' = "kept"
               PROVE  \/ room' <= quiet'
                      \/ \E p \in Members' : seen'[p] <= quiet'
                      \/ \E t \in Topics : topics'[t] # Gone /\ topics'[t] <= quiet'
    BY DEF Witnessed, Gone
  <2>1. Members' = Members /\ quiet' = Older(quiet) /\ quiet \in Ages
    BY <1>10 DEF Tick, Members, TypeOK
  <2>2. room # Gone /\ trace = "kept"
    BY <1>10 DEF Tick
  <2>3. CASE room <= quiet
    <3>1. room \in Ages /\ room' = Older(room)
      BY <1>10, <2>2 DEF Tick, TypeOK
    <3> QED BY <2>1, <2>3, <3>1, OlderMonotone
  <2>4. ASSUME NEW p \in Members, seen[p] <= quiet PROVE seen'[p] <= quiet'
    <3>1. seen[p] \in Ages /\ seen'[p] = Older(seen[p])
      BY <1>10 DEF Tick, TypeOK, Members
    <3> QED BY <2>1, <2>4, <3>1, OlderMonotone
  <2>5. ASSUME NEW t \in Topics, topics[t] # Gone, topics[t] <= quiet
        PROVE  topics'[t] # Gone /\ topics'[t] <= quiet'
    <3>1. topics[t] \in Ages /\ topics'[t] = Older(topics[t])
      BY <1>10, <2>5 DEF Tick, TypeOK
    <3> QED BY <2>1, <2>5, <3>1, OlderMonotone, OlderTyped
  <2> QED BY <2>1, <2>2, <2>3, <2>4, <2>5 DEF Witnessed
<1>11. CASE PurgeStaleRooms
  BY <1>11 DEF PurgeStaleRooms, Witnessed, Gone
<1>12. CASE UNCHANGED vars
  BY <1>12 DEF vars, Witnessed, Members, Gone
<1> QED BY <1>1, <1>2, <1>3, <1>4, <1>5, <1>6, <1>7, <1>8, <1>9, <1>10, <1>11, <1>12
        DEF Next, Proceed

\* The janitor deletes only rooms in which nobody has joined, added a topic or been
\* heard of for the retention, or from which the host has removed what showed it.
THEOREM UsedRoomsAlwaysStay == Spec => UsedRoomsStay
<1>1. TypeOK /\ Witnessed /\ PurgeStaleRooms => quiet = Retention \/ trace = "removed"
  BY SeatsAssumption DEF TypeOK, Witnessed, PurgeStaleRooms, Stale, Ages, Gone
<1>2. TypeOK /\ Witnessed /\ [Next]_vars
        => [PurgeStaleRooms => quiet = Retention \/ trace = "removed"]_vars
  BY <1>1
<1>3. TypeOK /\ Witnessed /\ [Next]_vars => Witnessed'
  BY StepWitnessed
<1> QED
  BY <1>2, <1>3, InitTypeOK, StepTypeOK, InitWitnessed, PTL DEF Spec, UsedRoomsStay
=============================================================================
