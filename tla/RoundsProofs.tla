---------------------------- MODULE RoundsProofs ----------------------------
(***************************************************************************)
(* Theorems about Rounds, for any set of players, topics, cards and        *)
(* handlers, and that it implements PlanningPoker (RoundsRefinement).       *)
(***************************************************************************)
EXTENDS RoundsRefinement, FiniteSetTheorems, TLAPS

USE DEF NoTopic

-----------------------------------------------------------------------------
\* Type correctness.

LEMMA IdleType == Idle \in Request
  BY HostAssumption DEF Idle, Request, PCs, Status

\* What the helpers that move a request along do to the type of req.
LEMMA ServeType ==
  ASSUME NEW h \in Handlers, NEW r \in Request, TypeOK, Serve(h, r)
  PROVE  req' \in [Handlers -> Request]
  BY DEF TypeOK, Serve

LEMMA FinishType ==
  ASSUME NEW h \in Handlers, TypeOK, Finish(h)
  PROVE  req' \in [Handlers -> Request]
  BY IdleType DEF TypeOK, Finish

LEMMA GotoType ==
  ASSUME NEW h \in Handlers, NEW pc \in PCs, TypeOK, Goto(h, pc)
  PROVE  req' \in [Handlers -> Request]
  <1>1. [req[h] EXCEPT !.pc = pc] \in Request
    <2>1. req[h] \in Request
      BY DEF TypeOK
    <2> QED
      BY <2>1 DEF Request
  <1>2. req' = [req EXCEPT ![h] = [req[h] EXCEPT !.pc = pc]]
    BY DEF Goto
  <1> QED
    BY <1>1, <1>2 DEF TypeOK

\* The three ways a request is updated with more than its next statement.
LEMMA UpdateType ==
  ASSUME NEW r \in Request
  PROVE  /\ \A s \in Status :
              [r EXCEPT !.pc = "write", !.seen = s] \in Request
         /\ \A S \in SUBSET Players :
              [r EXCEPT !.pc = "tally", !.expected = S] \in Request
         /\ \A t \in Topics \cup {NoTopic} :
              [r EXCEPT !.pc = "point", !.t = t] \in Request
  BY ZenonT(60) DEF Request, PCs

LEMMA FreshType ==
  Fresh \in [status : Status, revealedAt : BOOLEAN, final : Cards \cup {NoCard}]
  BY DEF Fresh, Status

LEMMA NoCardsType == NoCards \in [Players -> Cards \cup {NoCard}]
  BY DEF NoCards

LEMMA InitType == Init => TypeOK
  <1> SUFFICES ASSUME Init PROVE TypeOK
    OBVIOUS
  <1>1. mode \in Mode /\ autoReveal \in BOOLEAN /\ deck \in SUBSET Cards
    BY ModeAssumption, DeckAssumption DEF Init
  <1>2. topic \in [Topics -> [status : Status, revealedAt : BOOLEAN,
                              final : Cards \cup {NoCard}]]
    BY FreshType DEF Init
  <1>3. votes \in [Topics -> [Players -> Cards \cup {NoCard}]]
    BY NoCardsType DEF Init
  <1>4. req \in [Handlers -> Request]
    BY IdleType DEF Init
  <1>5. seat \in [Players -> {"new", "seated", "gone"}]
    BY DEF Init
  <1>6. /\ current \in Topics \cup {NoTopic}
        /\ watching \in SUBSET Players /\ online \in SUBSET Players
        /\ live \in SUBSET Topics
    BY DEF Init, Seated
  <1> QED
    BY <1>1, <1>2, <1>3, <1>4, <1>5, <1>6 DEF TypeOK

LEMMA StartType ==
  ASSUME TypeOK, NEW h \in Handlers, Start(h)
  PROVE  TypeOK'
  <1> USE IdleType, HostAssumption
  <1>1. UNCHANGED <<room, people, board>>
    BY DEF Start, StartCast, StartClear, StartReveal, StartFinalize,
           StartDelete, StartFocus, StartAdvance
  <1>2. req' \in [Handlers -> Request]
    <2>1. CASE StartCast(h)
      <3>1. PICK p \in Seated \ watching, t \in Topics, c \in deck :
              Serve(h, [Idle EXCEPT !.op = "cast", !.pc = "read", !.who = p,
                                !.t = t, !.card = c, !.auto = autoReveal])
        BY <2>1 DEF StartCast
      <3>2. [Idle EXCEPT !.op = "cast", !.pc = "read", !.who = p,
                         !.t = t, !.card = c, !.auto = autoReveal] \in Request
        BY ZenonT(60) DEF Idle, Request, AllOps, PCs, Status, TypeOK, Seated
      <3> QED
        BY <3>1, <3>2, ServeType
    <2>2. CASE StartClear(h)
      <3>1. PICK p \in Seated, t \in Topics :
              Serve(h, [Idle EXCEPT !.op = "clear", !.pc = "read", !.who = p,
                                    !.t = t])
        BY <2>2 DEF StartClear
      <3>2. [Idle EXCEPT !.op = "clear", !.pc = "read", !.who = p, !.t = t]
              \in Request
        BY DEF Idle, Request, AllOps, PCs, Status, Seated
      <3> QED
        BY <3>1, <3>2, ServeType
    <2>3. CASE StartReveal(h)
      <3>1. PICK t \in Topics :
              Serve(h, [Idle EXCEPT !.op = "reveal", !.pc = "read", !.t = t])
        BY <2>3 DEF StartReveal
      <3>2. [Idle EXCEPT !.op = "reveal", !.pc = "read", !.t = t] \in Request
        BY DEF Idle, Request, AllOps, PCs, Status
      <3> QED
        BY <3>1, <3>2, ServeType
    <2>4. CASE StartFinalize(h)
      <3>1. PICK t \in Topics, c \in deck \ Escapes :
              Serve(h, [Idle EXCEPT !.op = "finalize", !.pc = "read", !.t = t,
                                    !.card = c])
        BY <2>4 DEF StartFinalize
      <3>2. [Idle EXCEPT !.op = "finalize", !.pc = "read", !.t = t, !.card = c]
              \in Request
        BY DEF Idle, Request, AllOps, PCs, Status, TypeOK
      <3> QED
        BY <3>1, <3>2, ServeType
    <2>5. CASE StartDelete(h)
      <3>1. PICK t \in Topics :
              Serve(h, [Idle EXCEPT !.op = "delete", !.pc = "write", !.t = t,
                                    !.cur = current])
        BY <2>5 DEF StartDelete
      <3>2. [Idle EXCEPT !.op = "delete", !.pc = "write", !.t = t,
                         !.cur = current] \in Request
        BY DEF Idle, Request, AllOps, PCs, Status, TypeOK
      <3> QED
        BY <3>1, <3>2, ServeType
    <2>6. CASE StartFocus(h)
      <3>1. PICK p \in Seated, t \in Topics :
              Serve(h, [Idle EXCEPT !.op = "focus", !.pc = ControlPC(p, "read"),
                                    !.who = p, !.t = t, !.cur = current])
        BY <2>6 DEF StartFocus
      <3>2. [Idle EXCEPT !.op = "focus", !.pc = ControlPC(p, "read"),
                         !.who = p, !.t = t, !.cur = current] \in Request
        <4>1. p \in Players /\ current \in Topics \cup {NoTopic}
          BY DEF TypeOK, Seated
        <4>2. ControlPC(p, "read") \in PCs
          BY DEF ControlPC, PCs
        <4> QED
          BY <4>1, <4>2 DEF Idle, Request, AllOps, Status
      <3> QED
        BY <3>1, <3>2, ServeType
    <2>7. CASE StartAdvance(h)
      <3>1. PICK p \in Seated, direction \in {"next", "prev"} :
              Serve(h, [Idle EXCEPT !.op = direction,
                                    !.pc = ControlPC(p, "pick"),
                                    !.who = p, !.cur = current])
        BY <2>7 DEF StartAdvance
      <3>2. [Idle EXCEPT !.op = direction, !.pc = ControlPC(p, "pick"),
                         !.who = p, !.cur = current] \in Request
        <4>1. p \in Players /\ current \in Topics \cup {NoTopic}
          BY DEF TypeOK, Seated
        <4>2. ControlPC(p, "pick") \in PCs
          BY DEF ControlPC, PCs
        <4> QED
          BY <4>1, <4>2 DEF Idle, Request, AllOps, Status
      <3> QED
        BY <3>1, <3>2, ServeType
    <2> QED
      BY <2>1, <2>2, <2>3, <2>4, <2>5, <2>6, <2>7 DEF Start
  <1> QED
    BY <1>1, <1>2 DEF TypeOK, room, people, board

\* A step that only moves its request along keeps the type.
LEMMA StillType ==
  ASSUME TypeOK, UNCHANGED <<room, people, board>>,
         req' \in [Handlers -> Request]
  PROVE  TypeOK'
  BY DEF TypeOK, room, people, board

LEMMA SeekType ==
  ASSUME NEW h \in Handlers, TypeOK, SeekReveal(h)
  PROVE  req' \in [Handlers -> Request]
  BY FinishType, GotoType DEF SeekReveal, PCs

LEMMA StatusType ==
  ASSUME TypeOK, NEW t \in Topics, NEW s \in Status, NEW b \in BOOLEAN
  PROVE  [topic EXCEPT ![t].status = s, ![t].revealedAt = b] \in
           [Topics -> [status : Status, revealedAt : BOOLEAN,
                       final : Cards \cup {NoCard}]]
  BY DEF TypeOK

LEMMA VoteType ==
  ASSUME TypeOK, NEW t, NEW p, NEW c \in Cards \cup {NoCard}
  PROVE  [votes EXCEPT ![t][p] = c] \in
           [Topics -> [Players -> Cards \cup {NoCard}]]
  BY DEF TypeOK

LEMMA CastStepType ==
  ASSUME TypeOK, NEW h \in Handlers
  PROVE  /\ CastRead(h) => TypeOK'
         /\ CastWrite(h) => TypeOK'
         /\ CastMark(h) => TypeOK'
         /\ CastList(h) => TypeOK'
         /\ CastTally(h) => TypeOK'
         /\ Flip(h) => TypeOK'
  <1> USE FinishType, GotoType, SeekType
  <1>1. ASSUME CastRead(h) PROVE TypeOK'
    <2>1. topic[req[h].t].status \in Status \/ req[h].t \notin live
      BY DEF TypeOK, Request
    <2>2. CASE req' = [req EXCEPT ![h].pc = "write",
                                  ![h].seen = topic[req[h].t].status]
               /\ req[h].t \in live
      <3>1. [req[h] EXCEPT !.pc = "write", !.seen = topic[req[h].t].status]
              \in Request
        BY <2>1, <2>2, UpdateType DEF TypeOK
      <3>2. req' = [req EXCEPT ![h] = [req[h] EXCEPT !.pc = "write",
                                       !.seen = topic[req[h].t].status]]
        BY <2>2
      <3>3. req' \in [Handlers -> Request]
        BY <3>1, <3>2 DEF TypeOK
      <3> QED
        BY <1>1, <3>3, StillType DEF CastRead
    <2>3. CASE Finish(h)
      BY <1>1, <2>3, StillType DEF CastRead
    <2> QED
      BY <1>1, <2>2, <2>3 DEF CastRead
  <1>2. ASSUME CastWrite(h) PROVE TypeOK'
    <2>1. req' \in [Handlers -> Request]
      BY <1>2 DEF CastWrite, PCs
    <2>2. req[h].card \in Cards \cup {NoCard}
      BY DEF TypeOK, Request
    <2>3. votes' = [votes EXCEPT ![req[h].t][req[h].who] = req[h].card]
            \/ UNCHANGED votes
      BY <1>2 DEF CastWrite
    <2>4. votes' \in [Topics -> [Players -> Cards \cup {NoCard}]]
      BY <2>2, <2>3 DEF TypeOK
    <2> QED
      BY <1>2, <2>1, <2>4 DEF CastWrite, TypeOK, room, people
  <1>3. ASSUME CastMark(h) PROVE TypeOK'
    <2>1. req' \in [Handlers -> Request]
      BY <1>3 DEF CastMark
    <2>2. topic' \in [Topics -> [status : Status, revealedAt : BOOLEAN,
                                 final : Cards \cup {NoCard}]]
      BY <1>3 DEF CastMark, TypeOK, Status
    <2> QED
      BY <1>3, <2>1, <2>2 DEF CastMark, TypeOK, room, people
  <1>4. ASSUME CastList(h) PROVE TypeOK'
    <2>1. CASE Finish(h)
      BY <1>4, <2>1, StillType DEF CastList
    <2>2. CASE req' = [req EXCEPT ![h].pc = "tally",
                                  ![h].expected = ExpectedVoters]
      <3>1. [req[h] EXCEPT !.pc = "tally", !.expected = ExpectedVoters]
              \in Request
        BY UpdateType DEF TypeOK, ExpectedVoters, Seated
      <3>2. req' = [req EXCEPT ![h] = [req[h] EXCEPT !.pc = "tally",
                                       !.expected = ExpectedVoters]]
        BY <2>2
      <3>3. req' \in [Handlers -> Request]
        BY <3>1, <3>2 DEF TypeOK
      <3> QED
        BY <1>4, <3>3, StillType DEF CastList
    <2> QED
      BY <1>4, <2>1, <2>2 DEF CastList
  <1>5. ASSUME CastTally(h) PROVE TypeOK'
    <2>1. req' \in [Handlers -> Request]
      BY <1>5 DEF CastTally, PCs
    <2> QED
      BY <1>5, <2>1, StillType DEF CastTally
  <1>6. ASSUME Flip(h) PROVE TypeOK'
    <2>1. req' \in [Handlers -> Request]
      BY <1>6 DEF Flip
    <2>2. topic' \in [Topics -> [status : Status, revealedAt : BOOLEAN,
                                 final : Cards \cup {NoCard}]]
      <3>1. topic' = [topic EXCEPT ![req[h].t].status = "revealed",
                                   ![req[h].t].revealedAt = TRUE]
              \/ UNCHANGED topic
        BY <1>6 DEF Flip
      <3>2. topic \in [Topics -> [status : Status, revealedAt : BOOLEAN,
                                  final : Cards \cup {NoCard}]]
        BY DEF TypeOK
      <3>3. "revealed" \in Status
        BY DEF Status
      <3> QED
        BY <3>1, <3>2, <3>3
    <2> QED
      BY <1>6, <2>1, <2>2 DEF Flip, TypeOK, room, people
  <1> QED
    BY <1>1, <1>2, <1>3, <1>4, <1>5, <1>6

LEMMA ReadTopicType ==
  ASSUME TypeOK, NEW h \in Handlers, NEW op, NEW ok, NEW pc \in PCs,
         ReadTopic(h, op, ok, pc)
  PROVE  TypeOK'
  BY FinishType, GotoType, StillType DEF ReadTopic

LEMMA OtherStepType ==
  ASSUME TypeOK, NEW h \in Handlers
  PROVE  /\ ClearRead(h) \/ RevealRead(h) \/ FinalizeRead(h) \/ FocusRead(h)
              => TypeOK'
         /\ ClearWrite(h) => TypeOK'
         /\ FinalizeWrite(h) => TypeOK'
         /\ DeleteWrite(h) => TypeOK'
         /\ DeletePick(h) \/ AdvancePick(h) => TypeOK'
         /\ Control(h) => TypeOK'
         /\ Point(h) => TypeOK'
         /\ Abort(h) => TypeOK'
  <1> USE FinishType, GotoType
  <1>1. ASSUME ClearRead(h) \/ RevealRead(h) \/ FinalizeRead(h) \/ FocusRead(h)
        PROVE  TypeOK'
    BY <1>1, ReadTopicType DEF ClearRead, RevealRead, FinalizeRead, FocusRead,
       PCs
  <1>2. ASSUME ClearWrite(h) PROVE TypeOK'
    <2>1. votes' \in [Topics -> [Players -> Cards \cup {NoCard}]]
      BY <1>2, VoteType DEF ClearWrite
    <2> QED
      BY <1>2, <2>1 DEF ClearWrite, TypeOK, room, people
  <1>3. ASSUME FinalizeWrite(h) PROVE TypeOK'
    <2>1. topic' \in [Topics -> [status : Status, revealedAt : BOOLEAN,
                                 final : Cards \cup {NoCard}]]
      BY <1>3 DEF FinalizeWrite, TypeOK, Status, Request
    <2> QED
      BY <1>3, <2>1 DEF FinalizeWrite, TypeOK, room, people
  <1>4. ASSUME DeleteWrite(h) PROVE TypeOK'
    <2>1. req' \in [Handlers -> Request]
      BY <1>4 DEF DeleteWrite, PCs
    <2>2. /\ topic' \in [Topics -> [status : Status, revealedAt : BOOLEAN,
                                    final : Cards \cup {NoCard}]]
          /\ votes' \in [Topics -> [Players -> Cards \cup {NoCard}]]
          /\ live' \in SUBSET Topics
      <3>1. \/ /\ topic' = [topic EXCEPT ![req[h].t] = Fresh]
               /\ votes' = [votes EXCEPT ![req[h].t] = NoCards]
               /\ live' = live \ {req[h].t}
            \/ UNCHANGED board
        BY <1>4 DEF DeleteWrite
      <3> QED
        <4>1. CASE UNCHANGED board
          BY <4>1 DEF TypeOK, board
        <4>2. CASE /\ topic' = [topic EXCEPT ![req[h].t] = Fresh]
                   /\ votes' = [votes EXCEPT ![req[h].t] = NoCards]
                   /\ live' = live \ {req[h].t}
          BY <4>2, FreshType, NoCardsType DEF TypeOK
        <4> QED
          BY <3>1, <4>1, <4>2
    <2> QED
      BY <1>4, <2>1, <2>2 DEF DeleteWrite, TypeOK, room, people
  <1>5. ASSUME NEW t \in Topics \cup {NoTopic},
               req' = [req EXCEPT ![h].pc = "point", ![h].t = t]
        PROVE  req' \in [Handlers -> Request]
    <2>1. [req[h] EXCEPT !.pc = "point", !.t = t] \in Request
      BY UpdateType DEF TypeOK
    <2>2. req' = [req EXCEPT ![h] = [req[h] EXCEPT !.pc = "point", !.t = t]]
      BY <1>5
    <2> QED
      BY <2>1, <2>2 DEF TypeOK
  <1>6. ASSUME DeletePick(h) \/ AdvancePick(h) PROVE TypeOK'
    <2>1. req' \in [Handlers -> Request]
      BY <1>5, <1>6 DEF DeletePick, AdvancePick, TypeOK
    <2> QED
      BY <1>6, <2>1, StillType DEF DeletePick, AdvancePick
  <1>7. ASSUME Control(h) PROVE TypeOK'
    <2>1. req' \in [Handlers -> Request]
      BY <1>7 DEF Control, PCs
    <2> QED
      BY <1>7, <2>1, StillType DEF Control
  <1>8. ASSUME Point(h) PROVE TypeOK'
    <2>1. current' \in Topics \cup {NoTopic}
      BY <1>8 DEF Point, TypeOK, Request
    <2> QED
      BY <1>8, <2>1 DEF Point, TypeOK, people, board
  <1>9. ASSUME Abort(h) PROVE TypeOK'
    BY <1>9, StillType DEF Abort, Answer
  <1> QED
    BY <1>1, <1>2, <1>3, <1>4, <1>6, <1>7, <1>8, <1>9

LEMMA HostWriteType == ASSUME TypeOK, HostWrite PROVE TypeOK'
  <1>1. ASSUME NEW t \in Topics, ResetTopic(t) PROVE TypeOK'
    BY <1>1, FreshType, NoCardsType DEF ResetTopic, TypeOK, room, people
  <1>2. ASSUME NEW d \in Decks, SetDeck(d) PROVE TypeOK'
    BY <1>2, DeckAssumption DEF SetDeck, TypeOK, people, board
  <1>3. ASSUME NEW auto \in BOOLEAN, UpdateRoomSettings(auto) PROVE TypeOK'
    BY <1>3 DEF UpdateRoomSettings, TypeOK, people, board
  <1>4. ASSUME NEW p \in Players, KickParticipant(p) PROVE TypeOK'
    <2>1. votes' \in [Topics -> [Players -> Cards \cup {NoCard}]]
      BY <1>4 DEF KickParticipant, TypeOK
    <2> QED
      BY <1>4, <2>1 DEF KickParticipant, TypeOK, room
  <1> QED
    BY <1>1, <1>2, <1>3, <1>4 DEF HostWrite

LEMMA MembershipType == ASSUME TypeOK, Membership PROVE TypeOK'
  <1>1. ASSUME NEW p \in Players, NEW b \in BOOLEAN, JoinRoom(p, b)
        PROVE  TypeOK'
    BY <1>1 DEF JoinRoom, TypeOK, room, board
  <1>2. ASSUME NEW p \in Players, NEW b \in BOOLEAN, UpdateProfile(p, b)
        PROVE  TypeOK'
    BY <1>2 DEF UpdateProfile, TypeOK, room, board
  <1>3. ASSUME NEW p \in Players, Connect(p) \/ Disconnect(p) PROVE TypeOK'
    BY <1>3 DEF Connect, Disconnect, TypeOK, room, board
  <1> QED
    BY <1>1, <1>2, <1>3 DEF Membership

LEMMA NextType == ASSUME TypeOK, [Next]_vars PROVE TypeOK'
  <1>1. ASSUME NEW h \in Handlers, Step(h) PROVE TypeOK'
    BY <1>1, CastStepType, OtherStepType DEF Step
  <1>2. CASE UNCHANGED vars
    BY <1>2 DEF vars, TypeOK
  <1> QED
    BY <1>1, <1>2, StartType, OtherStepType, HostWriteType, MembershipType
       DEF Next

\* Every variable keeps its type, in every room and with any number of
\* requests in flight.
THEOREM TypeCorrect == Spec => []TypeOK
  BY InitType, NextType, PTL DEF Spec

-----------------------------------------------------------------------------
\* Cards have owners.

\* The invariant speaks of three variables; a step that changes none of them
\* keeps it.
LEMMA OwnersKept ==
  ASSUME CardsHaveOwners, UNCHANGED <<votes, live, seat>>
  PROVE  CardsHaveOwners'
  BY DEF CardsHaveOwners, HasCard, Seated

LEMMA StepOwners ==
  ASSUME TypeOK, CardsHaveOwners, NEW h \in Handlers, Step(h)
  PROVE  CardsHaveOwners'
  <1>1. CASE CastWrite(h)
    <2>1. UNCHANGED <<live, seat>>
      BY <1>1 DEF CastWrite, people
    <2>2. CASE UNCHANGED votes
      BY <2>1, <2>2, OwnersKept
    <2>3. CASE /\ req[h].t \in live /\ req[h].who \in Seated
               /\ votes' = [votes EXCEPT ![req[h].t][req[h].who] = req[h].card]
      BY <2>1, <2>3 DEF CardsHaveOwners, HasCard, Seated, TypeOK
    <2> QED
      BY <1>1, <2>2, <2>3 DEF CastWrite
  <1>2. CASE ClearWrite(h)
    <2>1. UNCHANGED <<live, seat>>
      BY <1>2 DEF ClearWrite, people
    <2> QED
      BY <1>2, <2>1 DEF ClearWrite, CardsHaveOwners, HasCard, Seated, TypeOK
  <1>3. CASE DeleteWrite(h)
    <2>1. UNCHANGED seat
      BY <1>3 DEF DeleteWrite, people
    <2>2. CASE UNCHANGED board
      BY <2>1, <2>2, OwnersKept DEF board
    <2>3. CASE /\ votes' = [votes EXCEPT ![req[h].t] = NoCards]
               /\ live' = live \ {req[h].t}
      BY <2>1, <2>3 DEF CardsHaveOwners, HasCard, Seated, TypeOK, NoCards
    <2> QED
      BY <1>3, <2>2, <2>3 DEF DeleteWrite
  <1>4. CASE \/ CastRead(h) \/ CastMark(h) \/ CastList(h) \/ CastTally(h)
             \/ Flip(h) \/ FinalizeWrite(h)
    BY <1>4, OwnersKept DEF CastRead, CastMark, CastList, CastTally, Flip,
       FinalizeWrite, people, board
  <1>5. CASE \/ ClearRead(h) \/ RevealRead(h) \/ FinalizeRead(h)
             \/ FocusRead(h) \/ DeletePick(h) \/ Control(h)
             \/ AdvancePick(h) \/ Point(h)
    BY <1>5, OwnersKept DEF ClearRead, RevealRead, FinalizeRead, FocusRead,
       DeletePick, Control, AdvancePick, Point, ReadTopic, people, board
  <1> QED
    BY <1>1, <1>2, <1>3, <1>4, <1>5 DEF Step

LEMMA NextOwners ==
  ASSUME TypeOK, CardsHaveOwners, [Next]_vars
  PROVE  CardsHaveOwners'
  <1>1. ASSUME NEW h \in Handlers, Start(h) \/ Abort(h)
        PROVE  CardsHaveOwners'
    BY <1>1, OwnersKept DEF Start, StartCast, StartClear, StartReveal,
       StartFinalize, StartDelete, StartFocus, StartAdvance, Abort, Answer,
       people, board
  <1>2. CASE HostWrite
    <2>1. ASSUME NEW t \in Topics, ResetTopic(t) PROVE CardsHaveOwners'
      BY <2>1 DEF ResetTopic, CardsHaveOwners, HasCard, Seated, TypeOK,
         NoCards, people
    <2>2. ASSUME NEW d \in Decks, SetDeck(d) PROVE CardsHaveOwners'
      BY <2>2, OwnersKept DEF SetDeck, people, board
    <2>3. ASSUME NEW auto \in BOOLEAN, UpdateRoomSettings(auto)
          PROVE  CardsHaveOwners'
      BY <2>3, OwnersKept DEF UpdateRoomSettings, people, board
    <2>4. ASSUME NEW p \in Players, KickParticipant(p) PROVE CardsHaveOwners'
      BY <2>4 DEF KickParticipant, CardsHaveOwners, HasCard, Seated, TypeOK
    <2> QED
      BY <1>2, <2>1, <2>2, <2>3, <2>4 DEF HostWrite
  <1>3. CASE Membership
    <2>1. ASSUME NEW p \in Players, NEW b \in BOOLEAN, JoinRoom(p, b)
          PROVE  CardsHaveOwners'
      BY <2>1 DEF JoinRoom, CardsHaveOwners, HasCard, Seated, TypeOK, board
    <2>2. ASSUME NEW p \in Players, NEW b \in BOOLEAN, UpdateProfile(p, b)
          PROVE  CardsHaveOwners'
      BY <2>2, OwnersKept DEF UpdateProfile, board
    <2>3. ASSUME NEW p \in Players, Connect(p) \/ Disconnect(p)
          PROVE  CardsHaveOwners'
      BY <2>3, OwnersKept DEF Connect, Disconnect, board
    <2> QED
      BY <1>3, <2>1, <2>2, <2>3 DEF Membership
  <1>4. CASE UNCHANGED vars
    BY <1>4, OwnersKept DEF vars
  <1> QED
    BY <1>1, <1>2, <1>3, <1>4, StepOwners DEF Next

\* No card outlives its topic or its author.
THEOREM OwnersAlways == Spec => []CardsHaveOwners
  <1>1. Init => CardsHaveOwners
    BY DEF Init, CardsHaveOwners, HasCard, NoCards
  <1> QED
    BY <1>1, NextOwners, TypeCorrect, PTL DEF Spec

-----------------------------------------------------------------------------
\* The columns of a topic agree.

\* A finalize request carries a card that can be a result: the strengthening
\* that makes ColumnsAgree inductive.
ResultInHand ==
  \A h \in Handlers : req[h].op = "finalize" => req[h].card \in Estimates

LEMMA ColumnsKept ==
  ASSUME ColumnsAgree, UNCHANGED topic
  PROVE  ColumnsAgree'
  BY DEF ColumnsAgree

\* What one topic's columns must satisfy, so that a write of one row is checked
\* on that row alone.
RowAgrees(row) ==
  /\ row.status = "estimated" => row.final \in Estimates
  /\ row.status = "revealed" => row.revealedAt
  /\ row.status = "voting" => ~row.revealedAt
  /\ row.status = "pending" => row = Fresh

LEMMA RowWrite ==
  ASSUME TypeOK, ColumnsAgree, NEW t \in Topics, NEW row,
         RowAgrees(row), topic' = [topic EXCEPT ![t] = row]
  PROVE  ColumnsAgree'
  BY DEF ColumnsAgree, RowAgrees, TypeOK

LEMMA StepColumns ==
  ASSUME TypeOK, ColumnsAgree, ResultInHand, NEW h \in Handlers, Step(h)
  PROVE  ColumnsAgree'
  <1>1. RowAgrees(Fresh)
    BY DEF RowAgrees, Fresh
  <1>2. CASE CastMark(h)
    <2>1. CASE UNCHANGED topic
      BY <2>1, ColumnsKept
    <2>2. CASE /\ req[h].t \in live
               /\ topic' = [topic EXCEPT ![req[h].t].status = "voting",
                                         ![req[h].t].revealedAt = FALSE]
      <3>1. req[h].t \in Topics
        BY <2>2 DEF TypeOK
      <3>2. topic' = [topic EXCEPT ![req[h].t] =
                        [topic[req[h].t] EXCEPT !.status = "voting",
                                                !.revealedAt = FALSE]]
        BY <2>2, <3>1 DEF TypeOK
      <3>3. RowAgrees([topic[req[h].t] EXCEPT !.status = "voting",
                                              !.revealedAt = FALSE])
        BY <3>1 DEF RowAgrees, TypeOK
      <3> QED
        BY <3>1, <3>2, <3>3, RowWrite
    <2> QED
      BY <1>2, <2>1, <2>2 DEF CastMark
  <1>3. CASE Flip(h)
    <2>1. CASE UNCHANGED topic
      BY <2>1, ColumnsKept
    <2>2. CASE /\ req[h].t \in live
               /\ topic' = [topic EXCEPT ![req[h].t].status = "revealed",
                                         ![req[h].t].revealedAt = TRUE]
      <3>1. req[h].t \in Topics
        BY <2>2 DEF TypeOK
      <3>2. topic' = [topic EXCEPT ![req[h].t] =
                        [topic[req[h].t] EXCEPT !.status = "revealed",
                                                !.revealedAt = TRUE]]
        BY <2>2, <3>1 DEF TypeOK
      <3>3. RowAgrees([topic[req[h].t] EXCEPT !.status = "revealed",
                                              !.revealedAt = TRUE])
        BY <3>1 DEF RowAgrees, TypeOK
      <3> QED
        BY <3>1, <3>2, <3>3, RowWrite
    <2> QED
      BY <1>3, <2>1, <2>2 DEF Flip
  <1>4. CASE FinalizeWrite(h)
    <2>1. CASE UNCHANGED topic
      BY <2>1, ColumnsKept
    <2>2. CASE /\ req[h].t \in live
               /\ topic' = [topic EXCEPT ![req[h].t].status = "estimated",
                                         ![req[h].t].final = req[h].card]
      <3>1. req[h].t \in Topics /\ req[h].card \in Estimates
        BY <1>4, <2>2 DEF TypeOK, FinalizeWrite, At, ResultInHand
      <3>2. topic' = [topic EXCEPT ![req[h].t] =
                        [topic[req[h].t] EXCEPT !.status = "estimated",
                                                !.final = req[h].card]]
        BY <2>2, <3>1 DEF TypeOK
      <3>3. RowAgrees([topic[req[h].t] EXCEPT !.status = "estimated",
                                              !.final = req[h].card])
        BY <3>1 DEF RowAgrees, TypeOK
      <3> QED
        BY <3>1, <3>2, <3>3, RowWrite
    <2> QED
      BY <1>4, <2>1, <2>2 DEF FinalizeWrite
  <1>5. CASE DeleteWrite(h)
    <2>1. CASE UNCHANGED board
      BY <2>1, ColumnsKept DEF board
    <2>2. CASE req[h].t \in live /\ topic' = [topic EXCEPT ![req[h].t] = Fresh]
      BY <1>1, <2>2, RowWrite DEF TypeOK
    <2> QED
      BY <1>5, <2>1, <2>2 DEF DeleteWrite
  <1>6. CASE \/ CastRead(h) \/ CastWrite(h) \/ CastList(h) \/ CastTally(h)
             \/ ClearWrite(h)
    BY <1>6, ColumnsKept DEF CastRead, CastWrite, CastList, CastTally,
       ClearWrite, board
  <1>7. CASE \/ ClearRead(h) \/ RevealRead(h) \/ FinalizeRead(h)
             \/ FocusRead(h) \/ DeletePick(h) \/ Control(h)
             \/ AdvancePick(h) \/ Point(h)
    BY <1>7, ColumnsKept DEF ClearRead, RevealRead, FinalizeRead, FocusRead,
       DeletePick, Control, AdvancePick, Point, ReadTopic, board
  <1> QED
    BY <1>2, <1>3, <1>4, <1>5, <1>6, <1>7 DEF Step

\* A request keeps its kind, its card and its view of auto-reveal until it is
\* answered, and a step of one request leaves the others alone.
LEMMA StepKeepsRequest ==
  ASSUME TypeOK, NEW h \in Handlers, Step(h)
  PROVE  \A k \in Handlers :
           \/ req'[k] = req[k]
           \/ k = h /\ req'[k] = Idle
           \/ /\ k = h
              /\ req'[k].op = req[k].op /\ req'[k].card = req[k].card
              /\ req'[k].auto = req[k].auto
  <1>1. \/ Finish(h)
        \/ \E pc \in PCs : Goto(h, pc)
        \/ req' = [req EXCEPT ![h].pc = "write",
                              ![h].seen = topic[req[h].t].status]
        \/ req' = [req EXCEPT ![h].pc = "tally",
                              ![h].expected = ExpectedVoters]
        \/ \E t \in Topics \cup {NoTopic} :
             req' = [req EXCEPT ![h].pc = "point", ![h].t = t]
    <2>1. CASE CastRead(h) \/ CastList(h)
      BY <2>1 DEF CastRead, CastList
    <2>2. CASE CastWrite(h) \/ CastMark(h) \/ CastTally(h)
      BY <2>2 DEF CastWrite, CastMark, CastTally, SeekReveal, PCs
    <2>3. CASE Flip(h) \/ ClearWrite(h) \/ FinalizeWrite(h) \/ Point(h)
      BY <2>3 DEF Flip, ClearWrite, FinalizeWrite, Point
    <2>4. CASE ClearRead(h) \/ RevealRead(h) \/ FinalizeRead(h) \/ FocusRead(h)
      BY <2>4 DEF ClearRead, RevealRead, FinalizeRead, FocusRead, ReadTopic,
         PCs
    <2>5. CASE DeleteWrite(h) \/ Control(h)
      BY <2>5 DEF DeleteWrite, Control, PCs
    <2>6. CASE DeletePick(h) \/ AdvancePick(h)
      BY <2>6 DEF DeletePick, AdvancePick, TypeOK
    <2> QED
      BY <2>1, <2>2, <2>3, <2>4, <2>5, <2>6 DEF Step
  <1> QED
    BY <1>1 DEF TypeOK, Request, Finish, Goto

LEMMA NextResultInHand ==
  ASSUME TypeOK, ResultInHand, [Next]_vars
  PROVE  ResultInHand'
  <1>1. ASSUME NEW h \in Handlers, Step(h) PROVE ResultInHand'
    BY <1>1, StepKeepsRequest DEF ResultInHand, Idle
  <1>2. ASSUME NEW h \in Handlers, Start(h) PROVE ResultInHand'
    <2>1. CASE StartFinalize(h)
      <3>1. PICK t \in Topics, c \in deck \ Escapes :
              Serve(h, [Idle EXCEPT !.op = "finalize", !.pc = "read", !.t = t,
                                    !.card = c])
        BY <2>1 DEF StartFinalize
      <3>2. c \in Estimates
        BY DEF TypeOK, Cards
      <3> QED
        BY <3>1, <3>2 DEF Serve, Idle, ResultInHand, TypeOK
    <2>2. CASE \/ StartCast(h) \/ StartClear(h) \/ StartReveal(h)
               \/ StartDelete(h) \/ StartFocus(h) \/ StartAdvance(h)
      <3>1. \E r : r.op # "finalize" /\ req' = [req EXCEPT ![h] = r]
        BY <2>2, ZenonT(60) DEF StartCast, StartClear, StartReveal, StartDelete,
           StartFocus, StartAdvance, Serve, Idle
      <3> QED
        BY <3>1 DEF ResultInHand, TypeOK
    <2> QED
      BY <1>2, <2>1, <2>2 DEF Start
  <1>3. ASSUME NEW h \in Handlers, Abort(h) PROVE ResultInHand'
    BY <1>3 DEF Abort, Answer, Finish, ResultInHand, Idle, TypeOK
  <1>4. CASE HostWrite \/ Membership \/ UNCHANGED vars
    BY <1>4 DEF HostWrite, Membership, ResetTopic, SetDeck,
       UpdateRoomSettings, KickParticipant, JoinRoom, UpdateProfile, Connect,
       Disconnect, vars, ResultInHand
  <1> QED
    BY <1>1, <1>2, <1>3, <1>4 DEF Next

LEMMA NextColumns ==
  ASSUME TypeOK, ColumnsAgree, ResultInHand, [Next]_vars
  PROVE  ColumnsAgree'
  <1>1. ASSUME NEW h \in Handlers, Start(h) \/ Abort(h) PROVE ColumnsAgree'
    BY <1>1, ColumnsKept DEF Start, StartCast, StartClear, StartReveal,
       StartFinalize, StartDelete, StartFocus, StartAdvance, Abort, Answer,
       board
  <1>2. ASSUME NEW t \in Topics, ResetTopic(t) PROVE ColumnsAgree'
    <2>1. RowAgrees(Fresh)
      BY DEF RowAgrees, Fresh
    <2> QED
      BY <1>2, <2>1, RowWrite DEF ResetTopic
  <1>3. ASSUME NEW d \in Decks, SetDeck(d) PROVE ColumnsAgree'
    BY <1>3, ColumnsKept DEF SetDeck, board
  <1>4. ASSUME NEW auto \in BOOLEAN, UpdateRoomSettings(auto)
        PROVE  ColumnsAgree'
    BY <1>4, ColumnsKept DEF UpdateRoomSettings, board
  <1>5. ASSUME NEW p \in Players, KickParticipant(p) PROVE ColumnsAgree'
    BY <1>5, ColumnsKept DEF KickParticipant
  <1>6. CASE Membership
    BY <1>6, ColumnsKept DEF Membership, JoinRoom, UpdateProfile, Connect,
       Disconnect, board
  <1>7. CASE UNCHANGED vars
    BY <1>7, ColumnsKept DEF vars
  <1> QED
    BY <1>1, <1>2, <1>3, <1>4, <1>5, <1>6, <1>7, StepColumns
       DEF Next, HostWrite

\* Under any interleaving, and wherever requests stop, a topic's status, reveal
\* time and result fit together.
THEOREM ColumnsAlwaysAgree == Spec => []ColumnsAgree
  <1>1. Init => ColumnsAgree /\ ResultInHand
    BY DEF Init, ColumnsAgree, ResultInHand, Fresh, Idle
  <1>2. TypeOK /\ ColumnsAgree /\ ResultInHand /\ [Next]_vars
          => ColumnsAgree' /\ ResultInHand'
    BY NextColumns, NextResultInHand
  <1> QED
    BY <1>1, <1>2, TypeCorrect, PTL DEF Spec

-----------------------------------------------------------------------------
\* The last vote is never overlooked.

\* A room as README.md describes auto-reveal: switched on, with nobody leaving
\* or changing connection or role, and with no request stopping half way.
Steady ==
  /\ Autos = {TRUE}
  /\ Ops \cap {"kick", "profile", "settings", "connect", "disconnect", "abort"}
       = {}

\* Request h will turn t face up, or find that somebody has not voted.
Owes(h, t) ==
  /\ req[h].t = t
  /\ \/ req[h].op = "cast" /\ req[h].pc \in {"mark", "list", "tally"}
     \/ req[h].pc = "flip"

\* The inductive invariant.  While a topic on which everybody has voted is face
\* down, a request still owes it the reveal; RevealNotMissed says so only of
\* the end, when no request is in flight.  A voter that has been counted is
\* still awaited, because nobody leaves.
RevealOwed ==
  /\ autoReveal
  /\ \A h \in Handlers :
       /\ req[h].op = "cast" => req[h].auto
       /\ req[h].op = "cast" /\ req[h].pc = "tally"
            => req[h].expected \subseteq ExpectedVoters
  /\ \A t \in live :
       AllVoted(t) /\ ~FaceUp(t) => \E h \in Handlers : Owes(h, t)

LEMMA OwedSuffices == RevealOwed => RevealNotMissed
  BY DEF RevealOwed, RevealNotMissed, Quiet, Owes, Idle

\* A step of a request changes neither who is seated nor who is awaited.
LEMMA StepVoters ==
  ASSUME NEW h \in Handlers, Step(h)
  PROVE  /\ UNCHANGED <<mode, autoReveal, deck, people>>
         /\ ExpectedVoters' = ExpectedVoters
         /\ live' \subseteq live
  <1>1. UNCHANGED <<mode, autoReveal, deck, people>> /\ live' \subseteq live
    <2>1. CASE \/ CastRead(h) \/ CastWrite(h) \/ CastMark(h) \/ CastList(h)
               \/ CastTally(h) \/ Flip(h)
      BY <2>1 DEF CastRead, CastWrite, CastMark, CastList, CastTally, Flip,
         room, board
    <2>2. CASE \/ ClearRead(h) \/ ClearWrite(h) \/ RevealRead(h)
               \/ FinalizeRead(h) \/ FinalizeWrite(h) \/ DeleteWrite(h)
      BY <2>2 DEF ClearRead, ClearWrite, RevealRead, FinalizeRead,
         FinalizeWrite, DeleteWrite, ReadTopic, room, board
    <2>3. CASE \/ DeletePick(h) \/ Control(h) \/ FocusRead(h)
               \/ AdvancePick(h) \/ Point(h)
      BY <2>3 DEF DeletePick, Control, FocusRead, AdvancePick, Point,
         ReadTopic, room, board
    <2> QED
      BY <2>1, <2>2, <2>3 DEF Step
  <1> QED
    BY <1>1 DEF ExpectedVoters, Seated, people

\* If a topic was owed its reveal before a step of h, and not by h, it still is.
LEMMA OthersOwe ==
  ASSUME TypeOK, RevealOwed, NEW h \in Handlers, Step(h),
         NEW t \in live, AllVoted(t), ~FaceUp(t), ~Owes(h, t)
  PROVE  \E k \in Handlers : Owes(k, t)'
  <1>1. PICK k \in Handlers : Owes(k, t)
    BY DEF RevealOwed
  <1>2. req'[k] = req[k]
    BY <1>1, StepKeepsRequest
  <1> QED
    BY <1>1, <1>2 DEF Owes

\* The heart of the argument: a step of h leaves every such topic owed.
LEMMA StepOwed ==
  ASSUME TypeOK, RevealOwed, NEW h \in Handlers, Step(h),
         NEW t \in live', AllVoted(t)', ~FaceUp(t)'
  PROVE  \E k \in Handlers : Owes(k, t)'
  <1>1. t \in live /\ t \in Topics /\ ExpectedVoters' = ExpectedVoters
    BY StepVoters DEF TypeOK
  <1> DEFINE r == req[h]
  <1>2. r \in Request /\ (r.op = "cast" => r.auto)
    BY DEF TypeOK, RevealOwed
  <1>3. ASSUME UNCHANGED board, ~Owes(h, t)
        PROVE  \E k \in Handlers : Owes(k, t)'
    <2>1. AllVoted(t) /\ ~FaceUp(t)
      BY <1>1, <1>3 DEF AllVoted, HasCard, FaceUp, board
    <2> QED
      BY <1>1, <1>3, <2>1, OthersOwe
  <1>4. CASE CastRead(h)
    BY <1>3, <1>4 DEF CastRead, At, Owes
  <1>5. CASE CastWrite(h)
    <2>1. CASE /\ r.t = t
               /\ Goto(h, "mark") \/ Goto(h, "list")
      BY <1>5, <2>1 DEF CastWrite, At, Goto, Owes, TypeOK, Request
    <2>2. CASE r.t # t
      <3>1. AllVoted(t) /\ ~FaceUp(t)
        BY <1>1, <1>5, <2>2 DEF CastWrite, AllVoted, HasCard, FaceUp, TypeOK
      <3>2. ~Owes(h, t)
        BY <2>2 DEF Owes
      <3> QED
        BY <1>1, <3>1, <3>2, OthersOwe
    <2>3. CASE UNCHANGED votes
      BY <1>3, <1>5, <2>3 DEF CastWrite, At, Owes, board
    <2> QED
      BY <1>2, <1>5, <2>1, <2>2, <2>3 DEF CastWrite, SeekReveal, At
  <1>6. CASE CastMark(h)
    <2>1. CASE r.t = t
      <3>1. Goto(h, "list")
        BY <1>1, <1>2, <1>6, <2>1 DEF CastMark, SeekReveal, At
      <3> QED
        BY <1>6, <2>1, <3>1 DEF CastMark, At, Goto, Owes, TypeOK, Request
    <2>2. CASE r.t # t
      <3>1. AllVoted(t) /\ ~FaceUp(t)
        BY <1>1, <1>6, <2>2 DEF CastMark, AllVoted, HasCard, FaceUp, TypeOK
      <3>2. ~Owes(h, t)
        BY <2>2 DEF Owes
      <3> QED
        BY <1>1, <3>1, <3>2, OthersOwe
    <2> QED
      BY <2>1, <2>2
  <1>7. CASE CastList(h)
    <2>1. CASE r.t = t
      <3>1. req' = [req EXCEPT ![h].pc = "tally",
                               ![h].expected = ExpectedVoters]
        BY <1>1, <1>7 DEF CastList, AllVoted
      <3> QED
        BY <1>7, <2>1, <3>1 DEF CastList, At, Owes, TypeOK, Request
    <2>2. CASE r.t # t
      BY <1>3, <1>7, <2>2 DEF CastList, Owes
    <2> QED
      BY <2>1, <2>2
  <1>8. CASE CastTally(h)
    <2>1. CASE r.t = t
      <3>1. r.expected \subseteq ExpectedVoters
        BY <1>8 DEF RevealOwed, CastTally, At
      <3>2. \A p \in ExpectedVoters : HasCard(t, p)
        BY <1>1, <1>8 DEF CastTally, AllVoted, HasCard, board
      <3>3. Goto(h, "flip")
        BY <1>8, <2>1, <3>1, <3>2 DEF CastTally
      <3> QED
        BY <1>8, <2>1, <3>3 DEF CastTally, At, Goto, Owes, TypeOK, Request
    <2>2. CASE r.t # t
      BY <1>3, <1>8, <2>2 DEF CastTally, Owes
    <2> QED
      BY <2>1, <2>2
  <1>9. CASE Flip(h)
    <2>1. r.t # t
      BY <1>1, <1>9 DEF Flip, FaceUp, TypeOK
    <2>2. AllVoted(t) /\ ~FaceUp(t)
      BY <1>1, <1>9, <2>1 DEF Flip, AllVoted, HasCard, FaceUp, TypeOK
    <2> QED
      BY <1>1, <2>1, <2>2, OthersOwe DEF Owes
  <1>10. CASE ClearWrite(h) \/ FinalizeWrite(h)
    <2>1. AllVoted(t)
      <3>1. \A p \in Players : votes'[t][p] # NoCard => votes[t][p] # NoCard
        <4>1. CASE FinalizeWrite(h)
          BY <4>1 DEF FinalizeWrite
        <4>2. CASE ClearWrite(h)
          <5>1. votes' = [votes EXCEPT ![r.t][r.who] = NoCard]
            BY <4>2 DEF ClearWrite
          <5> QED
            BY <1>1, <5>1 DEF TypeOK
        <4> QED
          BY <1>10, <4>1, <4>2
      <3> QED
        BY <1>1, <3>1 DEF AllVoted, HasCard, ExpectedVoters, Seated
    <2>2. ~FaceUp(t)
      BY <1>1, <1>10 DEF ClearWrite, FinalizeWrite, FaceUp, TypeOK
    <2> QED
      BY <1>1, <1>10, <2>1, <2>2, OthersOwe
         DEF ClearWrite, FinalizeWrite, At, Owes
  <1>11. CASE DeleteWrite(h)
    <2>1. CASE UNCHANGED board
      BY <1>3, <1>11, <2>1 DEF DeleteWrite, At, Owes
    <2>2. CASE /\ live' = live \ {r.t}
               /\ topic' = [topic EXCEPT ![r.t] = Fresh]
               /\ votes' = [votes EXCEPT ![r.t] = NoCards]
      <3>1. r.t # t
        BY <2>2
      <3>2. AllVoted(t) /\ ~FaceUp(t)
        BY <1>1, <2>2, <3>1 DEF AllVoted, HasCard, FaceUp, TypeOK
      <3> QED
        BY <1>1, <3>1, <3>2, OthersOwe DEF Owes
    <2> QED
      BY <1>11, <2>1, <2>2 DEF DeleteWrite
  <1>12. CASE \/ ClearRead(h) \/ RevealRead(h) \/ FinalizeRead(h)
              \/ FocusRead(h)
    BY <1>3, <1>12 DEF ClearRead, RevealRead, FinalizeRead, FocusRead,
       ReadTopic, At, Owes
  <1>13. CASE DeletePick(h) \/ Control(h) \/ AdvancePick(h) \/ Point(h)
    BY <1>3, <1>13 DEF DeletePick, Control, AdvancePick, Point, At, Owes
  <1> QED
    BY <1>4, <1>5, <1>6, <1>7, <1>8, <1>9, <1>10, <1>11, <1>12, <1>13 DEF Step

LEMMA OwedByStep ==
  ASSUME TypeOK, RevealOwed, NEW h \in Handlers, Step(h)
  PROVE  RevealOwed'
  <1>1. autoReveal'
    BY StepVoters DEF RevealOwed
  <1>2. ASSUME NEW k \in Handlers, req'[k].op = "cast" PROVE req'[k].auto
    BY <1>2, StepKeepsRequest DEF RevealOwed, Idle
  <1>3. ASSUME NEW k \in Handlers, req'[k].op = "cast", req'[k].pc = "tally"
        PROVE  req'[k].expected \subseteq ExpectedVoters'
    <2>1. CASE req'[k] = req[k]
      BY <1>3, <2>1, StepVoters DEF RevealOwed
    <2>2. CASE CastList(h) /\ k = h
      BY <1>3, <2>2, StepVoters DEF CastList, Finish, Idle, TypeOK, Request
    <2>3. CASE ~CastList(h) /\ k = h
      <3>1. req'[h].pc # "tally"
        <4>1. CASE \/ CastRead(h) \/ CastWrite(h) \/ CastMark(h)
                   \/ CastTally(h) \/ Flip(h)
          BY <4>1 DEF CastRead, CastWrite, CastMark, CastTally, Flip,
             SeekReveal, Goto, Finish, Idle, TypeOK, Request
        <4>2. CASE \/ ClearRead(h) \/ ClearWrite(h) \/ RevealRead(h)
                   \/ FinalizeRead(h) \/ FinalizeWrite(h)
          BY <4>2 DEF ClearRead, ClearWrite, RevealRead, FinalizeRead,
             FinalizeWrite, ReadTopic, Goto, Finish, Idle, TypeOK, Request
        <4>3. CASE \/ DeleteWrite(h) \/ DeletePick(h) \/ Control(h)
                   \/ FocusRead(h) \/ AdvancePick(h) \/ Point(h)
          BY <4>3 DEF DeleteWrite, DeletePick, Control, FocusRead,
             AdvancePick, Point, ReadTopic, Goto, Finish, Idle, TypeOK, Request
        <4> QED
          BY <2>3, <4>1, <4>2, <4>3 DEF Step
      <3> QED
        BY <1>3, <2>3, <3>1
    <2> QED
      BY <2>1, <2>2, <2>3, StepKeepsRequest
  <1> QED
    BY <1>1, <1>2, <1>3, StepOwed DEF RevealOwed

LEMMA ServeShape ==
  ASSUME TypeOK, NEW h \in Handlers, NEW r, Serve(h, r)
  PROVE  req[h] = Idle /\ req'[h] = r
  BY DEF Serve, TypeOK

\* A request starts at its first statement, and only a vote starts as a vote.
LEMMA StartShape ==
  ASSUME TypeOK, NEW h \in Handlers, Start(h)
  PROVE  /\ req[h] = Idle
         /\ req'[h].pc # "tally"
         /\ req'[h].op = "cast" => StartCast(h)
  <1>1. CASE StartCast(h)
    <2>1. PICK p \in Seated \ watching, t \in Topics, c \in deck :
            Serve(h, [Idle EXCEPT !.op = "cast", !.pc = "read", !.who = p,
                                  !.t = t, !.card = c, !.auto = autoReveal])
      BY <1>1 DEF StartCast
    <2>2. /\ req[h] = Idle
          /\ req'[h] =
               [Idle EXCEPT !.op = "cast", !.pc = "read", !.who = p, !.t = t,
                             !.card = c, !.auto = autoReveal]
      BY <2>1, ServeShape
    <2> QED
      BY <1>1, <2>2 DEF Idle
  <1>2. CASE StartClear(h)
    <2>1. PICK p \in Seated, t \in Topics :
            Serve(h, [Idle EXCEPT !.op = "clear", !.pc = "read", !.who = p,
                                  !.t = t])
      BY <1>2 DEF StartClear
    <2>2. /\ req[h] = Idle
          /\ req'[h] =
               [Idle EXCEPT !.op = "clear", !.pc = "read", !.who = p, !.t = t]
      BY <2>1, ServeShape
    <2> QED
      BY <2>2 DEF Idle
  <1>3. CASE StartReveal(h)
    <2>1. PICK t \in Topics :
            Serve(h, [Idle EXCEPT !.op = "reveal", !.pc = "read", !.t = t])
      BY <1>3 DEF StartReveal
    <2>2. /\ req[h] = Idle
          /\ req'[h] =
               [Idle EXCEPT !.op = "reveal", !.pc = "read", !.t = t]
      BY <2>1, ServeShape
    <2> QED
      BY <2>2 DEF Idle
  <1>4. CASE StartFinalize(h)
    <2>1. PICK t \in Topics, c \in deck \ Escapes :
            Serve(h, [Idle EXCEPT !.op = "finalize", !.pc = "read", !.t = t,
                                  !.card = c])
      BY <1>4 DEF StartFinalize
    <2>2. /\ req[h] = Idle
          /\ req'[h] =
               [Idle EXCEPT !.op = "finalize", !.pc = "read", !.t = t,
                             !.card = c]
      BY <2>1, ServeShape
    <2> QED
      BY <2>2 DEF Idle
  <1>5. CASE StartDelete(h)
    <2>1. PICK t \in Topics :
            Serve(h, [Idle EXCEPT !.op = "delete", !.pc = "write", !.t = t,
                                  !.cur = current])
      BY <1>5 DEF StartDelete
    <2>2. /\ req[h] = Idle
          /\ req'[h] =
               [Idle EXCEPT !.op = "delete", !.pc = "write", !.t = t,
                             !.cur = current]
      BY <2>1, ServeShape
    <2> QED
      BY <2>2 DEF Idle
  <1>6. CASE StartFocus(h)
    <2>1. PICK p \in Seated, t \in Topics :
            Serve(h, [Idle EXCEPT !.op = "focus", !.pc = ControlPC(p, "read"),
                                  !.who = p, !.t = t, !.cur = current])
      BY <1>6 DEF StartFocus
    <2>2. /\ req[h] = Idle
          /\ req'[h] =
               [Idle EXCEPT !.op = "focus", !.pc = ControlPC(p, "read"),
                             !.who = p, !.t = t, !.cur = current]
      BY <2>1, ServeShape
    <2> QED
      BY <2>2 DEF Idle, ControlPC
  <1>7. CASE StartAdvance(h)
    <2>1. PICK p \in Seated, direction \in {"next", "prev"} :
            Serve(h, [Idle EXCEPT !.op = direction,
                                  !.pc = ControlPC(p, "pick"),
                                  !.who = p, !.cur = current])
      BY <1>7 DEF StartAdvance
    <2>2. /\ req[h] = Idle
          /\ req'[h] =
               [Idle EXCEPT !.op = direction, !.pc = ControlPC(p, "pick"),
                             !.who = p, !.cur = current]
      BY <2>1, ServeShape
    <2> QED
      BY <2>2 DEF Idle, ControlPC
  <1> QED
    BY <1>1, <1>2, <1>3, <1>4, <1>5, <1>6, <1>7 DEF Start

LEMMA OwedByOthers ==
  ASSUME TypeOK, CardsHaveOwners, RevealOwed, Steady, [Next]_vars,
         ~\E h \in Handlers : Step(h)
  PROVE  RevealOwed'
  <1>1. ASSUME NEW h \in Handlers, Start(h) PROVE RevealOwed'
    <2>1. UNCHANGED <<room, people, board>>
      BY <1>1 DEF Start, StartCast, StartClear, StartReveal, StartFinalize,
         StartDelete, StartFocus, StartAdvance
    <2>2. req[h] = Idle /\ req'[h].pc # "tally"
      BY <1>1, StartShape
    <2>3. req'[h].op = "cast" => req'[h].auto
      <3>1. CASE StartCast(h)
        BY <3>1 DEF StartCast, Serve, Idle, RevealOwed, TypeOK
      <3>2. CASE ~StartCast(h)
        BY <1>1, <3>2, StartShape
      <3> QED
        BY <3>1, <3>2
    <2>4. \A k \in Handlers : k # h => req'[k] = req[k]
      BY <1>1 DEF Start, StartCast, StartClear, StartReveal, StartFinalize,
         StartDelete, StartFocus, StartAdvance, Serve, TypeOK
    <2>5. \A t \in live : AllVoted(t)' /\ ~FaceUp(t)' =>
            \E k \in Handlers : Owes(k, t)'
      <3> SUFFICES ASSUME NEW t \in live, AllVoted(t), ~FaceUp(t)
                   PROVE  \E k \in Handlers : Owes(k, t)'
        BY <2>1 DEF room, people, board, AllVoted, ExpectedVoters, Seated,
           HasCard, FaceUp
      <3>1. PICK k \in Handlers : Owes(k, t)
        BY DEF RevealOwed
      <3>2. k # h
        BY <2>2, <3>1 DEF Owes, Idle
      <3> QED
        BY <2>4, <3>1, <3>2 DEF Owes
    <2>6. UNCHANGED <<autoReveal, live>> /\ ExpectedVoters' = ExpectedVoters
      BY <2>1 DEF room, people, board, ExpectedVoters, Seated
    <2> QED
      BY <2>2, <2>3, <2>4, <2>5, <2>6 DEF RevealOwed
  <1>2. ASSUME NEW t \in Topics, ResetTopic(t) PROVE RevealOwed'
    <2>1. /\ UNCHANGED <<autoReveal, live, req>>
          /\ ExpectedVoters' = ExpectedVoters
      BY <1>2 DEF ResetTopic, room, people, ExpectedVoters, Seated
    <2>2. ~AllVoted(t)'
      BY <1>2, <2>1 DEF ResetTopic, AllVoted, HasCard, NoCards, TypeOK,
         ExpectedVoters, Seated
    <2>3. \A u \in live : u # t =>
            (AllVoted(u)' <=> AllVoted(u)) /\ (FaceUp(u)' <=> FaceUp(u))
      BY <1>2, <2>1 DEF ResetTopic, AllVoted, HasCard, FaceUp, TypeOK
    <2> QED
      BY <2>1, <2>2, <2>3 DEF RevealOwed, Owes
  <1>3. ASSUME NEW d \in Decks, SetDeck(d) PROVE RevealOwed'
    BY <1>3 DEF SetDeck, RevealOwed, Owes, AllVoted, ExpectedVoters, Seated,
       HasCard, FaceUp, people, board
  <1>4. ASSUME NEW p \in Players, NEW b \in BOOLEAN, JoinRoom(p, b)
        PROVE  RevealOwed'
    <2>1. UNCHANGED <<autoReveal, mode, online, live, topic, votes, req>>
      BY <1>4 DEF JoinRoom, room, board
    <2>2. ExpectedVoters \subseteq ExpectedVoters'
      BY <1>4, <2>1 DEF JoinRoom, ExpectedVoters, Seated, TypeOK
    <2>3. \A t \in Topics : votes[t][p] = NoCard
      BY <1>4 DEF JoinRoom, CardsHaveOwners, HasCard, Seated
    <2>4. \A t \in live : AllVoted(t)' => AllVoted(t)
      <3> SUFFICES ASSUME NEW t \in live, AllVoted(t)' PROVE AllVoted(t)
        OBVIOUS
      <3>1. p \notin ExpectedVoters'
        BY <2>1, <2>3 DEF AllVoted, HasCard, TypeOK
      <3>2. ExpectedVoters' \subseteq ExpectedVoters
        BY <1>4, <2>1, <3>1 DEF JoinRoom, ExpectedVoters, Seated, TypeOK
      <3> QED
        BY <2>1, <2>2, <3>2 DEF AllVoted, HasCard
    <2>5. \A t \in live : FaceUp(t)' <=> FaceUp(t)
      BY <2>1 DEF FaceUp
    <2> QED
      BY <2>1, <2>2, <2>4, <2>5 DEF RevealOwed, Owes
  <1>5. CASE UNCHANGED vars
    BY <1>5 DEF vars, RevealOwed, Owes, AllVoted, ExpectedVoters, Seated,
       HasCard, FaceUp
  <1> QED
    BY <1>1, <1>2, <1>3, <1>4, <1>5 DEF Next, HostWrite, Membership, Abort,
       UpdateRoomSettings, KickParticipant, UpdateProfile, Connect,
       Disconnect, Occurs, Steady

\* In a steady room, whatever the number of players and of requests in flight
\* and whatever the order of their statements, the last vote turns the cards.
THEOREM LastVoteReveals == Steady => (Spec => []RevealNotMissed)
  <1> SUFFICES ASSUME Steady PROVE Spec => []RevealNotMissed
    OBVIOUS
  <1>1. Init => RevealOwed
    BY DEF Init, RevealOwed, Idle, AllVoted, HasCard, NoCards, Steady,
       ExpectedVoters, Seated
  <1>2. TypeOK /\ CardsHaveOwners /\ RevealOwed /\ [Next]_vars => RevealOwed'
    BY OwedByStep, OwedByOthers
  <1> QED
    BY <1>1, <1>2, OwedSuffices, TypeCorrect, OwnersAlways, PTL DEF Spec

-----------------------------------------------------------------------------
\* The cards turn by themselves only when they should.

\* A room where no card is withdrawn.
CardsLieStill == Ops \cap {"clear", "reset"} = {}

\* The inductive invariant.  Whoever a vote waits for has, or had, a seat, no
\* takeback is in flight and no vote stores an empty card: so a card that has
\* been tallied lies there when the cards turn, if its topic and its owner are
\* still there.
EarnedInv ==
  /\ AutoRevealEarned
  /\ \A h \in Handlers :
       /\ req[h].op # "clear"
       /\ req[h].op = "cast" => req[h].card \in Cards
       /\ At(h, "cast", "tally") => req[h].expected # {}
       /\ \A p \in req[h].expected : seat[p] # "new"

\* A step takes no card from a topic and a participant that are still there.
CardsRemain ==
  \A t \in live', p \in Seated' :
    seat[p] # "new" =>
      t \in live /\ p \in Seated /\ (HasCard(t, p) => HasCard(t, p)')

LEMMA SameCardsRemain ==
  ASSUME UNCHANGED <<live, seat, votes>>
  PROVE  CardsRemain
  BY DEF CardsRemain, Seated, HasCard

LEMMA StepCardsRemain ==
  ASSUME TypeOK, EarnedInv, NEW h \in Handlers, Step(h)
  PROVE  CardsRemain
  <1>1. CASE CastWrite(h)
    <2>1. UNCHANGED <<live, seat>>
      BY <1>1 DEF CastWrite, people
    <2>2. CASE UNCHANGED votes
      BY <2>1, <2>2, SameCardsRemain
    <2>3. CASE votes' = [votes EXCEPT ![req[h].t][req[h].who] = req[h].card]
      <3>1. req[h].card # NoCard
        BY <1>1, CardAssumption DEF CastWrite, At, EarnedInv
      <3> QED
        BY <2>1, <2>3, <3>1 DEF CardsRemain, Seated, HasCard, TypeOK
    <2> QED
      BY <1>1, <2>2, <2>3 DEF CastWrite
  <1>2. CASE DeleteWrite(h)
    <2>1. UNCHANGED seat
      BY <1>2 DEF DeleteWrite, people
    <2>2. CASE UNCHANGED board
      BY <2>1, <2>2, SameCardsRemain DEF board
    <2>3. CASE /\ votes' = [votes EXCEPT ![req[h].t] = NoCards]
               /\ live' = live \ {req[h].t}
      BY <2>1, <2>3 DEF CardsRemain, HasCard, Seated, TypeOK
    <2> QED
      BY <1>2, <2>2, <2>3 DEF DeleteWrite
  <1>3. CASE ClearWrite(h)
    BY <1>3 DEF ClearWrite, At, EarnedInv
  <1>4. CASE \/ CastRead(h) \/ CastMark(h) \/ CastList(h) \/ CastTally(h)
             \/ Flip(h) \/ FinalizeWrite(h)
    BY <1>4, SameCardsRemain DEF CastRead, CastMark, CastList, CastTally, Flip,
       FinalizeWrite, people, board
  <1>5. CASE \/ ClearRead(h) \/ RevealRead(h) \/ FinalizeRead(h)
             \/ FocusRead(h) \/ DeletePick(h) \/ Control(h)
             \/ AdvancePick(h) \/ Point(h)
    BY <1>5, SameCardsRemain DEF ClearRead, RevealRead, FinalizeRead,
       FocusRead, DeletePick, Control, AdvancePick, Point, ReadTopic, people,
       board
  <1> QED
    BY <1>1, <1>2, <1>3, <1>4, <1>5 DEF Step

LEMMA NextCardsRemain ==
  ASSUME TypeOK, CardsLieStill, EarnedInv, [Next]_vars
  PROVE  CardsRemain
  <1>1. ASSUME NEW h \in Handlers, Start(h) \/ Abort(h) PROVE CardsRemain
    BY <1>1, SameCardsRemain DEF Start, StartCast, StartClear, StartReveal,
       StartFinalize, StartDelete, StartFocus, StartAdvance, Abort, Answer,
       people, board
  <1>2. ASSUME NEW p \in Players, KickParticipant(p) PROVE CardsRemain
    BY <1>2 DEF KickParticipant, CardsRemain, Seated, HasCard, TypeOK
  <1>3. ASSUME NEW p \in Players, NEW b \in BOOLEAN, JoinRoom(p, b)
        PROVE  CardsRemain
    BY <1>3 DEF JoinRoom, CardsRemain, Seated, HasCard, TypeOK, board
  <1>4. CASE \/ \E d \in Decks : SetDeck(d)
             \/ \E auto \in BOOLEAN : UpdateRoomSettings(auto)
             \/ \E p \in Players, b \in BOOLEAN : UpdateProfile(p, b)
             \/ \E p \in Players : Connect(p) \/ Disconnect(p)
             \/ UNCHANGED vars
    BY <1>4, SameCardsRemain DEF SetDeck, UpdateRoomSettings, UpdateProfile,
       Connect, Disconnect, people, board, vars
  <1>5. ~\E t \in Topics : ResetTopic(t)
    BY DEF ResetTopic, CardsLieStill, Occurs
  <1> QED
    BY <1>1, <1>2, <1>3, <1>4, <1>5, StepCardsRemain
       DEF Next, HostWrite, Membership

\* Seats are never given out twice: who has had one is never new again.
LEMMA SeatsAge ==
  ASSUME TypeOK, [Next]_vars
  PROVE  \A p \in Players : seat[p] # "new" => seat'[p] # "new"
  <1>1. ASSUME NEW h \in Handlers, Start(h) \/ Abort(h) PROVE UNCHANGED seat
    BY <1>1 DEF Start, StartCast, StartClear, StartReveal, StartFinalize,
       StartDelete, StartFocus, StartAdvance, Abort, Answer, people
  <1>2. ASSUME NEW h \in Handlers, Step(h) PROVE UNCHANGED seat
    BY <1>2, StepVoters DEF people
  <1>3. CASE HostWrite \/ Membership \/ UNCHANGED vars
    BY <1>3 DEF HostWrite, Membership, ResetTopic, SetDeck,
       UpdateRoomSettings, KickParticipant, JoinRoom, UpdateProfile, Connect,
       Disconnect, people, vars, TypeOK
  <1> QED
    BY <1>1, <1>2, <1>3 DEF Next

\* How a request that goes on comes to its tally and to the reveal.
LEMMA StepExpected ==
  ASSUME TypeOK, NEW h \in Handlers, Step(h), ~Finish(h)
  PROVE  /\ req'[h].op = req[h].op /\ req'[h].card = req[h].card
         /\ \/ req'[h].expected = req[h].expected /\ req'[h].pc # "tally"
            \/ req'[h].expected = ExpectedVoters /\ ExpectedVoters # {}
         /\ req'[h].op = "cast" /\ req'[h].pc = "flip" =>
              /\ At(h, "cast", "tally")
              /\ req'[h].t = req[h].t
              /\ UNCHANGED <<live, seat, votes>>
              /\ req'[h].expected = req[h].expected
              /\ \A p \in req[h].expected : HasCard(req[h].t, p)
  <1>1. req[h] \in Request
    BY DEF TypeOK
  <1>2. CASE CastRead(h)
    BY <1>1, <1>2 DEF CastRead, At, TypeOK, Request
  <1>3. CASE CastWrite(h) \/ CastMark(h)
    <2>1. Goto(h, "mark") \/ Goto(h, "list")
      BY <1>3 DEF CastWrite, CastMark, SeekReveal
    <2> QED
      BY <2>1 DEF Goto, At, TypeOK, Request
  <1>4. CASE CastList(h)
    BY <1>1, <1>4 DEF CastList, At, TypeOK, Request
  <1>5. CASE CastTally(h)
    BY <1>1, <1>5 DEF CastTally, At, Goto, TypeOK, Request, people, board
  <1>6. CASE ClearRead(h) \/ RevealRead(h) \/ FinalizeRead(h) \/ FocusRead(h)
    <2>1. /\ \E pc \in {"write", "flip", "point"} : Goto(h, pc)
          /\ req[h].op # "cast"
      BY <1>6 DEF ClearRead, RevealRead, FinalizeRead, FocusRead, ReadTopic,
         At
    <2> QED
      BY <2>1 DEF Goto, At, TypeOK, Request
  <1>7. CASE DeleteWrite(h) \/ Control(h)
    <2>1. Goto(h, "read") \/ Goto(h, "pick")
      BY <1>7 DEF DeleteWrite, Control
    <2> QED
      BY <2>1 DEF Goto, At, TypeOK, Request
  <1>8. CASE DeletePick(h) \/ AdvancePick(h)
    BY <1>1, <1>8 DEF DeletePick, AdvancePick, At, TypeOK, Request
  <1>9. CASE Flip(h) \/ ClearWrite(h) \/ FinalizeWrite(h) \/ Point(h)
    BY <1>9 DEF Flip, ClearWrite, FinalizeWrite, Point
  <1> QED
    BY <1>2, <1>3, <1>4, <1>5, <1>6, <1>7, <1>8, <1>9 DEF Step

\* A request starts with nobody to wait for, and a vote with a card in hand.
LEMMA StartFresh ==
  ASSUME TypeOK, NEW h \in Handlers, Start(h)
  PROVE  /\ req'[h].expected = {} /\ req'[h].op \in Ops
         /\ req'[h].op = "cast" => req'[h].card \in Cards
         /\ ~(req'[h].op = "cast" /\ req'[h].pc \in {"tally", "flip"})
  <1>1. CASE StartCast(h)
    <2>1. PICK p \in Seated \ watching, t \in Topics, c \in deck :
            Serve(h, [Idle EXCEPT !.op = "cast", !.pc = "read", !.who = p,
                                  !.t = t, !.card = c, !.auto = autoReveal])
      BY <1>1 DEF StartCast
    <2>2. c \in Cards
      BY DEF TypeOK
    <2> QED
      BY <2>1, <2>2 DEF Serve, Occurs, Idle, TypeOK
  <1>2. CASE StartClear(h)
    BY <1>2 DEF StartClear, Serve, Occurs, Idle, TypeOK
  <1>3. CASE StartReveal(h)
    BY <1>3 DEF StartReveal, Serve, Occurs, Idle, TypeOK
  <1>4. CASE StartFinalize(h)
    BY <1>4 DEF StartFinalize, Serve, Occurs, Idle, TypeOK
  <1>5. CASE StartDelete(h)
    BY <1>5 DEF StartDelete, Serve, Occurs, Idle, TypeOK
  <1>6. CASE StartFocus(h)
    BY <1>6 DEF StartFocus, Serve, Occurs, Idle, TypeOK
  <1>7. CASE StartAdvance(h)
    BY <1>7 DEF StartAdvance, Serve, Occurs, Idle, TypeOK
  <1> QED
    BY <1>1, <1>2, <1>3, <1>4, <1>5, <1>6, <1>7 DEF Start

\* EarnedInv, of one request.
Earned(h) ==
  /\ req[h].op # "clear"
  /\ req[h].op = "cast" => req[h].card \in Cards
  /\ At(h, "cast", "tally") => req[h].expected # {}
  /\ \A p \in req[h].expected : seat[p] # "new"
  /\ At(h, "cast", "flip") =>
       /\ req[h].expected # {}
       /\ req[h].t \in live =>
            \A p \in req[h].expected \cap Seated : HasCard(req[h].t, p)

LEMMA EarnedParts == /\ EarnedInv <=> \A h \in Handlers : Earned(h)
                     /\ EarnedInv' <=> \A h \in Handlers : Earned(h)'
  BY DEF EarnedInv, AutoRevealEarned, Earned

\* A request that does not move, and one that is answered, stay earned.
LEMMA StillEarned ==
  ASSUME TypeOK, CardsLieStill, EarnedInv, [Next]_vars,
         NEW h \in Handlers, req'[h] = req[h] \/ req'[h] = Idle
  PROVE  Earned(h)'
  <1>1. CardsRemain /\ \A p \in Players : seat[p] # "new" => seat'[p] # "new"
    BY NextCardsRemain, SeatsAge
  <1>2. req[h].expected \in SUBSET Players /\ Earned(h)
    BY EarnedParts DEF TypeOK, Request
  <1>3. CASE req'[h] = Idle
    BY <1>3 DEF Idle, At, Earned
  <1>4. CASE req'[h] = req[h]
    <2>1. /\ req[h].op # "clear"
          /\ req[h].op = "cast" => req[h].card \in Cards
          /\ At(h, "cast", "tally") => req[h].expected # {}
          /\ At(h, "cast", "flip") => req[h].expected # {}
          /\ \A p \in req[h].expected : seat[p] # "new" /\ seat'[p] # "new"
      BY <1>1, <1>2 DEF Earned
    <2>2. ASSUME At(h, "cast", "flip"), req[h].t \in live',
                 NEW p \in req[h].expected \cap Seated'
          PROVE  votes'[req[h].t][p] # NoCard
      BY <1>1, <1>2, <2>1, <2>2 DEF CardsRemain, Earned, HasCard, Seated
    <2> QED
      BY <1>4, <2>1, <2>2 DEF Earned, At, HasCard
  <1> QED
    BY <1>3, <1>4

LEMMA NextEarned ==
  ASSUME TypeOK, CardsLieStill, EarnedInv, [Next]_vars
  PROVE  EarnedInv'
  <1> SUFFICES ASSUME NEW k \in Handlers PROVE Earned(k)'
    BY EarnedParts
  <1>1. ASSUME NEW h \in Handlers, Step(h) PROVE Earned(k)'
    <2>1. CASE k # h \/ Finish(h)
      <3>1. req'[k] = req[k] \/ req'[k] = Idle
        BY <1>1, <2>1, StepKeepsRequest DEF Finish, TypeOK
      <3> QED
        BY <3>1, StillEarned
    <2>2. CASE k = h /\ ~Finish(h)
      <3>1. Earned(h) /\ UNCHANGED people /\ ExpectedVoters \subseteq Seated
        BY <1>1, EarnedParts, StepVoters DEF ExpectedVoters
      <3>2. \A p \in req'[h].expected : seat'[p] # "new"
        BY <1>1, <2>2, <3>1, StepExpected DEF Earned, Seated, people
      <3>3. At(h, "cast", "tally")' => req'[h].expected # {}
        BY <1>1, <2>2, StepExpected DEF At, Earned
      <3>4. At(h, "cast", "flip")' =>
              /\ req'[h].expected # {}
              /\ \A p \in req'[h].expected : votes'[req'[h].t][p] # NoCard
        BY <1>1, <2>2, <3>1, StepExpected DEF Earned, At, HasCard
      <3> QED
        BY <1>1, <2>2, <3>1, <3>2, <3>3, <3>4, StepExpected
           DEF Earned, At, HasCard
    <2> QED
      BY <2>1, <2>2
  <1>2. ASSUME NEW h \in Handlers, Start(h) PROVE Earned(k)'
    <2>1. CASE k # h
      <3>1. req'[k] = req[k]
        BY <1>2, <2>1 DEF Start, StartCast, StartClear, StartReveal,
           StartFinalize, StartDelete, StartFocus, StartAdvance, Serve, TypeOK
      <3> QED
        BY <3>1, StillEarned
    <2>2. CASE k = h
      <3>1. /\ req'[h].expected = {} /\ req'[h].op \in Ops
            /\ req'[h].op = "cast" => req'[h].card \in Cards
            /\ ~(req'[h].op = "cast" /\ req'[h].pc \in {"tally", "flip"})
        BY <1>2, StartFresh
      <3> QED
        BY <2>2, <3>1 DEF Earned, At, CardsLieStill
    <2> QED
      BY <2>1, <2>2
  <1>3. ASSUME NEW h \in Handlers, Abort(h) PROVE Earned(k)'
    <2>1. req'[k] = req[k] \/ req'[k] = Idle
      BY <1>3 DEF Abort, Answer, Finish, TypeOK
    <2> QED
      BY <2>1, StillEarned
  <1>4. CASE HostWrite \/ Membership \/ UNCHANGED vars
    <2>1. req'[k] = req[k]
      BY <1>4 DEF HostWrite, Membership, ResetTopic, SetDeck,
         UpdateRoomSettings, KickParticipant, JoinRoom, UpdateProfile,
         Connect, Disconnect, vars
    <2> QED
      BY <2>1, StillEarned
  <1> QED
    BY <1>1, <1>2, <1>3, <1>4 DEF Next

\* In a room where no card is withdrawn, whoever joins, leaves, connects or
\* turns observer meanwhile, and whatever the order of the statements, the cards
\* turn by themselves only when all that the vote waited for lie on the table.
THEOREM AutoRevealIsEarned ==
    CardsLieStill => (Spec => []AutoRevealEarned)
  <1> SUFFICES ASSUME CardsLieStill PROVE Spec => []AutoRevealEarned
    OBVIOUS
  <1>1. Init => EarnedInv
    BY DEF Init, EarnedInv, AutoRevealEarned, Idle, At
  <1>2. TypeOK /\ EarnedInv /\ [Next]_vars => EarnedInv'
    BY NextEarned
  <1>3. EarnedInv => AutoRevealEarned
    BY DEF EarnedInv
  <1> QED
    BY <1>1, <1>2, <1>3, TypeCorrect, PTL DEF Spec

-----------------------------------------------------------------------------
\* The room points at a topic that is there.

\* One request at a time, and none that stops half way.
ServedSingly == Serial /\ "abort" \notin Ops

\* A request that has deleted the room's topic and has not moved the room yet.
MovingOn(r) == r.op = "delete" /\ r.pc \in {"pick", "point"}

\* Where a request is about to send the room there is a topic, and a request that
\* deletes knows which topic the room is on.
Guided(r) ==
  /\ r.pc = "point" => r.t \in live \cup {NoTopic}
  /\ r.op = "delete" /\ r.pc = "write" => r.cur = current

OnTopic == current \in live \cup {NoTopic}

RoomInv ==
  /\ \A g, h \in Handlers : req[g] # Idle /\ req[h] # Idle => g = h
  /\ OnTopic \/ \E h \in Handlers : MovingOn(req[h])
  /\ \A h \in Handlers : Guided(req[h])

LEMMA IdleGuided == ~MovingOn(Idle) /\ Guided(Idle) /\ Guided(Idle)'
  BY DEF Idle, MovingOn, Guided

\* The step of the only request there is.
LEMMA StepAlone ==
  ASSUME TypeOK, RoomInv, NEW h \in Handlers, Step(h), req[h] # Idle,
         Guided(req[h])', (OnTopic \/ MovingOn(req[h]))'
  PROVE  RoomInv'
  <1>1. \A g \in Handlers \ {h} : req[g] = Idle /\ req'[g] = Idle
    BY StepKeepsRequest DEF RoomInv
  <1>2. \A g \in Handlers : Guided(req[g])'
    <2>1. ASSUME NEW g \in Handlers \ {h} PROVE Guided(req[g])'
      BY <1>1, IdleGuided DEF Guided
    <2> QED
      BY <2>1
  <1>3. \A f, g \in Handlers : req'[f] # Idle /\ req'[g] # Idle => f = g
    BY <1>1
  <1>4. (OnTopic \/ \E g \in Handlers : MovingOn(req[g]))'
    OBVIOUS
  <1> QED
    BY <1>2, <1>3, <1>4 DEF RoomInv

\* What the request that is under way has kept so far.
LEMMA AloneGuided ==
  ASSUME RoomInv, NEW h \in Handlers, req[h] # Idle
  PROVE  Guided(req[h]) /\ (OnTopic \/ MovingOn(req[h]))
  BY IdleGuided DEF RoomInv

\* The steps that have nothing to do with where the room is.
LEMMA StepElsewhere ==
  ASSUME TypeOK, NEW h \in Handlers, OnTopic,
         \/ CastRead(h) \/ CastWrite(h) \/ CastMark(h) \/ CastList(h)
         \/ CastTally(h) \/ Flip(h) \/ ClearRead(h) \/ ClearWrite(h)
         \/ RevealRead(h) \/ FinalizeRead(h) \/ FinalizeWrite(h) \/ Control(h)
  PROVE  Guided(req[h])' /\ OnTopic'
  <1>1. UNCHANGED <<current, live>>
    BY DEF CastRead, CastWrite, CastMark, CastList, CastTally, Flip, ClearRead,
       ClearWrite, RevealRead, FinalizeRead, FinalizeWrite, ReadTopic, Control,
       room, board
  <1>2. \/ req'[h] = Idle
        \/ req'[h].pc \notin {"point", "write"}
        \/ req'[h].pc = "write" /\ req'[h].op # "delete"
    <2>1. CASE CastRead(h) \/ CastList(h)
      BY <2>1 DEF CastRead, CastList, Finish, At, TypeOK, Request
    <2>2. CASE CastWrite(h) \/ CastMark(h) \/ CastTally(h)
      BY <2>2 DEF CastWrite, CastMark, CastTally, SeekReveal, Goto, Finish, TypeOK, Request
    <2>3. CASE Flip(h) \/ ClearWrite(h) \/ FinalizeWrite(h)
      BY <2>3 DEF Flip, ClearWrite, FinalizeWrite, Finish, TypeOK
    <2>4. CASE ClearRead(h) \/ RevealRead(h) \/ FinalizeRead(h)
      <3>1. CASE ClearRead(h)
        BY <3>1 DEF ClearRead, ReadTopic, Goto, Finish, At, TypeOK, Request
      <3>2. CASE RevealRead(h)
        BY <3>2 DEF RevealRead, ReadTopic, Goto, Finish, At, TypeOK, Request
      <3>3. CASE FinalizeRead(h)
        BY <3>3 DEF FinalizeRead, ReadTopic, Goto, Finish, At, TypeOK, Request
      <3> QED
        BY <2>4, <3>1, <3>2, <3>3
    <2>5. CASE Control(h)
      BY <2>5 DEF Control, Goto, Finish, TypeOK, Request
    <2> QED
      BY <2>1, <2>2, <2>3, <2>4, <2>5
  <1> QED
    BY <1>1, <1>2, IdleGuided, SMTT(30) DEF OnTopic, Guided

LEMMA StepRoom ==
  ASSUME TypeOK, RoomInv, NEW h \in Handlers, Step(h)
  PROVE  RoomInv'
  <1>1. req[h].pc # "idle"
    BY DEF Step, At, CastRead, CastWrite, CastMark, CastList, CastTally, Flip,
       ClearRead, ClearWrite, RevealRead, FinalizeRead, FinalizeWrite,
       DeleteWrite, DeletePick, Control, FocusRead, AdvancePick, Point, ReadTopic
  <1>2. req[h] # Idle
    BY <1>1 DEF Idle
  <1>3. Guided(req[h]) /\ (OnTopic \/ MovingOn(req[h]))
    BY <1>2, AloneGuided
  <1> SUFFICES Guided(req[h])' /\ (OnTopic \/ MovingOn(req[h]))'
    BY <1>2, StepAlone
  <1>4. CASE \/ CastRead(h) \/ CastWrite(h) \/ CastMark(h) \/ CastList(h)
             \/ CastTally(h) \/ Flip(h) \/ ClearRead(h) \/ ClearWrite(h)
             \/ RevealRead(h) \/ FinalizeRead(h) \/ FinalizeWrite(h) \/ Control(h)
    <2>1. ~MovingOn(req[h])
      BY <1>4 DEF MovingOn, At, CastRead, CastWrite, CastMark, CastList, CastTally,
         Flip, ClearRead, ClearWrite, RevealRead, FinalizeRead, FinalizeWrite,
         Control, ReadTopic
    <2> QED
      BY <1>3, <1>4, <2>1, StepElsewhere, SMTT(30)
  <1>5. CASE FocusRead(h)
    <2>1. UNCHANGED <<current, live>> /\ ~MovingOn(req[h])
      BY <1>5 DEF FocusRead, ReadTopic, room, board, At, MovingOn
    <2>2. \/ req'[h] = Idle
          \/ /\ req[h].t \in live
             /\ req'[h].op = req[h].op /\ req'[h].pc = "point" /\ req'[h].t = req[h].t
      BY <1>5 DEF FocusRead, ReadTopic, Goto, Finish, TypeOK, Request
    <2> QED
      BY <1>3, <2>1, <2>2, IdleGuided DEF OnTopic, Guided
  <1>6. CASE AdvancePick(h)
    <2>1. UNCHANGED <<current, live>> /\ ~MovingOn(req[h])
      BY <1>6 DEF AdvancePick, room, board, MovingOn
    <2>2. \/ req'[h] = Idle
          \/ req'[h].pc = "point" /\ req'[h].t \in live
      BY <1>6 DEF AdvancePick, Finish, TypeOK, Request
    <2> QED
      BY <1>3, <2>1, <2>2, IdleGuided DEF OnTopic, Guided
  <1>7. CASE DeletePick(h)
    <2>1. UNCHANGED live
      BY <1>7 DEF DeletePick, board
    <2>2. /\ req'[h].op = "delete" /\ req'[h].pc = "point"
          /\ req'[h].t \in live \cup {NoTopic}
      BY <1>7 DEF DeletePick, At, TypeOK, Request
    <2> QED
      BY <2>1, <2>2 DEF MovingOn, Guided
  <1>8. CASE DeleteWrite(h)
    <2>1. /\ current' = current /\ OnTopic
          /\ req[h].op = "delete" /\ req[h].cur = current
      BY <1>3, <1>8 DEF DeleteWrite, At, MovingOn, Guided, room
    <2>2. CASE req[h].t \in live /\ req[h].cur = req[h].t
      <3>1. req'[h].op = "delete" /\ req'[h].pc = "pick"
        BY <1>8, <2>1, <2>2 DEF DeleteWrite, Goto, TypeOK, Request
      <3> QED
        BY <3>1 DEF MovingOn, Guided
    <2>3. CASE req[h].t \in live /\ req[h].cur # req[h].t
      <3>1. req'[h] = Idle /\ live' = live \ {req[h].t}
        BY <1>8, <2>3 DEF DeleteWrite, Finish, TypeOK
      <3> QED
        BY <2>1, <2>3, <3>1, IdleGuided DEF OnTopic, Guided
    <2>4. CASE req[h].t \notin live
      <3>1. req'[h] = Idle /\ live' = live
        BY <1>8, <2>4 DEF DeleteWrite, Finish, TypeOK, board
      <3> QED
        BY <2>1, <3>1, IdleGuided DEF OnTopic, Guided
    <2> QED
      BY <2>2, <2>3, <2>4
  <1>9. CASE Point(h)
    <2>1. current' = req[h].t /\ live' = live /\ req'[h] = Idle
      BY <1>9 DEF Point, Finish, TypeOK, board
    <2>2. req[h].t \in live \cup {NoTopic}
      BY <1>3, <1>9 DEF Point, Guided
    <2> QED
      BY <2>1, <2>2, IdleGuided DEF OnTopic, Guided
  <1> QED
    BY <1>4, <1>5, <1>6, <1>7, <1>8, <1>9 DEF Step

\* Nothing starts while a request is under way.
LEMMA ServeRoom ==
  ASSUME TypeOK, RoomInv, ServedSingly, NEW h \in Handlers, NEW r, Serve(h, r),
         UNCHANGED <<current, live>>,
         r.pc # "point", r.op = "delete" => r.cur = current
  PROVE  RoomInv'
  <1>1. Quiet
    BY DEF Serve, Occurs, ServedSingly
  <1>2. \A g \in Handlers : req'[g] = IF g = h THEN r ELSE Idle
    BY <1>1 DEF Serve, Quiet, TypeOK
  <1>3. OnTopic
    BY <1>1, IdleGuided DEF RoomInv, Quiet
  <1>4. ASSUME NEW g \in Handlers PROVE Guided(req[g])'
    BY <1>2, IdleGuided DEF Guided
  <1> QED
    BY <1>2, <1>3, <1>4 DEF RoomInv, OnTopic

LEMMA StartRoom ==
  ASSUME TypeOK, RoomInv, ServedSingly, NEW h \in Handlers, Start(h)
  PROVE  RoomInv'
  <1>0. UNCHANGED <<current, live>>
    BY DEF Start, StartCast, StartClear, StartReveal, StartFinalize, StartDelete,
       StartFocus, StartAdvance, room, board
  <1>1. CASE StartCast(h)
    <2>1. PICK p \in Seated \ watching, t \in Topics, c \in deck :
            Serve(h, [Idle EXCEPT !.op = "cast", !.pc = "read", !.who = p,
                                  !.t = t, !.card = c, !.auto = autoReveal])
      BY <1>1 DEF StartCast
    <2> QED
      BY <1>0, <2>1, ServeRoom DEF Idle
  <1>2. CASE StartClear(h)
    <2>1. PICK p \in Seated, t \in Topics :
            Serve(h, [Idle EXCEPT !.op = "clear", !.pc = "read", !.who = p,
                                  !.t = t])
      BY <1>2 DEF StartClear
    <2> QED
      BY <1>0, <2>1, ServeRoom DEF Idle
  <1>3. CASE StartReveal(h)
    <2>1. PICK t \in Topics :
            Serve(h, [Idle EXCEPT !.op = "reveal", !.pc = "read", !.t = t])
      BY <1>3 DEF StartReveal
    <2> QED
      BY <1>0, <2>1, ServeRoom DEF Idle
  <1>4. CASE StartFinalize(h)
    <2>1. PICK t \in Topics, c \in deck \ Escapes :
            Serve(h, [Idle EXCEPT !.op = "finalize", !.pc = "read", !.t = t,
                                  !.card = c])
      BY <1>4 DEF StartFinalize
    <2> QED
      BY <1>0, <2>1, ServeRoom DEF Idle
  <1>5. CASE StartDelete(h)
    <2>1. PICK t \in Topics :
            Serve(h, [Idle EXCEPT !.op = "delete", !.pc = "write", !.t = t,
                                  !.cur = current])
      BY <1>5 DEF StartDelete
    <2> QED
      BY <1>0, <2>1, ServeRoom DEF Idle
  <1>6. CASE StartFocus(h)
    <2>1. PICK p \in Seated, t \in Topics :
            Serve(h, [Idle EXCEPT !.op = "focus", !.pc = ControlPC(p, "read"),
                                  !.who = p, !.t = t, !.cur = current])
      BY <1>6 DEF StartFocus
    <2> QED
      BY <1>0, <2>1, ServeRoom DEF Idle, ControlPC
  <1>7. CASE StartAdvance(h)
    <2>1. PICK p \in Seated, direction \in {"next", "prev"} :
            Serve(h, [Idle EXCEPT !.op = direction,
                                  !.pc = ControlPC(p, "pick"),
                                  !.who = p, !.cur = current])
      BY <1>7 DEF StartAdvance
    <2> QED
      BY <1>0, <2>1, ServeRoom DEF Idle, ControlPC
  <1> QED
    BY <1>1, <1>2, <1>3, <1>4, <1>5, <1>6, <1>7 DEF Start

LEMMA NextRoom ==
  ASSUME TypeOK, RoomInv, ServedSingly, [Next]_vars
  PROVE  RoomInv'
  <1>1. CASE HostWrite \/ Membership \/ UNCHANGED vars
    <2>1. UNCHANGED <<current, live, req>>
      BY <1>1 DEF HostWrite, Membership, ResetTopic, SetDeck, UpdateRoomSettings,
         KickParticipant, JoinRoom, UpdateProfile, Connect, Disconnect, vars, room,
         board
    <2> QED
      BY <2>1 DEF RoomInv, OnTopic, Guided, MovingOn
  <1>2. ASSUME NEW h \in Handlers PROVE ~Abort(h)
    BY DEF Abort, ServedSingly
  <1> QED
    BY <1>1, <1>2, StepRoom, StartRoom DEF Next

\* When requests are served one at a time and none stops half way, deleting the
\* topic a room is on always moves the room to a topic that is there, or to none.
THEOREM CurrentAlwaysHasRow == ServedSingly => (Spec => []CurrentHasRow)
  <1> SUFFICES ASSUME ServedSingly PROVE Spec => []CurrentHasRow
    OBVIOUS
  <1>1. Init => RoomInv
    BY IdleGuided DEF Init, RoomInv, OnTopic
  <1>2. TypeOK /\ RoomInv /\ [Next]_vars => RoomInv'
    BY NextRoom
  <1>3. RoomInv => CurrentHasRow
    BY IdleGuided DEF RoomInv, CurrentHasRow, Quiet, OnTopic
  <1> QED
    BY <1>1, <1>2, <1>3, TypeCorrect, PTL DEF Spec

-----------------------------------------------------------------------------
\* Requests served one at a time play PlanningPoker.

Lies(t) == t \in live /\ ~FaceUp(t)

MayMove(r) == r.who = Host \/ (current \in live /\ FaceUp(current))

\* Nothing changes under a request that is served alone: what it has read so far
\* is still so at each of its statements.
VoteTrue(r) ==
  /\ r.pc \in {"read", "write", "mark", "list", "tally", "flip"}
  /\ r.pc \in {"read", "write"} =>
       /\ r.who \in Seated \ watching /\ r.card \in deck
       /\ r.auto = autoReveal
       /\ mode = "sync" => current = r.t
  /\ r.pc # "read" => Lies(r.t)
  /\ r.pc \in {"list", "tally", "flip"} => r.auto
  /\ r.pc = "tally" => r.expected = ExpectedVoters /\ r.expected # {}
  /\ r.pc = "flip" => AllVoted(r.t)

TurnTrue(r) ==
  /\ r.pc \in {"read", "write", "flip"}
  /\ r.op = "clear" => r.who \in Seated /\ r.pc # "flip"
  /\ r.op = "reveal" => r.pc # "write"
  /\ r.pc # "read" => Lies(r.t)

ResultTrue(r) ==
  /\ r.pc \in {"read", "write"}
  /\ r.card \in deck \ Escapes
  /\ r.pc = "write" => r.t \in live /\ FaceUp(r.t)

MoveTrue(r) ==
  /\ r.pc \in {"control", "read", "pick", "point"}
  /\ mode = "sync" /\ r.who \in Seated /\ r.cur = current
  /\ r.pc # "control" => MayMove(r)
  /\ r.pc = "point" => r.t \in live

DeleteTrue(r) ==
  /\ r.pc \in {"write", "pick", "point"}
  /\ r.pc = "write" => r.cur = current
  /\ r.pc = "point" => IsFirstUnestimated(r.t)

StillTrue(r) ==
  \/ r.op = "none" /\ r.pc = "idle"
  \/ r.op = "cast" /\ VoteTrue(r)
  \/ r.op \in {"clear", "reveal"} /\ TurnTrue(r)
  \/ r.op = "finalize" /\ ResultTrue(r)
  \/ r.op \in {"focus", "next", "prev"} /\ MoveTrue(r)
  \/ r.op = "delete" /\ DeleteTrue(r)

PlayInv ==
  /\ deck \in Decks
  /\ \A h \in Handlers : StillTrue(req[h])

-----------------------------------------------------------------------------
\* Extremes of sets of numbers, and where a room goes.

LEMMA LeastNumber ==
  ASSUME NEW S \in SUBSET Nat, S # {}
  PROVE  \E m \in S : \A n \in S : m <= n
  <1>1. PICK m \in S : \A n \in S : ~(<<n, m>> \in OpToRel(<, Nat))
    BY NatLessThanWellFounded, WFMin
  <1>2. \A n \in S : ~(n < m)
    BY <1>1 DEF OpToRel
  <1>3. ASSUME NEW n \in S PROVE m <= n
    <2>1. m \in Nat /\ n \in Nat
      OBVIOUS
    <2> QED
      BY <1>2, <2>1
  <1> QED
    BY <1>3

LEMMA GreatestNumber ==
  ASSUME NEW S \in SUBSET Nat, IsFiniteSet(S), S # {}
  PROVE  \E m \in S : \A n \in S : n <= m
  <1> DEFINE Endless(T) == T # {} /\ \A m \in T : \E n \in T : ~(n <= m)
             Sizes == {Cardinality(T) : T \in {U \in SUBSET S : Endless(U)}}
  <1>1. SUFFICES ASSUME Endless(S) PROVE FALSE
    OBVIOUS
  <1>2. Sizes \in SUBSET Nat /\ Sizes # {}
    <2>1. ASSUME NEW T \in SUBSET S PROVE Cardinality(T) \in Nat
      BY FS_Subset, FS_CardinalityType
    <2>2. Cardinality(S) \in Sizes
      BY <1>1
    <2> QED
      BY <2>1, <2>2
  <1>3. PICK k \in Sizes : \A n \in Sizes : k <= n
    <2> HIDE DEF Sizes
    <2> QED BY <1>2, LeastNumber
  <1>4. PICK T \in SUBSET S : Endless(T) /\ Cardinality(T) = k
    OBVIOUS
  <1>5. PICK x \in T : TRUE
    BY <1>4
  <1>6. IsFiniteSet(T) /\ Cardinality(T \ {x}) = k - 1 /\ k \in Nat
    BY <1>4, <1>5, FS_Subset, FS_RemoveElement, FS_CardinalityType
  <1>7. ~Endless(T \ {x})
    BY <1>3, <1>6, SMTT(30)
  <1>8. \E n \in T : ~(n <= x)
    BY <1>4, <1>5
  <1>9. PICK m \in T \ {x} : \A n \in T \ {x} : n <= m
    BY <1>7, <1>8
  <1>10. \A n \in T : n <= m \/ n <= x
    BY <1>9
  <1> QED
    BY <1>4, <1>5, <1>9, <1>10

\* There is exactly one topic to go to when a topic is dropped.
LEMMA FirstIsThere ==
  TypeOK => \E t \in live \cup {NoTopic} : IsFirstUnestimated(t)
  <1> SUFFICES ASSUME TypeOK PROVE \E t \in live \cup {NoTopic} : IsFirstUnestimated(t)
    OBVIOUS
  <1> DEFINE open == {u \in live : topic[u].status # "estimated"}
  <1>1. open \in SUBSET Nat /\ live \in SUBSET Nat /\ IsFiniteSet(live)
    BY TopicAssumption, BacklogAssumption, FS_Subset DEF TypeOK
  <1>2. CASE open # {}
    <2>1. PICK t \in open : \A u \in open : t <= u
      <3> HIDE DEF open
      <3> QED BY <1>1, <1>2, LeastNumber
    <2> QED
      BY <2>1 DEF IsFirstUnestimated
  <1>3. CASE open = {} /\ live # {}
    <2>1. PICK t \in live : \A u \in live : u <= t
      BY <1>1, <1>3, GreatestNumber
    <2> QED
      BY <1>3, <2>1 DEF IsFirstUnestimated
  <1>4. CASE live = {}
    BY <1>4 DEF IsFirstUnestimated
  <1> QED
    BY <1>2, <1>3, <1>4

LEMMA FirstIsOne ==
  TypeOK => \A t, u : IsFirstUnestimated(t) /\ IsFirstUnestimated(u) => t = u
  <1> SUFFICES ASSUME TypeOK, NEW t, NEW u, IsFirstUnestimated(t), IsFirstUnestimated(u)
               PROVE  t = u
    OBVIOUS
  <1> DEFINE open == {v \in live : topic[v].status # "estimated"}
  <1>1. \A v \in live : v \in Nat
    BY TopicAssumption DEF TypeOK
  <1>2. CASE open # {}
    <2>1. t \in open /\ u \in open /\ t <= u /\ u <= t
      BY <1>2 DEF IsFirstUnestimated
    <2> QED
      BY <1>1, <2>1
  <1>3. CASE open = {} /\ live # {}
    <2>1. t \in live /\ u \in live /\ t <= u /\ u <= t
      BY <1>3 DEF IsFirstUnestimated
    <2> QED
      BY <1>1, <2>1
  <1>4. CASE live = {}
    BY <1>4 DEF IsFirstUnestimated
  <1> QED
    BY <1>2, <1>3, <1>4

LEMMA DestinationIsFirst ==
  TypeOK => IF Leaving THEN /\ Destination \in live \cup {NoTopic}
                            /\ IsFirstUnestimated(Destination)
            ELSE Destination = current
  <1> SUFFICES ASSUME TypeOK, Leaving
               PROVE  /\ Destination \in live \cup {NoTopic}
                      /\ IsFirstUnestimated(Destination)
    BY DEF Destination
  <1>1. \E t \in live \cup {NoTopic} : IsFirstUnestimated(t)
    BY FirstIsThere
  <1> QED
    BY <1>1, Zenon DEF Destination

LEMMA DestinationIsFirstPrime ==
  TypeOK' => (IF Leaving THEN /\ Destination \in live \cup {NoTopic}
                              /\ IsFirstUnestimated(Destination)
              ELSE Destination = current)'
  BY DestinationIsFirst, PTL

LEMMA FirstIsOnePrime ==
  TypeOK' => (\A t, u : IsFirstUnestimated(t) /\ IsFirstUnestimated(u) => t = u)'
  BY FirstIsOne, PTL

\* A step after which everything that is written is as it was.
LEMMA Unmoved ==
  ASSUME TypeOK, TypeOK', UNCHANGED <<room, people, board>>, Leaving' = Leaving,
         \A t \in live : (Counting(t) /\ AllVoted(t))' <=> Counting(t) /\ AllVoted(t)
  PROVE  UNCHANGED Game!vars
  <1>1. Roles' = Roles /\ Agreed' = Agreed
    BY DEF Roles, Agreed, people, board
  <1>2. Turned' = Turned
    BY DEF Turned, FaceUp, board
  <1>3. Destination' = Destination
    <2>1. CASE Leaving
      <3>1. IsFirstUnestimated(Destination)
        BY <2>1, DestinationIsFirst
      <3>2. IsFirstUnestimated(Destination)'
        BY <2>1, DestinationIsFirstPrime
      <3>3. IsFirstUnestimated(Destination')
        BY <3>2 DEF IsFirstUnestimated, board
      <3> QED
        BY <3>1, <3>3, FirstIsOne
    <2>2. CASE ~Leaving
      BY <2>2 DEF Destination, room
    <2> QED
      BY <2>1, <2>2
  <1> QED
    BY <1>1, <1>2, <1>3 DEF Game!vars, room, people, board

\* A step is the work of the one request there is.
LEMMA Alone ==
  ASSUME TypeOK, RoomInv, NEW h \in Handlers, Step(h)
  PROVE  /\ req[h] # Idle
         /\ \A g \in Handlers \ {h} : req[g] = Idle /\ req'[g] = Idle
  <1>1. req[h].pc # "idle"
    BY DEF Step, At, CastRead, CastWrite, CastMark, CastList, CastTally, Flip,
       ClearRead, ClearWrite, RevealRead, FinalizeRead, FinalizeWrite,
       DeleteWrite, DeletePick, Control, FocusRead, AdvancePick, Point, ReadTopic
  <1>2. req[h] # Idle
    BY <1>1 DEF Idle
  <1> QED
    BY <1>2, StepKeepsRequest DEF RoomInv

LEMMA VoteStays ==
  ASSUME TypeOK, NEW h \in Handlers, StillTrue(req[h]),
         \/ CastRead(h) \/ CastWrite(h) \/ CastMark(h) \/ CastList(h)
         \/ CastTally(h) \/ Flip(h)
  PROVE  StillTrue(req[h])'
  <1>1. ASSUME req'[h] = Idle PROVE StillTrue(req[h])'
    BY <1>1 DEF StillTrue, Idle
  <1>2. req[h].op = "cast" => VoteTrue(req[h])
    BY DEF StillTrue
  <1>3. ASSUME req[h].op = "cast", req'[h].op = "cast", VoteTrue(req[h])' PROVE StillTrue(req[h])'
    BY <1>3 DEF StillTrue
  <1>4. CASE CastRead(h)
    <2>1. CASE req[h].t \in live /\ ~FaceUp(req[h].t)
      <3>1. req'[h] = [req[h] EXCEPT !.pc = "write", !.seen = topic[req[h].t].status]
        BY <1>4, <2>1 DEF CastRead, TypeOK
      <3>2. VoteTrue(req[h])'
        BY <1>2, <1>4, <2>1, <3>1 DEF CastRead, At, VoteTrue, Lies, FaceUp, Seated, TypeOK,
           Request, room, people, board
      <3> QED
        BY <1>3, <1>4, <3>1, <3>2 DEF CastRead, At, TypeOK, Request
    <2>2. CASE ~(req[h].t \in live /\ ~FaceUp(req[h].t))
      BY <1>1, <1>4, <2>2 DEF CastRead, Finish, TypeOK
    <2> QED
      BY <2>1, <2>2
  <1>5. CASE CastWrite(h)
    <2>1. \/ req'[h] = Idle
          \/ req'[h] = [req[h] EXCEPT !.pc = "mark"]
          \/ req'[h] = [req[h] EXCEPT !.pc = "list"] /\ req[h].auto
      BY <1>5 DEF CastWrite, SeekReveal, Goto, Finish, TypeOK
    <2>2. At(h, "cast", "write") /\ Lies(req[h].t) /\ UNCHANGED <<live, topic>>
      BY <1>2, <1>5 DEF CastWrite, At, VoteTrue
    <2> QED
      BY <1>1, <1>3, <2>1, <2>2 DEF At, VoteTrue, Lies, FaceUp, TypeOK, Request
  <1>6. CASE CastMark(h)
    <2>1. At(h, "cast", "mark") /\ Lies(req[h].t)
      BY <1>2, <1>6 DEF CastMark, At, VoteTrue
    <2>2. \/ req'[h] = Idle
          \/ req'[h] = [req[h] EXCEPT !.pc = "list"] /\ req[h].auto
      BY <1>6 DEF CastMark, SeekReveal, Goto, Finish, TypeOK
    <2>3. \A t : Lies(t) => Lies(t)'
      BY <1>6 DEF CastMark, Lies, FaceUp, TypeOK, Request
    <2> QED
      BY <1>1, <1>3, <2>1, <2>2, <2>3 DEF At, VoteTrue, TypeOK, Request
  <1>7. CASE CastList(h)
    <2>1. /\ At(h, "cast", "list") /\ Lies(req[h].t) /\ req[h].auto
          /\ UNCHANGED <<room, people, board>>
      BY <1>2, <1>7 DEF CastList, At, VoteTrue
    <2>2. \/ req'[h] = Idle
          \/ /\ req'[h] = [req[h] EXCEPT !.pc = "tally", !.expected = ExpectedVoters]
             /\ ExpectedVoters # {}
      BY <1>7 DEF CastList, Finish, TypeOK
    <2>3. ExpectedVoters' = ExpectedVoters /\ \A t : Lies(t) => Lies(t)'
      BY <2>1 DEF ExpectedVoters, Seated, Lies, FaceUp, room, people, board, TypeOK, Request
    <2>4. CASE req'[h] # Idle
      <3>1. req[h] \in Request /\ req[h].op = "cast"
        BY <2>1 DEF At, TypeOK
      <3>2. req'[h] = [req[h] EXCEPT !.pc = "tally", !.expected = ExpectedVoters]
        BY <2>2, <2>4
      <3>3. /\ req'[h].op = "cast" /\ req'[h].pc = "tally" /\ req'[h].auto = req[h].auto
            /\ req'[h].t = req[h].t /\ req'[h].expected = ExpectedVoters
        BY <3>1, <3>2 DEF Request
      <3>4. Lies(req[h].t)'
        BY <2>1, <3>3 DEF Lies, FaceUp, board
      <3>5. VoteTrue(req[h])'
        BY <2>1, <2>2, <2>3, <2>4, <3>3, <3>4 DEF VoteTrue
      <3> QED
        BY <1>3, <3>1, <3>3, <3>5
    <2> QED
      BY <1>1, <2>4
  <1>8. CASE CastTally(h)
    <2>1. /\ At(h, "cast", "tally") /\ Lies(req[h].t) /\ req[h].auto
          /\ req[h].expected = ExpectedVoters /\ ExpectedVoters # {}
          /\ UNCHANGED <<room, people, board>>
      BY <1>2, <1>8 DEF CastTally, At, VoteTrue
    <2>2. \/ req'[h] = Idle
          \/ /\ req'[h] = [req[h] EXCEPT !.pc = "flip"]
             /\ AllVoted(req[h].t)
      BY <1>8, <2>1 DEF CastTally, Goto, Finish, TypeOK, AllVoted
    <2>3. ASSUME NEW t, AllVoted(t) PROVE AllVoted(t)'
      BY <2>1, <2>3 DEF AllVoted, ExpectedVoters, Seated, HasCard, room, people, board
    <2>4. CASE req'[h] = Idle
      BY <1>1, <2>4
    <2>5. CASE req'[h] # Idle
      <3>1. /\ req'[h].op = "cast" /\ req'[h].pc = "flip" /\ req'[h].auto
            /\ req'[h].t = req[h].t
        BY <2>1, <2>2, <2>5 DEF At, TypeOK, Request
      <3>2. \A t : Lies(t) => Lies(t)'
        BY <2>1 DEF Lies, FaceUp, board
      <3> QED
        BY <1>3, <2>1, <2>2, <2>3, <2>5, <3>1, <3>2 DEF VoteTrue, At
    <2> QED
      BY <2>4, <2>5
  <1>9. CASE Flip(h)
    BY <1>1, <1>9 DEF Flip, Finish, TypeOK
  <1> QED
    BY <1>4, <1>5, <1>6, <1>7, <1>8, <1>9

LEMMA OtherStays ==
  ASSUME TypeOK, NEW h \in Handlers, StillTrue(req[h]),
         \/ ClearRead(h) \/ ClearWrite(h) \/ RevealRead(h) \/ FinalizeRead(h)
         \/ FinalizeWrite(h) \/ DeleteWrite(h) \/ DeletePick(h) \/ Control(h)
         \/ FocusRead(h) \/ AdvancePick(h) \/ Point(h)
  PROVE  StillTrue(req[h])'
  <1>1. ASSUME req'[h] = Idle PROVE StillTrue(req[h])'
    BY <1>1 DEF StillTrue, Idle
  <1>2. CASE ClearWrite(h) \/ FinalizeWrite(h) \/ Point(h)
    BY <1>1, <1>2 DEF ClearWrite, FinalizeWrite, Point, Finish, TypeOK
  <1>3. CASE ClearRead(h) \/ RevealRead(h)
    <2>1. \/ req'[h] = Idle
          \/ /\ Lies(req[h].t) /\ req[h].op = "clear" /\ req'[h] = [req[h] EXCEPT !.pc = "write"]
          \/ /\ Lies(req[h].t) /\ req[h].op = "reveal" /\ req'[h] = [req[h] EXCEPT !.pc = "flip"]
      BY <1>3 DEF ClearRead, RevealRead, ReadTopic, At, Goto, Finish, Lies, TypeOK
    <2>2. UNCHANGED <<room, people, board>>
      BY <1>3 DEF ClearRead, RevealRead, ReadTopic
    <2> QED
      BY <1>1, <2>1, <2>2 DEF StillTrue, TurnTrue, Lies, FaceUp, Seated, TypeOK, Request,
         people, board
  <1>4. CASE FinalizeRead(h)
    <2>1. /\ req[h].op = "finalize" /\ UNCHANGED <<room, people, board>>
          /\ \/ req'[h] = Idle
             \/ /\ req[h].t \in live /\ FaceUp(req[h].t)
                /\ req'[h] = [req[h] EXCEPT !.pc = "write"]
      BY <1>4 DEF FinalizeRead, ReadTopic, At, Goto, Finish, TypeOK
    <2> QED
      BY <1>1, <2>1 DEF StillTrue, ResultTrue, FaceUp, TypeOK, Request, room, board
  <1>5. CASE DeleteWrite(h)
    <2>1. /\ At(h, "delete", "write")
          /\ \/ req'[h] = Idle
             \/ req'[h] = [req[h] EXCEPT !.pc = "pick"]
      BY <1>5 DEF DeleteWrite, Goto, Finish, TypeOK
    <2> QED
      BY <1>1, <2>1 DEF At, StillTrue, DeleteTrue, TypeOK, Request
  <1>6. CASE DeletePick(h)
    <2>1. PICK t \in live \cup {NoTopic} :
            /\ IsFirstUnestimated(t)
            /\ req' = [req EXCEPT ![h].pc = "point", ![h].t = t]
      BY <1>6 DEF DeletePick
    <2>2. /\ req'[h].op = "delete" /\ req'[h].pc = "point" /\ req'[h].t = t
      BY <1>6, <2>1 DEF DeletePick, At, TypeOK, Request
    <2>3. IsFirstUnestimated(t)'
      BY <1>6, <2>1 DEF DeletePick, IsFirstUnestimated, board
    <2> QED
      BY <2>2, <2>3 DEF StillTrue, DeleteTrue, IsFirstUnestimated
  <1>7. CASE Control(h)
    <2>1. /\ req[h].pc = "control" /\ UNCHANGED <<room, people, board>>
          /\ \/ req'[h] = Idle
             \/ /\ req[h].cur \in live /\ FaceUp(req[h].cur)
                /\ \E pc \in {"read", "pick"} : req'[h] = [req[h] EXCEPT !.pc = pc]
      BY <1>7 DEF Control, Goto, Finish, TypeOK
    <2>2. MoveTrue(req[h]) /\ req[h].op \in {"focus", "next", "prev"}
      BY <2>1 DEF StillTrue, VoteTrue, TurnTrue, ResultTrue, DeleteTrue
    <2> QED
      BY <1>1, <2>1, <2>2 DEF StillTrue, MoveTrue, MayMove, FaceUp, Seated, TypeOK, Request,
         room, people, board
  <1>8. CASE FocusRead(h) \/ AdvancePick(h)
    <2>1. /\ UNCHANGED <<room, people, board>>
          /\ req[h].op \in {"focus", "next", "prev"} /\ req[h].pc # "control"
          /\ \/ req'[h] = Idle
             \/ \E t \in live : req'[h] = [req[h] EXCEPT !.pc = "point", !.t = t]
      <3>1. CASE FocusRead(h)
        <4>1. [req[h] EXCEPT !.pc = "point"] = [req[h] EXCEPT !.pc = "point", !.t = req[h].t]
          BY DEF TypeOK, Request
        <4> QED
          BY <3>1, <4>1 DEF FocusRead, ReadTopic, At, Goto, Finish, TypeOK
      <3>2. CASE AdvancePick(h)
        BY <3>2 DEF AdvancePick, Finish, TypeOK
      <3> QED
        BY <1>8, <3>1, <3>2
    <2>2. MoveTrue(req[h])
      BY <2>1 DEF StillTrue
    <2> QED
      BY <1>1, <2>1, <2>2 DEF StillTrue, MoveTrue, MayMove, FaceUp, Seated, TypeOK, Request,
         room, people, board
  <1> QED
    BY <1>2, <1>3, <1>4, <1>5, <1>6, <1>7, <1>8

LEMMA StepPlay ==
  ASSUME TypeOK, RoomInv, PlayInv, NEW h \in Handlers, Step(h)
  PROVE  PlayInv'
  <1>1. StillTrue(req[h])'
    <2>1. StillTrue(req[h])
      BY DEF PlayInv
    <2> QED
      BY <2>1, VoteStays, OtherStays DEF Step
  <1>2. ASSUME NEW g \in Handlers \ {h} PROVE StillTrue(req[g])'
    <2>1. req'[g] = Idle
      BY Alone
    <2> QED
      BY <2>1 DEF StillTrue, Idle
  <1>3. UNCHANGED deck
    BY DEF Step, CastRead, CastWrite, CastMark, CastList, CastTally, Flip,
       ClearRead, ClearWrite, RevealRead, FinalizeRead, FinalizeWrite,
       DeleteWrite, DeletePick, Control, FocusRead, AdvancePick, Point, ReadTopic, room
  <1> QED
    BY <1>1, <1>2, <1>3 DEF PlayInv

\* A request starts with what its session has just read.
LEMMA StartTrue ==
  ASSUME TypeOK, NEW h \in Handlers, Start(h)
  PROVE  /\ StillTrue(req[h])' /\ UNCHANGED <<room, people, board>>
         /\ req'[h].pc \notin {"mark", "list", "tally", "flip", "point"}
         /\ req'[h].op = "delete" => req'[h].pc = "write"
  <1>0. UNCHANGED <<room, people, board>>
    BY DEF Start, StartCast, StartClear, StartReveal, StartFinalize, StartDelete,
       StartFocus, StartAdvance
  <1> USE DEF StillTrue
  <1>1. CASE StartCast(h)
    <2>1. PICK p \in Seated \ watching, t \in Topics, c \in deck :
            /\ mode = "sync" => current = t
            /\ Serve(h, [Idle EXCEPT !.op = "cast", !.pc = "read", !.who = p,
                                     !.t = t, !.card = c, !.auto = autoReveal])
      BY <1>1 DEF StartCast
    <2>2. req'[h] = [Idle EXCEPT !.op = "cast", !.pc = "read", !.who = p,
                                 !.t = t, !.card = c, !.auto = autoReveal]
      BY <2>1, ServeShape
    <2> QED
      BY <1>0, <2>1, <2>2 DEF VoteTrue, Idle, Seated, room, people
  <1>2. CASE StartClear(h)
    <2>1. PICK p \in Seated, t \in Topics :
            Serve(h, [Idle EXCEPT !.op = "clear", !.pc = "read", !.who = p, !.t = t])
      BY <1>2 DEF StartClear
    <2>2. req'[h] = [Idle EXCEPT !.op = "clear", !.pc = "read", !.who = p, !.t = t]
      BY <2>1, ServeShape
    <2> QED
      BY <1>0, <2>2 DEF TurnTrue, Idle, Seated, people
  <1>3. CASE StartReveal(h)
    <2>1. PICK t \in Topics :
            Serve(h, [Idle EXCEPT !.op = "reveal", !.pc = "read", !.t = t])
      BY <1>3 DEF StartReveal
    <2>2. req'[h] = [Idle EXCEPT !.op = "reveal", !.pc = "read", !.t = t]
      BY <2>1, ServeShape
    <2> QED
      BY <1>0, <2>2 DEF TurnTrue, Idle
  <1>4. CASE StartFinalize(h)
    <2>1. PICK t \in Topics, c \in deck \ Escapes :
            Serve(h, [Idle EXCEPT !.op = "finalize", !.pc = "read", !.t = t, !.card = c])
      BY <1>4 DEF StartFinalize
    <2>2. req'[h] = [Idle EXCEPT !.op = "finalize", !.pc = "read", !.t = t, !.card = c]
      BY <2>1, ServeShape
    <2> QED
      BY <1>0, <2>2 DEF ResultTrue, Idle, room
  <1>5. CASE StartDelete(h)
    <2>1. PICK t \in Topics :
            Serve(h, [Idle EXCEPT !.op = "delete", !.pc = "write", !.t = t, !.cur = current])
      BY <1>5 DEF StartDelete
    <2>2. req'[h] = [Idle EXCEPT !.op = "delete", !.pc = "write", !.t = t, !.cur = current]
      BY <2>1, ServeShape
    <2> QED
      BY <1>0, <2>2 DEF DeleteTrue, Idle, room
  <1>6. CASE StartFocus(h)
    <2>1. PICK p \in Seated, t \in Topics :
            Serve(h, [Idle EXCEPT !.op = "focus", !.pc = ControlPC(p, "read"),
                                  !.who = p, !.t = t, !.cur = current])
      BY <1>6 DEF StartFocus
    <2>2. /\ req'[h] = [Idle EXCEPT !.op = "focus", !.pc = ControlPC(p, "read"),
                                    !.who = p, !.t = t, !.cur = current]
          /\ mode = "sync"
      BY <1>6, <2>1, ServeShape DEF StartFocus
    <2> QED
      BY <1>0, <2>2 DEF MoveTrue, MayMove, ControlPC, Idle, Seated, room, people
  <1>7. CASE StartAdvance(h)
    <2>1. PICK p \in Seated, direction \in {"next", "prev"} :
            Serve(h, [Idle EXCEPT !.op = direction, !.pc = ControlPC(p, "pick"),
                                  !.who = p, !.cur = current])
      BY <1>7 DEF StartAdvance
    <2>2. /\ req'[h] = [Idle EXCEPT !.op = direction, !.pc = ControlPC(p, "pick"),
                                    !.who = p, !.cur = current]
          /\ mode = "sync"
      BY <1>7, <2>1, ServeShape DEF StartAdvance
    <2> QED
      BY <1>0, <2>2 DEF MoveTrue, MayMove, ControlPC, Idle, Seated, room, people
  <1> QED
    BY <1>0, <1>1, <1>2, <1>3, <1>4, <1>5, <1>6, <1>7 DEF Start

\* Nobody else is served when a request starts.
LEMMA StartsAlone ==
  ASSUME ServedSingly, NEW h \in Handlers, Start(h)
  PROVE  Quiet /\ \A g \in Handlers \ {h} : req'[g] = req[g]
  <1>1. \E r : Serve(h, r)
    BY DEF Start, StartCast, StartClear, StartReveal, StartFinalize, StartDelete,
       StartFocus, StartAdvance
  <1>2. PICK r : Serve(h, r)
    BY <1>1
  <1> QED
    BY <1>2 DEF Serve, Occurs, ServedSingly

LEMMA QuietIsTrue == ASSUME Quiet PROVE \A h \in Handlers : StillTrue(req[h])
  BY DEF Quiet, StillTrue, Idle

\* What is done in one step is done between the requests.
LEMMA OneStepAlone ==
  ASSUME ServedSingly, HostWrite \/ Membership
  PROVE  Quiet /\ UNCHANGED req
  BY DEF ServedSingly, HostWrite, Membership, ResetTopic, SetDeck, UpdateRoomSettings,
     KickParticipant, JoinRoom, UpdateProfile, Connect, Disconnect, Occurs

LEMMA NextPlay ==
  ASSUME TypeOK, RoomInv, PlayInv, ServedSingly, [Next]_vars
  PROVE  PlayInv'
  <1>1. CASE HostWrite \/ Membership
    <2>1. deck' \in Decks
      BY <1>1 DEF PlayInv, HostWrite, Membership, ResetTopic, SetDeck, UpdateRoomSettings,
         KickParticipant, JoinRoom, UpdateProfile, Connect, Disconnect, room
    <2>2. \A h \in Handlers : req'[h] = Idle
      BY <1>1, OneStepAlone DEF Quiet
    <2>3. ASSUME NEW h \in Handlers PROVE StillTrue(req[h])'
      BY <2>2 DEF StillTrue, Idle
    <2> QED
      BY <2>1, <2>3 DEF PlayInv
  <1>2. CASE UNCHANGED vars
    BY <1>2 DEF vars, PlayInv, StillTrue, VoteTrue, TurnTrue, ResultTrue, MoveTrue, DeleteTrue,
       Lies, MayMove, FaceUp, Seated, ExpectedVoters, AllVoted, HasCard, IsFirstUnestimated
  <1>3. ASSUME NEW h \in Handlers, Start(h) PROVE PlayInv'
    <2>1. ASSUME NEW g \in Handlers \ {h} PROVE StillTrue(req[g])'
      <3>1. req'[g] = Idle
        BY <1>3, StartsAlone DEF Quiet
      <3> QED
        BY <3>1 DEF StillTrue, Idle
    <2>2. StillTrue(req[h])' /\ deck' = deck
      BY <1>3, StartTrue DEF room
    <2> QED
      BY <2>1, <2>2 DEF PlayInv
  <1>4. ASSUME NEW h \in Handlers PROVE ~Abort(h)
    BY DEF Abort, ServedSingly
  <1> QED
    BY <1>1, <1>2, <1>3, <1>4, StepPlay DEF Next

\* The topic whose vote has been stored by the request r, which will look whether
\* it was the last one.
Tallying(r, t) ==
  r.op = "cast" /\ r.t = t /\ r.auto /\ r.pc \in {"mark", "list", "tally", "flip"}

LEMMA CountsAlone ==
  ASSUME NEW h \in Handlers, \A g \in Handlers \ {h} : req[g] = Idle /\ req'[g] = Idle
  PROVE  /\ Leaving <=> MovingOn(req[h])
         /\ Leaving' <=> MovingOn(req'[h])
         /\ \A t : Counting(t) <=> Tallying(req[h], t)
         /\ \A t : Counting(t)' <=> Tallying(req'[h], t)
  BY DEF Leaving, MovingOn, Counting, Tallying, Idle

\* The people of the game are those of the room.
LEMMA SamePeople ==
  TypeOK => /\ Game!Members = Seated /\ Game!Awaited = ExpectedVoters
            /\ \A p \in Players : Roles[p] = "player" <=> p \in Seated \ watching
  BY DEF TypeOK, Game!Members, Game!Awaited, ExpectedVoters, Seated, Roles

\* Which topics the game has face up is seen from the rows and the request.
LEMMA TurnedAlone ==
  ASSUME NEW h \in Handlers, \A g \in Handlers \ {h} : req[g] = Idle /\ req'[g] = Idle
  PROVE  /\ Turned = {t \in live : FaceUp(t) \/ (Tallying(req[h], t) /\ AllVoted(t))}
         /\ Turned' = {t \in live' : FaceUp(t)' \/ (Tallying(req'[h], t) /\ AllVoted(t)')}
  BY CountsAlone DEF Turned

-----------------------------------------------------------------------------
\* The statements that only read are no move.

LEMMA ReadsStutter ==
  ASSUME TypeOK, TypeOK', RoomInv, PlayInv, NEW h \in Handlers, Step(h),
         \/ CastRead(h) \/ CastList(h) \/ CastTally(h) \/ ClearRead(h)
         \/ RevealRead(h) \/ FinalizeRead(h) \/ DeletePick(h) \/ Control(h)
         \/ FocusRead(h) \/ AdvancePick(h)
  PROVE  UNCHANGED Game!vars
  <1>1. UNCHANGED <<room, people, board>>
    BY DEF CastRead, CastList, CastTally, ClearRead, RevealRead, FinalizeRead, DeletePick,
       Control, FocusRead, AdvancePick, ReadTopic
  <1>2. \A t : AllVoted(t)' <=> AllVoted(t)
    BY <1>1 DEF AllVoted, ExpectedVoters, Seated, HasCard, room, people, board
  <1>3. StillTrue(req[h]) /\ req[h] \in Request
    BY DEF PlayInv, TypeOK
  <1>4. ASSUME MovingOn(req'[h]) <=> MovingOn(req[h]),
               \A t \in live : Tallying(req'[h], t) /\ AllVoted(t)
                                 <=> Tallying(req[h], t) /\ AllVoted(t)
        PROVE  UNCHANGED Game!vars
    <2>1. \A g \in Handlers \ {h} : req[g] = Idle /\ req'[g] = Idle
      BY Alone
    <2>2. Leaving' = Leaving
      BY <1>4, <2>1, CountsAlone, Zenon DEF Leaving
    <2>3. \A t : (Counting(t) <=> Tallying(req[h], t)) /\ (Counting(t)' <=> Tallying(req'[h], t))
      BY <2>1, CountsAlone
    <2>4. \A t \in live : Counting(t)' /\ AllVoted(t)' <=> Counting(t) /\ AllVoted(t)
      BY <1>2, <1>4, <2>3
    <2> QED
      BY <1>1, <2>2, <2>4, Unmoved
  <1>5. CASE CastRead(h) \/ ClearRead(h) \/ RevealRead(h) \/ FinalizeRead(h) \/ Control(h)
             \/ FocusRead(h) \/ AdvancePick(h)
    <2>1. ~MovingOn(req[h]) /\ \A t : ~Tallying(req[h], t)
      BY <1>3, <1>5 DEF CastRead, ClearRead, RevealRead, FinalizeRead, Control, FocusRead,
         AdvancePick, ReadTopic, At, MovingOn, Tallying, StillTrue, VoteTrue, DeleteTrue
    <2>2. \/ req'[h] = Idle
          \/ req'[h].op = req[h].op /\ (req[h].op = "cast" => req'[h].pc = "write")
      BY <1>3, <1>5 DEF CastRead, ClearRead, RevealRead, FinalizeRead, Control, FocusRead,
         AdvancePick, ReadTopic, At, Goto, Finish, TypeOK, Request,
         StillTrue, VoteTrue, DeleteTrue
    <2>3. req[h].op # "delete"
      BY <1>3, <1>5 DEF CastRead, ClearRead, RevealRead, FinalizeRead, Control, FocusRead,
         AdvancePick, ReadTopic, At, StillTrue, DeleteTrue
    <2>4. ~MovingOn(req'[h]) /\ \A t : ~Tallying(req'[h], t)
      BY <2>2, <2>3 DEF Idle, MovingOn, Tallying
    <2> QED
      BY <1>4, <2>1, <2>4
  <1>6. CASE CastList(h) \/ CastTally(h)
    <2>1. /\ req[h].op = "cast" /\ req[h].pc \in {"list", "tally"} /\ req[h].auto
          /\ req[h].pc = "tally" => req[h].expected = ExpectedVoters
      BY <1>3, <1>6 DEF CastList, CastTally, At, StillTrue, VoteTrue
    <2>2. \/ req'[h] = Idle /\ ~AllVoted(req[h].t)
          \/ /\ req'[h].op = "cast" /\ req'[h].pc \in {"tally", "flip"} /\ req'[h].auto
             /\ req'[h].t = req[h].t
      <3>1. CASE CastList(h)
        BY <1>3, <2>1, <3>1 DEF CastList, Finish, AllVoted, TypeOK, Request
      <3>2. CASE CastTally(h)
        BY <1>3, <2>1, <3>2 DEF CastTally, At, Goto, Finish, AllVoted, TypeOK, Request
      <3> QED
        BY <1>6, <3>1, <3>2
    <2>3. \A t : Tallying(req[h], t) <=> t = req[h].t
      BY <2>1 DEF Tallying
    <2>4. \/ \A t : ~Tallying(req'[h], t)
          \/ \A t : Tallying(req'[h], t) <=> t = req[h].t
      BY <2>2 DEF Tallying, Idle
    <2>5. ~MovingOn(req[h]) /\ ~MovingOn(req'[h])
      BY <2>1, <2>2 DEF MovingOn, Idle
    <2>6. req'[h] = Idle => \A t : ~Tallying(req'[h], t)
      BY DEF Tallying, Idle
    <2> QED
      BY <1>4, <2>2, <2>3, <2>4, <2>5, <2>6 DEF Tallying
  <1>7. CASE DeletePick(h)
    <2>1. /\ req[h].op = "delete" /\ req[h].pc = "pick"
          /\ req'[h].op = "delete" /\ req'[h].pc = "point"
      <3>1. PICK t : req' = [req EXCEPT ![h].pc = "point", ![h].t = t]
        BY <1>7 DEF DeletePick
      <3>2. req'[h] = [req[h] EXCEPT !.pc = "point", !.t = t]
        BY <3>1 DEF TypeOK
      <3> QED
        BY <1>3, <1>7, <3>2 DEF DeletePick, At, Request
    <2> QED
      BY <1>4, <2>1 DEF MovingOn, Tallying
  <1> QED
    BY <1>5, <1>6, <1>7

-----------------------------------------------------------------------------
\* The statements that write.

\* Where the room is counts as it stands, unless a topic is being dropped.
LEMMA StaysPut ==
  ASSUME NEW h \in Handlers, \A g \in Handlers \ {h} : req[g] = Idle /\ req'[g] = Idle,
         ~MovingOn(req[h]), ~MovingOn(req'[h])
  PROVE  Destination = current /\ Destination' = current'
  BY CountsAlone DEF Destination

\* The upsert is the vote; from it on the topic counts as turned if the vote is the
\* last one.
LEMMA CastWriteIsVote ==
  ASSUME TypeOK, TypeOK', RoomInv, PlayInv, NEW h \in Handlers, Step(h), CastWrite(h)
  PROVE  Game!Next \/ UNCHANGED Game!vars
  <1> DEFINE r == req[h]
  <1>1. \A g \in Handlers \ {h} : req[g] = Idle /\ req'[g] = Idle
    BY Alone
  <1>2. /\ r.op = "cast" /\ r.pc = "write" /\ r \in Request
        /\ r.who \in Seated \ watching /\ r.card \in deck /\ deck \in Decks
        /\ r.auto = autoReveal /\ (mode = "sync" => current = r.t)
        /\ r.t \in live /\ ~FaceUp(r.t)
    BY DEF CastWrite, At, PlayInv, StillTrue, VoteTrue, Lies, TypeOK
  <1>3. /\ votes' = [votes EXCEPT ![r.t][r.who] = r.card]
        /\ UNCHANGED <<mode, autoReveal, deck, current, seat, watching, online, live, topic>>
    BY <1>2 DEF CastWrite, Seated, room, people
  <1>4. \/ r.auto /\ \E pc \in {"mark", "list"} : req'[h] = [r EXCEPT !.pc = pc]
        \/ ~r.auto /\ (req'[h] = Idle \/ req'[h] = [r EXCEPT !.pc = "mark"])
    <2>1. r.auto \in BOOLEAN
      BY <1>2 DEF Request
    <2> QED
      BY <1>2, <2>1 DEF CastWrite, SeekReveal, Goto, Finish, Seated, TypeOK
  <1>5. /\ \A t : ~Tallying(r, t)
        /\ \A t : Tallying(req'[h], t) <=> r.auto /\ t = r.t
        /\ ~MovingOn(r) /\ ~MovingOn(req'[h])
    BY <1>2, <1>4 DEF Tallying, MovingOn, Idle, Request
  <1>6. Destination = current /\ Destination' = Destination
    BY <1>1, <1>3, <1>5, StaysPut
  <1>7. Roles' = Roles /\ Agreed' = Agreed
    BY <1>3 DEF Roles, Agreed
  <1>8. r.t \in Topics /\ r.who \in Players /\ r.card \in UNION Decks /\ r.t \in live \ Turned
    BY <1>1, <1>2, <1>5, TurnedAlone DEF TypeOK, Seated
  <1>9. Turned' = IF autoReveal /\ Game!Complete(votes'[r.t]) THEN Turned \cup {r.t} ELSE Turned
    <2>1. \A t : FaceUp(t)' <=> FaceUp(t)
      BY <1>3 DEF FaceUp
    <2>2. \A t : AllVoted(t)' <=> Game!Complete(votes'[t])
      <3>1. ExpectedVoters' = ExpectedVoters
        BY <1>3 DEF ExpectedVoters, Seated
      <3>2. Game!Awaited = ExpectedVoters
        BY SamePeople
      <3> QED
        BY <3>1, <3>2 DEF Game!Complete, AllVoted, HasCard
    <2>3. Turned = {t \in live : FaceUp(t)}
      BY <1>1, <1>5, TurnedAlone
    <2>4. Turned' = {t \in live : FaceUp(t) \/ (autoReveal /\ t = r.t /\ Game!Complete(votes'[t]))}
      BY <1>1, <1>2, <1>3, <1>5, <2>1, <2>2, TurnedAlone
    <2> QED
      BY <1>2, <2>3, <2>4
  <1>10. Roles[r.who] = "player"
    BY <1>2, SamePeople DEF Seated
  <1>11. Game!Vote(r.who, r.t, r.card)
    BY <1>2, <1>3, <1>6, <1>7, <1>8, <1>9, <1>10 DEF Game!Vote, Game!settings, Game!people
  <1> QED
    BY <1>8, <1>11 DEF Game!Next

\* Marking the topic is no move: it was face down, and is.
LEMMA CastMarkStutters ==
  ASSUME TypeOK, TypeOK', RoomInv, PlayInv, NEW h \in Handlers, Step(h), CastMark(h)
  PROVE  UNCHANGED Game!vars
  <1> DEFINE r == req[h]
  <1>1. \A g \in Handlers \ {h} : req[g] = Idle /\ req'[g] = Idle
    BY Alone
  <1>2. /\ r.op = "cast" /\ r.pc = "mark" /\ r \in Request
        /\ r.t \in live /\ ~FaceUp(r.t) /\ r.t \in Topics
    BY DEF CastMark, At, PlayInv, StillTrue, VoteTrue, Lies, TypeOK
  <1>3. /\ topic' = [topic EXCEPT ![r.t].status = "voting", ![r.t].revealedAt = FALSE]
        /\ UNCHANGED <<mode, autoReveal, deck, current, seat, watching, online, live, votes>>
    BY <1>2 DEF CastMark, room, people
  <1>4. IF r.auto THEN req'[h] = [r EXCEPT !.pc = "list"] ELSE req'[h] = Idle
    BY <1>2 DEF CastMark, SeekReveal, Goto, Finish, TypeOK
  <1>5. /\ \A t : Tallying(r, t) <=> Tallying(req'[h], t)
        /\ ~MovingOn(r) /\ ~MovingOn(req'[h])
    BY <1>2, <1>4 DEF Tallying, MovingOn, Idle, Request
  <1>6. Destination' = Destination
    BY <1>1, <1>3, <1>5, StaysPut
  <1>7. \A t \in Topics : (FaceUp(t)' <=> FaceUp(t))
                          /\ (topic'[t].status = "estimated" <=> topic[t].status = "estimated")
                          /\ topic'[t].final = topic[t].final
    BY <1>2, <1>3 DEF FaceUp, TypeOK
  <1>8. Roles' = Roles /\ Agreed' = Agreed
    BY <1>3, <1>7 DEF Roles, Agreed
  <1>9. \A t : AllVoted(t)' <=> AllVoted(t)
    BY <1>3 DEF AllVoted, ExpectedVoters, Seated, HasCard
  <1>10. Turned' = Turned
    <2>1. live \subseteq Topics
      BY DEF TypeOK
    <2> QED
      BY <1>1, <1>3, <1>5, <1>7, <1>9, <2>1, TurnedAlone
  <1> QED
    BY <1>3, <1>6, <1>8, <1>10 DEF Game!vars

\* The status write turns the cards, unless the last vote has turned them already.
LEMMA FlipIsReveal ==
  ASSUME TypeOK, TypeOK', RoomInv, PlayInv, NEW h \in Handlers, Step(h), Flip(h)
  PROVE  Game!Next \/ UNCHANGED Game!vars
  <1> DEFINE r == req[h]
  <1>1. \A g \in Handlers \ {h} : req[g] = Idle /\ req'[g] = Idle
    BY Alone
  <1>2. /\ r.pc = "flip" /\ r \in Request /\ r.t \in live /\ ~FaceUp(r.t) /\ r.t \in Topics
        /\ \/ r.op = "cast" /\ r.auto /\ AllVoted(r.t)
           \/ r.op = "reveal"
    BY DEF Flip, PlayInv, StillTrue, VoteTrue, TurnTrue, ResultTrue, MoveTrue, DeleteTrue,
       Lies, TypeOK
  <1>3. /\ topic' = [topic EXCEPT ![r.t].status = "revealed", ![r.t].revealedAt = TRUE]
        /\ UNCHANGED <<mode, autoReveal, deck, current, seat, watching, online, live, votes>>
        /\ req'[h] = Idle
    BY <1>2 DEF Flip, Finish, TypeOK, room, people
  <1>5. /\ \A t : Tallying(r, t) <=> r.op = "cast" /\ t = r.t
        /\ \A t : ~Tallying(req'[h], t)
        /\ ~MovingOn(r) /\ ~MovingOn(req'[h])
    BY <1>2, <1>3 DEF Tallying, MovingOn, Idle
  <1>6. Destination' = Destination
    BY <1>1, <1>3, <1>5, StaysPut
  <1>7. \A t \in Topics : (FaceUp(t)' <=> FaceUp(t) \/ t = r.t)
                          /\ (topic'[t].status = "estimated" <=> topic[t].status = "estimated")
                          /\ topic'[t].final = topic[t].final
    BY <1>2, <1>3 DEF FaceUp, TypeOK
  <1>8. Roles' = Roles /\ Agreed' = Agreed
    BY <1>3, <1>7 DEF Roles, Agreed
  <1>9. live \subseteq Topics
    BY DEF TypeOK
  <1>10. Turned' = Turned \cup {r.t}
    BY <1>1, <1>2, <1>3, <1>5, <1>7, <1>9, TurnedAlone
  <1>11. Game!Reveal(r.t)
    BY <1>2, <1>3, <1>6, <1>8, <1>10 DEF Game!Reveal, Game!settings, Game!people
  <1> QED
    BY <1>2, <1>11 DEF Game!Next

LEMMA ClearWriteIsTakeBack ==
  ASSUME TypeOK, TypeOK', RoomInv, PlayInv, NEW h \in Handlers, Step(h), ClearWrite(h)
  PROVE  Game!Next
  <1> DEFINE r == req[h]
  <1>1. \A g \in Handlers \ {h} : req[g] = Idle /\ req'[g] = Idle
    BY Alone
  <1>2. /\ r.op = "clear" /\ r.pc = "write" /\ r.t \in live /\ ~FaceUp(r.t)
        /\ r.t \in Topics /\ r.who \in Seated
    BY DEF ClearWrite, At, PlayInv, StillTrue, TurnTrue, Lies, TypeOK
  <1>3. /\ votes' = [votes EXCEPT ![r.t][r.who] = NoCard]
        /\ UNCHANGED <<mode, autoReveal, deck, current, seat, watching, online, live, topic>>
        /\ req'[h] = Idle
    BY DEF ClearWrite, Finish, TypeOK, room, people
  <1>4. /\ \A t : ~Tallying(r, t) /\ ~Tallying(req'[h], t)
        /\ ~MovingOn(r) /\ ~MovingOn(req'[h])
    BY <1>2, <1>3 DEF Tallying, MovingOn, Idle
  <1>5. Destination' = Destination
    BY <1>1, <1>3, <1>4, StaysPut
  <1>6. Roles' = Roles /\ Agreed' = Agreed
    BY <1>3 DEF Roles, Agreed
  <1>7. Turned' = Turned /\ r.t \notin Turned
    BY <1>1, <1>2, <1>3, <1>4, TurnedAlone DEF FaceUp
  <1>8. r.who \in Players /\ r.who \in Game!Members
    BY <1>2, SamePeople DEF Seated
  <1>9. Game!TakeBack(r.who, r.t)
    BY <1>2, <1>3, <1>5, <1>6, <1>7, <1>8 DEF Game!TakeBack, Game!settings, Game!people
  <1> QED
    BY <1>2, <1>8, <1>9 DEF Game!Next

LEMMA FinalizeWriteIsAgree ==
  ASSUME TypeOK, TypeOK', RoomInv, PlayInv, NEW h \in Handlers, Step(h), FinalizeWrite(h)
  PROVE  Game!Next
  <1> DEFINE r == req[h]
  <1>1. \A g \in Handlers \ {h} : req[g] = Idle /\ req'[g] = Idle
    BY Alone
  <1>2. /\ r.op = "finalize" /\ r.pc = "write" /\ r.t \in live /\ FaceUp(r.t)
        /\ r.t \in Topics /\ r.card \in deck \ Escapes /\ deck \in Decks
    BY DEF FinalizeWrite, At, PlayInv, StillTrue, ResultTrue, TypeOK
  <1>3. /\ topic' = [topic EXCEPT ![r.t].status = "estimated", ![r.t].final = r.card]
        /\ UNCHANGED <<mode, autoReveal, deck, current, seat, watching, online, live, votes>>
        /\ req'[h] = Idle
    BY <1>2 DEF FinalizeWrite, Finish, TypeOK, room, people
  <1>4. /\ \A t : ~Tallying(r, t) /\ ~Tallying(req'[h], t)
        /\ ~MovingOn(r) /\ ~MovingOn(req'[h])
    BY <1>2, <1>3 DEF Tallying, MovingOn, Idle
  <1>5. Destination' = Destination
    BY <1>1, <1>3, <1>4, StaysPut
  <1>6. /\ \A t \in Topics : FaceUp(t)' <=> FaceUp(t)
        /\ \A t \in Topics \ {r.t} : topic'[t] = topic[t]
        /\ topic'[r.t].status = "estimated" /\ topic'[r.t].final = r.card
    BY <1>2, <1>3 DEF FaceUp, TypeOK
  <1>7. Roles' = Roles
    BY <1>3 DEF Roles
  <1>8. Agreed' = [Agreed EXCEPT ![r.t] = r.card]
    BY <1>2, <1>6 DEF Agreed
  <1>9. live \subseteq Topics
    BY DEF TypeOK
  <1>10. Turned' = Turned /\ r.t \in Turned
    BY <1>1, <1>2, <1>3, <1>4, <1>6, <1>9, TurnedAlone
  <1>11. Game!Agree(r.t, r.card) /\ r.card \in UNION Decks
    BY <1>2, <1>3, <1>5, <1>7, <1>8, <1>10 DEF Game!Agree, Game!settings, Game!people
  <1> QED
    BY <1>2, <1>11 DEF Game!Next

\* Deleting the row drops the topic; the room counts as being where it will go.
LEMMA DeleteWriteIsDrop ==
  ASSUME TypeOK, TypeOK', RoomInv, PlayInv, ColumnsAgree, NEW h \in Handlers, Step(h),
         DeleteWrite(h)
  PROVE  Game!Next \/ UNCHANGED Game!vars
  <1> DEFINE r == req[h]
  <1>1. \A g \in Handlers \ {h} : req[g] = Idle /\ req'[g] = Idle
    BY Alone
  <1>2. /\ r.op = "delete" /\ r.pc = "write" /\ r.cur = current /\ r \in Request
        /\ ~MovingOn(r) /\ \A t : ~Tallying(r, t)
    BY DEF DeleteWrite, At, PlayInv, StillTrue, DeleteTrue, MovingOn, Tallying, TypeOK
  <1>3. UNCHANGED <<mode, autoReveal, deck, current, seat, watching, online>>
    BY DEF DeleteWrite, room, people
  <1>4. Roles' = Roles
    BY <1>3 DEF Roles
  <1>5. CASE r.t \notin live
    <2>1. req'[h] = Idle /\ UNCHANGED <<live, topic, votes>>
      BY <1>5 DEF DeleteWrite, Finish, TypeOK, board
    <2>2. ~MovingOn(req'[h]) /\ \A t : ~Tallying(req'[h], t)
      BY <2>1 DEF MovingOn, Tallying, Idle
    <2>3. Destination' = Destination
      BY <1>1, <1>2, <1>3, <2>2, StaysPut
    <2>4. Agreed' = Agreed
      BY <2>1 DEF Agreed
    <2>5. Turned' = Turned
      BY <1>1, <1>2, <2>1, <2>2, TurnedAlone DEF FaceUp
    <2> QED
      BY <1>3, <1>4, <2>1, <2>3, <2>4, <2>5 DEF Game!vars
  <1>6. CASE r.t \in live
    <2>1. /\ live' = live \ {r.t}
          /\ topic' = [topic EXCEPT ![r.t] = Fresh]
          /\ votes' = [votes EXCEPT ![r.t] = NoCards]
      BY <1>6 DEF DeleteWrite
    <2>2. IF r.t = current THEN req'[h] = [r EXCEPT !.pc = "pick"] ELSE req'[h] = Idle
      BY <1>2, <1>6 DEF DeleteWrite, Goto, Finish, TypeOK
    <2>3. /\ MovingOn(req'[h]) <=> r.t = current
          /\ \A t : ~Tallying(req'[h], t)
      BY <1>2, <2>2 DEF MovingOn, Tallying, Idle, Request
    <2>4. r.t \in Topics /\ live \subseteq Topics
      BY <1>6 DEF TypeOK
    <2>5. \A t \in Topics \ {r.t} : topic'[t] = topic[t]
      BY <2>1, <2>4 DEF TypeOK
    <2>6. topic'[r.t].status = "pending"
      BY <2>1, <2>4 DEF TypeOK, Fresh
    <2>7. Agreed' = [Agreed EXCEPT ![r.t] = NoCard]
      BY <2>4, <2>5, <2>6 DEF Agreed
    <2>8. Turned' = Turned \ {r.t}
      BY <1>1, <1>2, <2>1, <2>3, <2>4, <2>5, TurnedAlone DEF FaceUp
    <2>9. votes' = [votes EXCEPT ![r.t] = Game!NoCards]
      BY <2>1 DEF NoCards, Game!NoCards
    <2>10. Leaving' <=> r.t = current
      BY <1>1, <2>3, CountsAlone
    <2>11. Destination = current
      BY <1>1, <1>2, CountsAlone DEF Destination
    <2>12. r.t = current => /\ Destination' \in Topics \cup {NoTopic}
                            /\ Game!Successor(Destination', live')
      <3>1. SUFFICES ASSUME r.t = current
                     PROVE  /\ Destination' \in Topics \cup {NoTopic}
                            /\ Game!Successor(Destination', live')
        OBVIOUS
      <3>2. Destination' \in live' \cup {NoTopic} /\ IsFirstUnestimated(Destination)'
        BY <2>10, <3>1, DestinationIsFirstPrime
      <3>3. \A t \in live' : topic'[t].status # "estimated" <=> Agreed[t] = NoCard
        <4>1. ASSUME NEW t \in live' PROVE topic'[t].status # "estimated" <=> Agreed[t] = NoCard
          <5>1. t \in Topics /\ topic'[t] = topic[t]
            BY <2>1, <2>4, <2>5
          <5>2. topic[t].status = "estimated" => topic[t].final # NoCard
            BY <5>1, CardAssumption DEF ColumnsAgree, Cards
          <5> QED
            BY <5>1, <5>2 DEF Agreed
        <4> QED
          BY <4>1
      <3>4. {u \in live' : topic'[u].status # "estimated"} = {u \in live' : Agreed[u] = NoCard}
        BY <3>3
      <3> QED
        BY <2>1, <2>4, <3>2, <3>4 DEF IsFirstUnestimated, Game!Successor
    <2>13. r.t # current => Destination' = Destination
      BY <1>3, <2>10, <2>11 DEF Destination
    <2>14. Game!Drop(r.t)
      BY <1>3, <1>4, <1>6, <2>1, <2>7, <2>8, <2>9, <2>11, <2>12, <2>13
         DEF Game!Drop, Game!settings, Game!people
    <2> QED
      BY <2>4, <2>14 DEF Game!Next
  <1> QED
    BY <1>5, <1>6

\* Pointing the room somewhere is a move, unless a topic has been dropped and the
\* room counts as being there already.
LEMMA PointIsLead ==
  ASSUME TypeOK, TypeOK', RoomInv, PlayInv, NEW h \in Handlers, Step(h), Point(h)
  PROVE  Game!Next \/ UNCHANGED Game!vars
  <1> DEFINE r == req[h]
  <1>1. \A g \in Handlers \ {h} : req[g] = Idle /\ req'[g] = Idle
    BY Alone
  <1>2. /\ r.pc = "point" /\ r.op \in {"delete", "focus", "next", "prev"}
        /\ r.op = "delete" => IsFirstUnestimated(r.t)
        /\ r.op # "delete" => /\ mode = "sync" /\ r.who \in Seated /\ MayMove(r)
                              /\ r.t \in live
    BY DEF Point, PlayInv, StillTrue, VoteTrue, TurnTrue, ResultTrue, MoveTrue, DeleteTrue
  <1>3. /\ current' = r.t /\ req'[h] = Idle
        /\ UNCHANGED <<mode, autoReveal, deck, seat, watching, online, live, topic, votes>>
    BY DEF Point, Finish, TypeOK, people, board
  <1>4. /\ \A t : ~Tallying(r, t) /\ ~Tallying(req'[h], t)
        /\ ~MovingOn(req'[h]) /\ (MovingOn(r) <=> r.op = "delete")
    BY <1>2, <1>3 DEF Tallying, MovingOn, Idle
  <1>5. Roles' = Roles /\ Agreed' = Agreed
    BY <1>3 DEF Roles, Agreed
  <1>6. Turned' = Turned /\ \A t \in live : t \in Turned <=> FaceUp(t)
    BY <1>1, <1>3, <1>4, TurnedAlone DEF FaceUp
  <1>7. Destination' = r.t
    BY <1>1, <1>3, <1>4, CountsAlone DEF Destination
  <1>8. CASE r.op = "delete"
    <2>1. IsFirstUnestimated(Destination)
      BY <1>1, <1>4, <1>8, CountsAlone, DestinationIsFirst
    <2>2. Destination = r.t
      BY <1>2, <1>8, <2>1, FirstIsOne
    <2> QED
      BY <1>3, <1>5, <1>6, <1>7, <2>2 DEF Game!vars
  <1>9. CASE r.op # "delete"
    <2>1. Destination = current
      BY <1>1, <1>4, <1>9, CountsAlone DEF Destination
    <2>2. Game!MayLead(r.who) /\ r.who \in Players /\ r.t \in Topics
      <3>1. r.who \in Players /\ r.who \in Game!Members /\ r.t \in Topics
        BY <1>2, <1>9, SamePeople DEF Seated, TypeOK
      <3> QED
        BY <1>2, <1>6, <1>9, <2>1, <3>1 DEF Game!MayLead, MayMove
    <2>3. Game!Lead(r.who, r.t)
      BY <1>2, <1>3, <1>5, <1>6, <1>7, <1>9, <2>2
         DEF Game!Lead, Game!settings, Game!people, Game!board
    <2> QED
      BY <2>2, <2>3 DEF Game!Next
  <1> QED
    BY <1>8, <1>9

LEMMA StepIsMove ==
  ASSUME TypeOK, TypeOK', RoomInv, PlayInv, ColumnsAgree, NEW h \in Handlers, Step(h)
  PROVE  Game!Next \/ UNCHANGED Game!vars
  BY ReadsStutter, CastWriteIsVote, CastMarkStutters, FlipIsReveal, ClearWriteIsTakeBack,
     FinalizeWriteIsAgree, DeleteWriteIsDrop, PointIsLead DEF Step

-----------------------------------------------------------------------------
\* What is done in one step, and the start of a request.

LEMMA StartStutters ==
  ASSUME TypeOK, TypeOK', ServedSingly, NEW h \in Handlers, Start(h)
  PROVE  UNCHANGED Game!vars
  <1>1. Quiet /\ \A g \in Handlers \ {h} : req[g] = Idle /\ req'[g] = Idle
    BY StartsAlone DEF Quiet
  <1>2. ~MovingOn(req[h]) /\ \A t : ~Tallying(req[h], t)
    BY <1>1 DEF Quiet, MovingOn, Tallying, Idle
  <1>3. UNCHANGED <<room, people, board>> /\ ~MovingOn(req'[h]) /\ \A t : ~Tallying(req'[h], t)
    BY StartTrue DEF MovingOn, Tallying
  <1>4. ~Leaving /\ ~Leaving' /\ \A t : ~Counting(t) /\ ~Counting(t)'
    BY <1>1, <1>2, <1>3, CountsAlone
  <1>5. Leaving' = Leaving
    BY <1>4, Zenon DEF Leaving
  <1> QED
    BY <1>3, <1>4, <1>5, Unmoved

\* Between the requests the game is what the rows say.
LEMMA QuietGame ==
  Quiet => /\ Destination = current /\ Turned = {t \in live : FaceUp(t)}
           /\ ~Leaving
  BY DEF Quiet, Idle, Destination, Leaving, Turned, Counting

LEMMA QuietGamePrime ==
  Quiet' => (/\ Destination = current /\ Turned = {t \in live : FaceUp(t)})'
  BY QuietGame, PTL

LEMMA HostWriteIsMove ==
  ASSUME TypeOK, TypeOK', PlayInv, ServedSingly, HostWrite
  PROVE  Game!Next
  <1>1. Quiet /\ Quiet'
    BY OneStepAlone DEF Quiet
  <1>2. /\ Destination = current /\ Turned = {t \in live : FaceUp(t)}
        /\ Destination' = current' /\ Turned' = {t \in live' : FaceUp(t)'}
    BY <1>1, QuietGame, QuietGamePrime
  <1>3. ASSUME NEW t \in Topics, ResetTopic(t) PROVE Game!Next
    <2>1. /\ t \in live
          /\ topic' = [topic EXCEPT ![t] = Fresh]
          /\ votes' = [votes EXCEPT ![t] = Game!NoCards]
          /\ UNCHANGED <<mode, autoReveal, deck, current, seat, watching, online, live>>
      BY <1>3 DEF ResetTopic, room, people, NoCards, Game!NoCards
    <2>2. /\ \A u \in Topics \ {t} : topic'[u] = topic[u]
          /\ topic'[t].status = "pending"
      BY <2>1 DEF TypeOK, Fresh
    <2>3. Agreed' = [Agreed EXCEPT ![t] = NoCard]
      BY <2>2 DEF Agreed
    <2>4. Turned' = Turned \ {t}
      BY <1>2, <2>1, <2>2 DEF FaceUp, TypeOK
    <2>5. Roles' = Roles
      BY <2>1 DEF Roles
    <2>6. Game!VoteAgain(t)
      BY <1>2, <2>1, <2>3, <2>4, <2>5 DEF Game!VoteAgain, Game!settings, Game!people
    <2> QED
      BY <2>6 DEF Game!Next
  <1>4. ASSUME NEW p \in Players, KickParticipant(p) PROVE Game!Next
    <2>1. /\ p \in Seated \ {Host}
          /\ seat' = [seat EXCEPT ![p] = "gone"] /\ watching' = watching \ {p}
          /\ votes' = [t \in Topics |-> [votes[t] EXCEPT ![p] = NoCard]]
          /\ UNCHANGED <<mode, autoReveal, deck, current, online, live, topic>>
      BY <1>4 DEF KickParticipant, room
    <2>2. Roles' = [Roles EXCEPT ![p] = "gone"]
      BY <2>1 DEF Roles, TypeOK
    <2>3. Agreed' = Agreed
      BY <2>1 DEF Agreed
    <2>4. Turned' = Turned /\ Destination' = Destination
      BY <1>2, <2>1 DEF FaceUp
    <2>5. p \in Game!Members \ {Host}
      BY <2>1, SamePeople
    <2>6. Game!Remove(p)
      BY <2>1, <2>2, <2>3, <2>4, <2>5 DEF Game!Remove, Game!settings
    <2> QED
      BY <2>6 DEF Game!Next
  <1>5. ASSUME \/ \E d \in Decks : SetDeck(d)
               \/ \E auto \in BOOLEAN : UpdateRoomSettings(auto)
        PROVE  Game!Next
    <2>1. /\ autoReveal' \in BOOLEAN /\ deck' \in Decks
          /\ UNCHANGED <<mode, current, seat, watching, online, live, topic, votes>>
      BY <1>5 DEF SetDeck, UpdateRoomSettings, PlayInv, TypeOK, people, board
    <2>2. Roles' = Roles /\ Agreed' = Agreed
      BY <2>1 DEF Roles, Agreed
    <2>3. Turned' = Turned /\ Destination' = Destination
      BY <1>2, <2>1 DEF FaceUp
    <2>4. Game!ChangeSettings
      BY <2>1, <2>2, <2>3 DEF Game!ChangeSettings, Game!people, Game!board
    <2> QED
      BY <2>4 DEF Game!Next
  <1> QED
    BY <1>3, <1>4, <1>5 DEF HostWrite

LEMMA MembershipIsMove ==
  ASSUME TypeOK, TypeOK', ServedSingly, Membership
  PROVE  Game!Next
  <1>1. Quiet /\ Quiet'
    BY OneStepAlone DEF Quiet
  <1>2. /\ Destination = current /\ Turned = {t \in live : FaceUp(t)}
        /\ Destination' = current' /\ Turned' = {t \in live' : FaceUp(t)'}
    BY <1>1, QuietGame, QuietGamePrime
  <1>3. UNCHANGED <<mode, autoReveal, deck, current, live, topic, votes>>
    BY DEF Membership, JoinRoom, UpdateProfile, Connect, Disconnect, room, board
  <1>4. Turned' = Turned /\ Destination' = Destination /\ Agreed' = Agreed
    BY <1>2, <1>3 DEF FaceUp, Agreed
  <1>5. ASSUME NEW p \in Players, NEW asObserver \in BOOLEAN, JoinRoom(p, asObserver)
        PROVE  Game!Next
    <2>1. /\ seat[p] = "new" /\ seat' = [seat EXCEPT ![p] = "seated"]
          /\ watching' = (IF asObserver THEN watching \cup {p} ELSE watching)
          /\ UNCHANGED online
      BY <1>5 DEF JoinRoom
    <2>2. Roles[p] = "new"
          /\ Roles' = [Roles EXCEPT ![p] = IF p \in watching' THEN "observer" ELSE "player"]
      BY <2>1, ZenonT(60) DEF Roles, TypeOK
    <2>3. Game!Sit(p)
      BY <1>3, <1>4, <2>1, <2>2 DEF Game!Sit, Game!settings, Game!board
    <2> QED
      BY <2>3 DEF Game!Next
  <1>6. ASSUME NEW p \in Players, NEW asObserver \in BOOLEAN, UpdateProfile(p, asObserver)
        PROVE  Game!Next
    <2>1. /\ p \in Seated
          /\ watching' = (IF asObserver THEN watching \cup {p} ELSE watching \ {p})
          /\ UNCHANGED <<seat, online>>
      BY <1>6 DEF UpdateProfile
    <2>2. Roles' = [Roles EXCEPT ![p] = IF asObserver THEN "observer" ELSE "player"]
      BY <2>1 DEF Roles, Seated, TypeOK
    <2>3. p \in Game!Members
      BY <2>1, SamePeople
    <2>4. Game!SwitchRole(p)
      BY <1>3, <1>4, <2>1, <2>2, <2>3 DEF Game!SwitchRole, Game!settings, Game!board
    <2> QED
      BY <2>4 DEF Game!Next
  <1>7. ASSUME NEW p \in Players, Connect(p) \/ Disconnect(p) PROVE Game!Next
    <2>1. online' \in SUBSET Players /\ UNCHANGED <<seat, watching>>
      BY <1>7 DEF Connect, Disconnect, TypeOK
    <2>2. Roles' = Roles
      BY <2>1 DEF Roles
    <2>3. Game!ComeAndGo
      BY <1>3, <1>4, <2>1, <2>2 DEF Game!ComeAndGo, Game!settings, Game!board
    <2> QED
      BY <2>3 DEF Game!Next
  <1> QED
    BY <1>5, <1>6, <1>7 DEF Membership

LEMMA InitIsInit == Init => Game!Init
  <1> SUFFICES ASSUME Init PROVE Game!Init
    OBVIOUS
  <1>1. TypeOK /\ Quiet
    BY InitType DEF Init, Quiet
  <1>2. Destination = current /\ Turned = {}
    BY <1>1, QuietGame DEF Init, FaceUp, Fresh
  <1>3. Agreed = [t \in Topics |-> NoCard] /\ votes = [t \in Topics |-> Game!NoCards]
    BY DEF Agreed, Init, Fresh, NoCards, Game!NoCards
  <1>4. Roles \in [Players -> {"new", "player", "observer"}] /\ Roles[Host] # "new"
    BY HostAssumption DEF Roles, Init
  <1>5. online \in SUBSET Game!Members
    BY <1>1, SamePeople DEF Init
  <1>6. current \in Topics \cup {NoTopic}
    BY DEF Init
  <1> QED
    BY <1>2, <1>3, <1>4, <1>5, <1>6, ModeAssumption DEF Init, Game!Init, Mode

LEMMA NextIsMove ==
  ASSUME TypeOK, TypeOK', RoomInv, PlayInv, ColumnsAgree, ServedSingly, [Next]_vars
  PROVE  [Game!Next]_Game!vars
  <1>1. CASE UNCHANGED vars
    BY <1>1 DEF vars, Game!vars, Roles, Turned, Agreed, Destination, Counting, Leaving,
       AllVoted, ExpectedVoters, Seated, HasCard, FaceUp, IsFirstUnestimated
  <1>2. ASSUME NEW h \in Handlers PROVE ~Abort(h)
    BY DEF Abort, ServedSingly
  <1> QED
    BY <1>1, <1>2, StepIsMove, StartStutters, HostWriteIsMove, MembershipIsMove DEF Next

\* When requests are served one at a time and none stops half way, the statements of
\* every request add up to one move of PlanningPoker, and whoever plays does so by
\* its rules: a room with any number of players, topics and cards is that game.
THEOREM SinglyPlaysPlanningPoker == ServedSingly => (Spec => PlaysPlanningPoker)
  <1> SUFFICES ASSUME ServedSingly PROVE Spec => Game!Spec
    BY DEF PlaysPlanningPoker
  <1>1. Init => RoomInv /\ PlayInv
    <2>1. Init => RoomInv
      BY IdleGuided DEF Init, RoomInv, OnTopic
    <2>2. Init => Quiet /\ deck \in Decks
      BY DEF Init, Quiet
    <2> QED
      BY <2>1, <2>2, QuietIsTrue DEF PlayInv
  <1>2. TypeOK /\ RoomInv /\ PlayInv /\ [Next]_vars => RoomInv' /\ PlayInv'
    BY NextRoom, NextPlay
  <1>3. TypeOK /\ TypeOK' /\ RoomInv /\ PlayInv /\ ColumnsAgree /\ [Next]_vars
          => [Game!Next]_Game!vars
    BY NextIsMove
  <1> QED
    BY <1>1, <1>2, <1>3, InitIsInit, TypeCorrect, ColumnsAlwaysAgree, PTL DEF Spec, Game!Spec

-----------------------------------------------------------------------------
\* Cards that are face up

\* Of all statements only two turn cards face down: the reset, and the mark of a vote
\* that had read the topic as pending.
LEMMA WhoTurnsDown ==
  ASSUME TypeOK, [Next]_vars, NEW t \in live', FaceUp(t), ~FaceUp(t)'
  PROVE  ResetTopic(t) \/ \E h \in Handlers : CastMark(h) /\ req[h].t = t /\ t \in live
  <1>1. topic' # topic
    BY DEF FaceUp
  <1>2. ASSUME NEW h \in Handlers, CastMark(h) PROVE req[h].t = t /\ t \in live
    <2>1. CASE req[h].t \in live /\ topic' = [topic EXCEPT ![req[h].t].status = "voting",
                                                           ![req[h].t].revealedAt = FALSE]
      <3>1. t \in Topics /\ live' = live
        BY <1>2 DEF CastMark, TypeOK
      <3>2. t # req[h].t => topic'[t] = topic[t]
        BY <2>1, <3>1 DEF TypeOK
      <3> QED BY <3>1, <3>2 DEF FaceUp
    <2> QED BY <1>1, <1>2, <2>1 DEF CastMark
  <1>3. ASSUME NEW h \in Handlers, Flip(h) \/ FinalizeWrite(h) \/ DeleteWrite(h) PROVE FALSE
    <2> DEFINE u == req[h].t
    <2>1. t \in Topics
      BY <1>3 DEF Flip, FinalizeWrite, DeleteWrite, board, TypeOK
    <2>2. CASE Flip(h)
      <3>1. topic' = [topic EXCEPT ![u].status = "revealed", ![u].revealedAt = TRUE]
        BY <1>1, <2>2 DEF Flip
      <3>2. topic'[t].status \in {"revealed", topic[t].status}
        BY <2>1, <3>1 DEF TypeOK
      <3> QED BY <3>2 DEF FaceUp
    <2>3. CASE FinalizeWrite(h)
      <3>1. topic' = [topic EXCEPT ![u].status = "estimated", ![u].final = req[h].card]
        BY <1>1, <2>3 DEF FinalizeWrite
      <3>2. topic'[t].status \in {"estimated", topic[t].status}
        BY <2>1, <3>1 DEF TypeOK
      <3> QED BY <3>2 DEF FaceUp
    <2>4. CASE DeleteWrite(h)
      <3>1. topic' = [topic EXCEPT ![u] = Fresh] /\ live' = live \ {u}
        BY <1>1, <2>4 DEF DeleteWrite, board
      <3>2. topic'[t] = topic[t]
        BY <2>1, <3>1 DEF TypeOK
      <3> QED BY <3>2 DEF FaceUp
    <2> QED BY <1>3, <2>2, <2>3, <2>4
  <1>4. ASSUME NEW u \in Topics, ResetTopic(u) PROVE u = t
    <2>1. t \in Topics /\ topic' = [topic EXCEPT ![u] = Fresh]
      BY <1>4 DEF ResetTopic, TypeOK
    <2>2. t # u => topic'[t] = topic[t]
      BY <2>1 DEF TypeOK
    <2> QED BY <2>2 DEF FaceUp
  <1>5. \/ \E h \in Handlers : CastMark(h) \/ Flip(h) \/ FinalizeWrite(h) \/ DeleteWrite(h)
        \/ \E u \in Topics : ResetTopic(u)
    <2>1. ASSUME NEW h \in Handlers, Start(h) \/ Abort(h) PROVE FALSE
      <3>1. UNCHANGED board
        <4>1. CASE Start(h)
          BY <4>1, Zenon DEF Start, StartCast, StartClear, StartReveal, StartFinalize,
             StartDelete, StartFocus, StartAdvance
        <4>2. CASE Abort(h)
          BY <4>2, Zenon DEF Abort, Answer
        <4> QED BY <2>1, <4>1, <4>2
      <3> QED BY <1>1, <3>1 DEF board
    <2>2. ASSUME NEW h \in Handlers, Step(h)
          PROVE  CastMark(h) \/ Flip(h) \/ FinalizeWrite(h) \/ DeleteWrite(h)
      BY <1>1, <2>2 DEF Step, CastRead, CastWrite, CastList, CastTally, ClearRead,
         ClearWrite, RevealRead, FinalizeRead, DeletePick, Control, FocusRead,
         AdvancePick, Point, ReadTopic, board
    <2>3. Membership => FALSE
      BY <1>1 DEF Membership, JoinRoom, UpdateProfile, Connect, Disconnect, board
    <2>4. HostWrite => \E u \in Topics : ResetTopic(u)
      BY <1>1 DEF HostWrite, SetDeck, UpdateRoomSettings, KickParticipant, board
    <2>5. Next
      BY <1>1 DEF vars, board
    <2> QED BY <2>1, <2>2, <2>3, <2>4, <2>5 DEF Next
  <1> QED BY <1>2, <1>3, <1>4, <1>5

\* When requests are served one at a time, cards that are face up stay so until the
\* host has the team vote again: a vote marks no topic but one that is still pending.
\* Served side by side they need not, as RevealTopic and CastVote do not exclude each
\* other.
THEOREM SinglyCardsStayUp == ServedSingly => (Spec => FaceUpStays)
  <1> SUFFICES ASSUME ServedSingly PROVE Spec => FaceUpStays
    OBVIOUS
  <1>1. Init => RoomInv /\ PlayInv
    <2>1. Init => RoomInv
      BY IdleGuided DEF Init, RoomInv, OnTopic
    <2>2. Init => Quiet /\ deck \in Decks
      BY DEF Init, Quiet
    <2> QED
      BY <2>1, <2>2, QuietIsTrue DEF PlayInv
  <1>2. TypeOK /\ RoomInv /\ PlayInv /\ [Next]_vars => RoomInv' /\ PlayInv'
    BY NextRoom, NextPlay
  <1>3. TypeOK /\ PlayInv /\ [Next]_vars
          => [\A t \in live' : FaceUp(t) /\ ~FaceUp(t)' => ResetTopic(t)]_vars
    <2> SUFFICES ASSUME TypeOK, PlayInv, [Next]_vars, NEW t \in live', FaceUp(t), ~FaceUp(t)'
                 PROVE  ResetTopic(t)
      OBVIOUS
    <2>1. ASSUME NEW h \in Handlers, CastMark(h) PROVE ~FaceUp(req[h].t)
      BY <2>1 DEF CastMark, At, PlayInv, StillTrue, VoteTrue, Lies
    <2> QED BY <2>1, WhoTurnsDown
  <1> QED
    BY <1>1, <1>2, <1>3, TypeCorrect, PTL DEF Spec, FaceUpStays

=============================================================================
