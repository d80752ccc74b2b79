------------------------------- MODULE Rounds -------------------------------
(***************************************************************************)
(* The voting rounds of one estimeet room: who sits in it, which cards lie *)
(* on which topic, which topics are face up, and the requests that change  *)
(* them.  Every HTTP request runs in a goroutine of its own and talks to   *)
(* the database one statement at a time, so a request is modelled as a     *)
(* record that remembers what it has read so far (req[h]) and every        *)
(* statement is one action; the statements of different requests           *)
(* interleave freely.                                                      *)
(*                                                                         *)
(* The session (participant row, then room row) is read before the handler *)
(* runs and is never read again: it is one step here, the Start actions,   *)
(* which also make every check that needs nothing but the session.  A      *)
(* request refused by such a check changes nothing and is not represented. *)
(***************************************************************************)
EXTENDS Naturals, FiniteSets

CONSTANTS
  Players,    \* participant rows that can ever exist (a row id is never reused)
  Host,       \* the row CreateRoom seats, the only one with is_host
  Topics,     \* topic rows of the backlog, numbered in backlog order
  Estimates,  \* cards that can be an agreed result
  Escapes,    \* the cards "?" and "coffee"
  NoCard,     \* SQL NULL, or no row, where a card could be
  Decks,      \* decks the host may choose
  Modes,      \* room modes to start from
  Autos,      \* values of auto_reveal to start from
  Handlers,   \* goroutines serving requests at the same time
  Ops,        \* kinds of request and of event that occur (bounds an instance)
  Serial      \* TRUE for an instance that serves one request at a time

NoTopic == 0
Cards   == Estimates \cup Escapes
Mode    == {"sync", "async"}
Status  == {"pending", "voting", "revealed", "estimated"}

AllOps ==
  {"cast", "clear", "reveal", "reset", "finalize", "delete", "focus", "next",
   "prev", "kick", "profile", "settings", "deck", "join", "connect",
   "disconnect", "abort"}

ASSUME HostAssumption  == Host \in Players
ASSUME TopicAssumption == Topics \subseteq Nat \ {NoTopic}
ASSUME CardAssumption  == /\ NoCard \notin Cards
                          /\ Estimates \cap Escapes = {}
ASSUME DeckAssumption  == Decks \subseteq SUBSET Cards
ASSUME ModeAssumption  == Modes \subseteq Mode /\ Autos \subseteq BOOLEAN
ASSUME OpsAssumption   == Ops \subseteq AllOps /\ Serial \in BOOLEAN

VARIABLES
  mode,        \* rooms.mode, fixed when the room is created
  autoReveal,  \* rooms.auto_reveal
  deck,        \* rooms.deck
  current,     \* rooms.current_topic_id
  seat,        \* "new" before the participant row exists, "gone" after
  watching,    \* rows with is_observer
  online,      \* participants with a client registered in the hub
  live,        \* topics that have a row
  topic,       \* status, revealed_at (set or NULL) and final_estimate
  votes,       \* the votes table: the card of each player on each topic
  req          \* the requests in flight

room   == <<mode, autoReveal, deck, current>>
people == <<seat, watching, online>>
board  == <<live, topic, votes>>
vars   == <<mode, autoReveal, deck, current, seat, watching, online, live,
            topic, votes, req>>

-----------------------------------------------------------------------------
\* State the requests read.

Seated == {p \in Players : seat[p] = "seated"}

FaceUp(t) == topic[t].status \in {"revealed", "estimated"}

HasCard(t, p) == votes[t][p] # NoCard

\* The players whose cards auto-reveal waits for.
ExpectedVoters ==
  {p \in Seated \ watching : mode = "sync" => p \in online}

Fresh   == [status |-> "pending", revealedAt |-> FALSE, final |-> NoCard]
NoCards == [p \in Players |-> NoCard]

\* A handler that serves nobody; a request starts as a variant of it.
Idle ==
  [op |-> "none", pc |-> "idle", who |-> Host, t |-> NoTopic, card |-> NoCard,
   cur |-> NoTopic, auto |-> FALSE, seen |-> "pending", expected |-> {}]

PCs == {"idle", "read", "write", "mark", "list", "tally", "flip", "control",
        "pick", "point"}

Request ==
  [op : AllOps \cup {"none"}, pc : PCs, who : Players,
   t : Topics \cup {NoTopic}, card : Cards \cup {NoCard},
   cur : Topics \cup {NoTopic}, auto : BOOLEAN, seen : Status,
   expected : SUBSET Players]

-----------------------------------------------------------------------------
\* Moving a request along.

Quiet == \A h \in Handlers : req[h] = Idle

\* A request or an event of kind op may come now.
Occurs(op) == op \in Ops /\ (Serial => Quiet)

Serve(h, r) == /\ req[h] = Idle
               /\ Occurs(r.op)
               /\ req' = [req EXCEPT ![h] = r]

At(h, op, pc) == req[h].op = op /\ req[h].pc = pc

Goto(h, pc) == req' = [req EXCEPT ![h].pc = pc]
Finish(h)   == req' = [req EXCEPT ![h] = Idle]

\* The request is answered here, with success or with an error, and changes
\* nothing in the database.
Answer(h) == Finish(h) /\ UNCHANGED <<room, people, board>>

Init ==
  /\ mode \in Modes
  /\ autoReveal \in Autos
  /\ deck \in Decks
  /\ current \in IF mode = "sync" THEN Topics \cup {NoTopic} ELSE {NoTopic}
  /\ seat \in {s \in [Players -> {"new", "seated"}] : s[Host] = "seated"}
  /\ watching \in SUBSET Seated
  /\ online \in SUBSET Seated
  /\ live = Topics
  /\ topic = [t \in Topics |-> Fresh]
  /\ votes = [t \in Topics |-> NoCards]
  /\ req = [h \in Handlers |-> Idle]

-----------------------------------------------------------------------------
\* CastVote: upsert the card, mark a pending topic as voting, then see whether
\* everybody has voted.  The statuses and settings it acts on are those it read
\* first (seen, auto).

StartCast(h) ==
  /\ \E p \in Seated \ watching, t \in Topics, c \in deck :
       /\ mode = "sync" => current = t
       /\ Serve(h, [Idle EXCEPT !.op = "cast", !.pc = "read", !.who = p,
                                !.t = t, !.card = c, !.auto = autoReveal])
  /\ UNCHANGED <<room, people, board>>

CastRead(h) ==
  /\ At(h, "cast", "read")
  /\ LET t == req[h].t IN
     \/ /\ t \in live /\ ~FaceUp(t)
        /\ req' = [req EXCEPT ![h].pc = "write",
                              ![h].seen = topic[t].status]
     \/ /\ t \notin live \/ FaceUp(t)
        /\ Finish(h)
  /\ UNCHANGED <<room, people, board>>

\* What follows the vote's own writes: maybeAutoReveal, unless the session saw
\* auto-reveal switched off.
SeekReveal(h) ==
  \/ req[h].auto /\ Goto(h, "list")
  \/ ~req[h].auto /\ Finish(h)

\* Faulty variant of CastWrite: no foreign key ties a vote to a participant.
CastWriteUnowned(h) ==
  /\ At(h, "cast", "write")
  /\ LET r == req[h] IN
     /\ votes' = [votes EXCEPT ![r.t][r.who] = r.card]
     /\ IF r.seen = "pending" THEN Goto(h, "mark") ELSE SeekReveal(h)
  /\ UNCHANGED <<room, people, live, topic>>

\* The upsert.  Its foreign keys refuse a topic or a participant that has gone.
CastWrite(h) ==
  /\ At(h, "cast", "write")
  /\ LET r == req[h] IN
     \/ /\ r.t \in live /\ r.who \in Seated
        /\ votes' = [votes EXCEPT ![r.t][r.who] = r.card]
        /\ IF r.seen = "pending" THEN Goto(h, "mark") ELSE SeekReveal(h)
     \/ /\ r.t \notin live \/ r.who \notin Seated
        /\ Finish(h)
        /\ UNCHANGED votes
  /\ UNCHANGED <<room, people, live, topic>>

\* Faulty variant of CastMark: returns once the topic is marked.
CastMarkOnly(h) ==
  /\ At(h, "cast", "mark")
  /\ LET t == req[h].t IN
     IF t \in live
     THEN topic' = [topic EXCEPT ![t].status = "voting",
                                 ![t].revealedAt = FALSE]
     ELSE UNCHANGED topic
  /\ Finish(h)
  /\ UNCHANGED <<room, people, live, votes>>

\* UpdateTopicStatus(voting, NULL), whatever the status is by now.
CastMark(h) ==
  /\ At(h, "cast", "mark")
  /\ LET t == req[h].t IN
     \/ /\ t \in live
        /\ topic' = [topic EXCEPT ![t].status = "voting",
                                  ![t].revealedAt = FALSE]
        /\ SeekReveal(h)
     \/ /\ t \notin live
        /\ Finish(h)
        /\ UNCHANGED topic
  /\ UNCHANGED <<room, people, live, votes>>

\* Faulty variant of CastList: waits for the observers too.
CastListEveryone(h) ==
  /\ At(h, "cast", "list")
  /\ req' = [req EXCEPT ![h].pc = "tally", ![h].expected = Seated]
  /\ UNCHANGED <<room, people, board>>

\* maybeAutoReveal: who is expected, then who has voted, then the reveal, each
\* a statement of its own.
CastList(h) ==
  /\ At(h, "cast", "list")
  /\ \/ /\ ExpectedVoters # {}
        /\ req' = [req EXCEPT ![h].pc = "tally",
                              ![h].expected = ExpectedVoters]
     \/ /\ ExpectedVoters = {}
        /\ Finish(h)
  /\ UNCHANGED <<room, people, board>>

\* Faulty variant of CastTally: counts cards, whosever they are.
CastTallyCount(h) ==
  /\ At(h, "cast", "tally")
  /\ LET r == req[h] IN
     IF Cardinality({p \in Players : HasCard(r.t, p)})
          >= Cardinality(r.expected)
     THEN Goto(h, "flip") ELSE Finish(h)
  /\ UNCHANGED <<room, people, board>>

CastTally(h) ==
  /\ At(h, "cast", "tally")
  /\ LET r == req[h] IN
     \/ /\ \A p \in r.expected : HasCard(r.t, p)
        /\ Goto(h, "flip")
     \/ /\ \E p \in r.expected : ~HasCard(r.t, p)
        /\ Finish(h)
  /\ UNCHANGED <<room, people, board>>

\* UpdateTopicStatus(revealed, now), from maybeAutoReveal or RevealTopic.
Flip(h) ==
  /\ req[h].pc = "flip"
  /\ LET t == req[h].t IN
     \/ /\ t \in live
        /\ topic' = [topic EXCEPT ![t].status = "revealed",
                                  ![t].revealedAt = TRUE]
     \/ /\ t \notin live
        /\ UNCHANGED topic
  /\ Finish(h)
  /\ UNCHANGED <<room, people, live, votes>>

-----------------------------------------------------------------------------
\* ClearVote, RevealTopic, FinalizeTopic: read the topic, check its status,
\* then write without looking again.

\* TopicByID and the status check of op; ok admits the topic's status.
ReadTopic(h, op, ok, pc) ==
  /\ At(h, op, "read")
  /\ \/ req[h].t \in live /\ ok /\ Goto(h, pc)
     \/ ~(req[h].t \in live /\ ok) /\ Finish(h)
  /\ UNCHANGED <<room, people, board>>

StartClear(h) ==
  /\ \E p \in Seated, t \in Topics :
       Serve(h, [Idle EXCEPT !.op = "clear", !.pc = "read", !.who = p, !.t = t])
  /\ UNCHANGED <<room, people, board>>

ClearRead(h) == ReadTopic(h, "clear", ~FaceUp(req[h].t), "write")

ClearWrite(h) ==
  /\ At(h, "clear", "write")
  /\ votes' = [votes EXCEPT ![req[h].t][req[h].who] = NoCard]
  /\ Finish(h)
  /\ UNCHANGED <<room, people, live, topic>>

StartReveal(h) ==
  /\ \E t \in Topics :
       Serve(h, [Idle EXCEPT !.op = "reveal", !.pc = "read", !.t = t])
  /\ UNCHANGED <<room, people, board>>

RevealRead(h) == ReadTopic(h, "reveal", ~FaceUp(req[h].t), "flip")

\* The estimate is checked against the deck the session read.
StartFinalize(h) ==
  /\ \E t \in Topics, c \in deck \ Escapes :
       Serve(h, [Idle EXCEPT !.op = "finalize", !.pc = "read", !.t = t,
                             !.card = c])
  /\ UNCHANGED <<room, people, board>>

\* Faulty variant of FinalizeRead: an estimate for cards still face down.
FinalizeReadFaceDown(h) == ReadTopic(h, "finalize", TRUE, "write")

FinalizeRead(h) == ReadTopic(h, "finalize", FaceUp(req[h].t), "write")

FinalizeWrite(h) ==
  /\ At(h, "finalize", "write")
  /\ LET r == req[h] IN
     \/ /\ r.t \in live
        /\ topic' = [topic EXCEPT ![r.t].status = "estimated",
                                  ![r.t].final = r.card]
     \/ /\ r.t \notin live
        /\ UNCHANGED topic
  /\ Finish(h)
  /\ UNCHANGED <<room, people, live, votes>>

-----------------------------------------------------------------------------
\* Moving the shared current topic: DeleteTopic, SetCurrentTopic and
\* AdvanceCurrentTopic.  Each compares with the current topic of its session.

StartDelete(h) ==
  /\ \E t \in Topics :
       Serve(h, [Idle EXCEPT !.op = "delete", !.pc = "write", !.t = t,
                             !.cur = current])
  /\ UNCHANGED <<room, people, board>>

\* Faulty variant of DeleteWrite: leaves the room where it was.
DeleteWriteOnly(h) ==
  /\ At(h, "delete", "write")
  /\ LET t == req[h].t IN
     /\ live'  = live \ {t}
     /\ topic' = [topic EXCEPT ![t] = Fresh]
     /\ votes' = [votes EXCEPT ![t] = NoCards]
  /\ Finish(h)
  /\ UNCHANGED <<room, people>>

\* DELETE FROM topics; the votes go with the row.
DeleteWrite(h) ==
  /\ At(h, "delete", "write")
  /\ LET r == req[h] IN
     \/ /\ r.t \in live
        /\ live'  = live \ {r.t}
        /\ topic' = [topic EXCEPT ![r.t] = Fresh]
        /\ votes' = [votes EXCEPT ![r.t] = NoCards]
        /\ IF r.cur = r.t THEN Goto(h, "pick") ELSE Finish(h)
     \/ /\ r.t \notin live
        /\ Finish(h)
        /\ UNCHANGED board
  /\ UNCHANGED <<room, people>>

\* firstUnestimatedTopicID: the first topic without a result, else the last
\* topic, else none.
IsFirstUnestimated(t) ==
  LET open == {u \in live : topic[u].status # "estimated"} IN
  \/ t \in open /\ \A u \in open : t <= u
  \/ open = {} /\ t \in live /\ \A u \in live : u <= t
  \/ live = {} /\ t = NoTopic

DeletePick(h) ==
  /\ At(h, "delete", "pick")
  /\ \E t \in live \cup {NoTopic} :
       /\ IsFirstUnestimated(t)
       /\ req' = [req EXCEPT ![h].pc = "point", ![h].t = t]
  /\ UNCHANGED <<room, people, board>>

\* requireTopicControl: the host moves the room freely; for anybody else the
\* room must be on a topic, and the next statement reads whether it is face up.
ControlPC(p, pc) == IF p = Host THEN pc ELSE "control"

StartFocus(h) ==
  /\ mode = "sync"
  /\ \E p \in Seated, t \in Topics :
       /\ p = Host \/ current # NoTopic
       /\ Serve(h, [Idle EXCEPT !.op = "focus", !.pc = ControlPC(p, "read"),
                                !.who = p, !.t = t, !.cur = current])
  /\ UNCHANGED <<room, people, board>>

StartAdvance(h) ==
  /\ mode = "sync"
  /\ \E p \in Seated, direction \in {"next", "prev"} :
       /\ p = Host \/ current # NoTopic
       /\ Serve(h, [Idle EXCEPT !.op = direction, !.pc = ControlPC(p, "pick"),
                                !.who = p, !.cur = current])
  /\ UNCHANGED <<room, people, board>>

Control(h) ==
  /\ req[h].pc = "control"
  /\ LET r == req[h] IN
     \/ /\ r.cur \in live /\ FaceUp(r.cur)
        /\ Goto(h, IF r.op = "focus" THEN "read" ELSE "pick")
     \/ /\ ~(r.cur \in live /\ FaceUp(r.cur))
        /\ Finish(h)
  /\ UNCHANGED <<room, people, board>>

FocusRead(h) == ReadTopic(h, "focus", TRUE, "point")

\* The topic next to the session's current one in the list just read; a current
\* topic that is not in the list counts as the first of the list.
IsNeighbour(direction, cur, t) ==
  \E from \in live :
    /\ from = cur \/ (cur \notin live /\ \A u \in live : from <= u)
    /\ t \in live
    /\ \/ direction = "next" /\ from < t /\ \A u \in live : from < u => t <= u
       \/ direction = "prev" /\ t < from /\ \A u \in live : u < from => u <= t

\* Faulty variant of AdvancePick: steps by one and misses the end of the list.
AdvancePickPastEnd(h) ==
  /\ req[h].op \in {"next", "prev"} /\ req[h].pc = "pick"
  /\ LET r == req[h] IN
     req' = [req EXCEPT ![h].pc = "point",
                        ![h].t = IF r.op = "next" THEN r.cur + 1 ELSE NoTopic]
  /\ UNCHANGED <<room, people, board>>

AdvancePick(h) ==
  /\ req[h].op \in {"next", "prev"} /\ req[h].pc = "pick"
  /\ LET r == req[h] IN
     \/ \E t \in live :
          /\ IsNeighbour(r.op, r.cur, t)
          /\ req' = [req EXCEPT ![h].pc = "point", ![h].t = t]
     \/ /\ ~\E t \in live : IsNeighbour(r.op, r.cur, t)
        /\ Finish(h)
  /\ UNCHANGED <<room, people, board>>

\* UPDATE rooms SET current_topic_id: no foreign key guards it.
Point(h) ==
  /\ req[h].pc = "point"
  /\ current' = req[h].t
  /\ Finish(h)
  /\ UNCHANGED <<mode, autoReveal, deck, people, board>>

-----------------------------------------------------------------------------
\* Requests that make one write, and whose earlier reads decide nothing that
\* the write does not decide again: one step each.

\* Faulty variant of ResetTopic: keeps the old result.
ResetTopicKeepsResult(t) ==
  /\ Occurs("reset")
  /\ t \in live
  /\ topic' = [topic EXCEPT ![t] = [Fresh EXCEPT !.final = topic[t].final]]
  /\ votes' = [votes EXCEPT ![t] = NoCards]
  /\ UNCHANGED <<room, people, live, req>>

\* One transaction clears the votes and reopens the topic.
ResetTopic(t) ==
  /\ Occurs("reset")
  /\ t \in live
  /\ topic' = [topic EXCEPT ![t] = Fresh]
  /\ votes' = [votes EXCEPT ![t] = NoCards]
  /\ UNCHANGED <<room, people, live, req>>

SetDeck(d) ==
  /\ Occurs("deck")
  /\ deck' = d
  /\ UNCHANGED <<mode, autoReveal, current, people, board, req>>

UpdateRoomSettings(auto) ==
  /\ Occurs("settings")
  /\ autoReveal' = auto
  /\ UNCHANGED <<mode, deck, current, people, board, req>>

\* The names and the limit on players are left out: they decide only whether
\* the row is inserted.
JoinRoom(p, asObserver) ==
  /\ Occurs("join")
  /\ seat[p] = "new"
  /\ seat' = [seat EXCEPT ![p] = "seated"]
  /\ watching' = IF asObserver THEN watching \cup {p} ELSE watching
  /\ UNCHANGED <<room, online, board, req>>

UpdateProfile(p, asObserver) ==
  /\ Occurs("profile")
  /\ p \in Seated
  /\ watching' = IF asObserver THEN watching \cup {p} ELSE watching \ {p}
  /\ UNCHANGED <<room, seat, online, board, req>>

\* DELETE FROM participants; the votes go with the row.  The participant's
\* WebSocket and the requests they have in flight are left alone.
KickParticipant(p) ==
  /\ Occurs("kick")
  /\ p \in Seated \ {Host}
  /\ seat' = [seat EXCEPT ![p] = "gone"]
  /\ watching' = watching \ {p}
  /\ votes' = [t \in Topics |-> [votes[t] EXCEPT ![p] = NoCard]]
  /\ UNCHANGED <<room, online, live, topic, req>>

-----------------------------------------------------------------------------
\* The hub's record of who is connected, and requests that stop half way.

Connect(p) ==
  /\ Occurs("connect")
  /\ p \in Seated \ online
  /\ online' = online \cup {p}
  /\ UNCHANGED <<room, seat, watching, board, req>>

Disconnect(p) ==
  /\ Occurs("disconnect")
  /\ p \in online
  /\ online' = online \ {p}
  /\ UNCHANGED <<room, seat, watching, board, req>>

\* The request's context is cancelled, by the caller hanging up or by the 30 s
\* timeout, or the database refuses the next statement: what was written stays.
Abort(h) ==
  /\ "abort" \in Ops
  /\ req[h].pc # "idle"
  /\ Answer(h)

-----------------------------------------------------------------------------
Start(h) ==
  \/ StartCast(h) \/ StartClear(h) \/ StartReveal(h) \/ StartFinalize(h)
  \/ StartDelete(h) \/ StartFocus(h) \/ StartAdvance(h)

\* The statements of a request that has started.
Step(h) ==
  \/ CastRead(h) \/ CastWrite(h) \/ CastMark(h) \/ CastList(h) \/ CastTally(h)
  \/ Flip(h) \/ ClearRead(h) \/ ClearWrite(h) \/ RevealRead(h)
  \/ FinalizeRead(h) \/ FinalizeWrite(h) \/ DeleteWrite(h) \/ DeletePick(h)
  \/ Control(h) \/ FocusRead(h) \/ AdvancePick(h) \/ Point(h)

HostWrite ==
  \/ \E t \in Topics : ResetTopic(t)
  \/ \E d \in Decks : SetDeck(d)
  \/ \E auto \in BOOLEAN : UpdateRoomSettings(auto)
  \/ \E p \in Players : KickParticipant(p)

Membership ==
  \/ \E p \in Players, asObserver \in BOOLEAN :
       JoinRoom(p, asObserver) \/ UpdateProfile(p, asObserver)
  \/ \E p \in Players : Connect(p) \/ Disconnect(p)

Next ==
  \/ \E h \in Handlers : Start(h) \/ Step(h) \/ Abort(h)
  \/ HostWrite
  \/ Membership

Spec == Init /\ [][Next]_vars

\* A request that has started goes on: its goroutine is scheduled and the
\* database answers.
FairSpec == Spec /\ \A h \in Handlers : WF_vars(Step(h))

-----------------------------------------------------------------------------
\* Properties.

\* Every variable holds what its column, or the hub, or a request can hold.
TypeOK ==
  /\ mode \in Mode /\ autoReveal \in BOOLEAN /\ deck \in SUBSET Cards
  /\ current \in Topics \cup {NoTopic}
  /\ seat \in [Players -> {"new", "seated", "gone"}]
  /\ watching \in SUBSET Players /\ online \in SUBSET Players
  /\ live \in SUBSET Topics
  /\ topic \in [Topics -> [status : Status, revealedAt : BOOLEAN,
                           final : Cards \cup {NoCard}]]
  /\ votes \in [Topics -> [Players -> Cards \cup {NoCard}]]
  /\ req \in [Handlers -> Request]

\* A card lies only on a topic that has a row and belongs to somebody who is
\* still seated: no vote in flight while its author is removed, or while its
\* topic is deleted, brings a card back.
CardsHaveOwners ==
  \A t \in Topics, p \in Players :
    HasCard(t, p) => t \in live /\ p \in Seated

\* Whatever order the requests' writes come in, and wherever one stops, the
\* columns of a topic agree: an estimated topic has a result that is no escape
\* card, a revealed one its reveal time, a voting one no reveal time, and a
\* pending one is as good as new.
ColumnsAgree ==
  \A t \in Topics :
    /\ topic[t].status = "estimated" => topic[t].final \in Estimates
    /\ topic[t].status = "revealed" => topic[t].revealedAt
    /\ topic[t].status = "voting" => ~topic[t].revealedAt
    /\ topic[t].status = "pending" => topic[t] = Fresh

\* Everybody auto-reveal waits for has voted on t.
AllVoted(t) ==
  ExpectedVoters # {} /\ \A p \in ExpectedVoters : HasCard(t, p)

\* The cards flip when everybody has voted: once no request is in flight, a topic
\* on which everybody auto-reveal waits for has voted is face up, however the
\* votes, takebacks, reveals and resets interleaved.  It holds in a room with
\* auto-reveal on where nobody leaves, is removed, becomes an observer or changes
\* connection and where no request stops half way; the code does not look again
\* when one of those happens.
RevealNotMissed ==
  Quiet => \A t \in live : AllVoted(t) => FaceUp(t)

\* In such a room a topic on which everybody has voted, and leaves it at that,
\* turns face up for good.
VotedTurnsFaceUp ==
  \A t \in Topics :
    <>[](t \in live /\ AllVoted(t)) => <>[]FaceUp(t)

\* The cards turn by themselves only when everybody the request found playing
\* (and connected, in a synchronous room) has a card on the topic, unless it was
\* removed with its seat or with the topic: a vote by somebody who is offline, or
\* who has turned observer, stands for nobody else, whoever comes and goes
\* meanwhile.  It holds in a room where nobody takes a card back and the host
\* does not have the team vote again; either can come between the tally and the
\* reveal.
AutoRevealEarned ==
  \A h \in Handlers :
    At(h, "cast", "flip") =>
      /\ req[h].expected # {}
      /\ req[h].t \in live =>
           \A p \in req[h].expected \cap Seated : HasCard(req[h].t, p)

\* Cards that are face up stay face up until the host has the team vote again.
FaceUpStays ==
  [][\A t \in live' : FaceUp(t) /\ ~FaceUp(t)' => ResetTopic(t)]_vars

\* Once no request is in flight the room points at no topic or at one that has
\* a row: deleting the current topic moves the room along.
CurrentHasRow == Quiet => current \in live \cup {NoTopic}

=============================================================================
