# Estimeet, specified

TLA+ models of the estimeet planning-poker server (Go backend, React frontend),
TLC instances that check them and TLAPS proofs about them. Paths are relative to
the repository root.

## The system

A *room* has participants, a backlog of topics and, per topic, the cards the
players have laid. People drive it with HTTP requests; every change is pushed to
everybody's WebSocket as a whole snapshot of the room, rendered for that viewer.

| Part | State | Operations | Talks to |
| --- | --- | --- | --- |
| Service (`backend/internal/service`) | none of its own | one method per request: read rows, check, write rows, publish | store, hub, trackers |
| Store (`backend/internal/store`) | tables rooms, participants, topics, votes, topic_notes, source_connections, oauth_states | one SQL statement per method; three short transactions (ResetTopic, ReorderTopics, ConsumeOAuthState) | SQLite or Postgres |
| Hub (`backend/internal/hub`) | per room the set of registered clients; per client a channel of 32 events and a closed flag | Register, Unregister, Publish, OnlineParticipants | the goroutines of sockets and requests |
| Socket handler (`backend/internal/api/ws.go`) | one goroutine and one reader per connection | register, announce, push state, loop over events, leave | hub, service.State |
| HTTP layer (`backend/internal/api`) | rate limiter buckets | sessions, decoding, errors, a 30 s timeout | service |
| Trackers (`backend/internal/source`, `jira`) | none | list, import, verify, set an estimate, refresh a token | Jira, Azure DevOps, GitHub |
| Jobs (`backend/cmd/server`) | none | purge expired credentials (15 min) and stale rooms (6 h) | service |
| Frontend hook (`frontend/src/lib/useRoomSocket.ts`) | last snapshot, connection status | socket with backoff, polling while it is down, answers of requests | API |

There is one server process. Requests are goroutines that share nothing but the
database and the hub. No request holds a lock or a transaction across two
methods of the store, so any two requests interleave between any two statements.
A request remembers what it has read, beginning with its *session* (participant
row and room row), and acts on that memory.

What makes this hard:

- **Interleaving and stale reads.** Most methods check one statement's result and
  write with another; the session can be older still.
- **Requests that stop half way**, because the caller hangs up, the timeout
  fires, or a statement fails: what was written stays.
- **Presence** is an input of the rules (a synchronous room waits for the players
  who are connected) and changes without any request.
- **Bounded channels** and clients that read slowly, come, go and are dropped
  while an event is being published.
- **Credentials** that are refreshed, replaced, disconnected, purged and expire
  concurrently, and a tracker that is written before the room is.

What makes each part correct:

- *Rounds*: cards face down become face up when the last expected card is laid or
  the host says so, and stay so until the host reopens the vote; only face-up
  topics get a result; cards belong to members and to topics that exist; the
  columns of a topic agree; the room points at a topic that exists.
- *Delivery*: nobody who stays connected ends up with an old picture; whoever is
  dropped or removed is disconnected.
- *Snapshot*: a card is shown only of a topic that is face up, and where a race
  shows one too early, not twice; what a snapshot says about voting is what a vote
  would meet with.
- *Backlog*: the limit is exceeded only by what others add at the same time, a
  tracker key is there once, an import misses nothing, new topics come last.
- *Seats*: limits and names give way only to requests side by side; a room in use
  is not purged, a room nobody sits in is.
- *Connection*: what was disconnected stays so; a refresh never extends how long
  credentials are kept; nothing is used after its deadline, and each grant is
  forgotten by its own.
- *Write-back*: what the room records is in the tracker; labels that are not
  estimates stay; an estimate is recorded only of a topic whose cards were up when
  the request looked, and lands under face-down cards only where others made it so.
- *Limiter*: over any stretch of time an address gets no more than its budget.
- *Client*: the screen does not go back in time for good.

## Modules

| Module | What it is |
| --- | --- |
| `Rounds` | The rounds of one room, with requests served concurrently, statement by statement |
| `PlanningPoker` | The abstract game: every request one atomic move, no rows, statuses or sessions |
| `RoundsRefinement` | The refinement mapping from `Rounds` to `PlanningPoker` |
| `RoundsProofs` | Theorems about `Rounds`, among them that it implements `PlanningPoker` |
| `Delivery` | Hub, channels and socket goroutines; how a change reaches the viewers |
| `DeliveryProofs` | Theorems about `Delivery` |
| `Connection` | A room's tracker credentials: stored, used, refreshed, forgotten |
| `ConnectionProofs` | Theorems about `Connection` |
| `Seats` | A room from its creation to its purge: seats, names, limits, the janitor |
| `SeatsProofs` | Theorems about `Seats` |
| `Backlog` | Topics typed in, imported, reordered and deleted, with positions, keys and the limit |
| `BacklogProofs` | Theorems about `Backlog` |
| `Exchange` | An estimate sent back to Jira, Azure Boards or GitHub |
| `ExchangeProofs` | Theorems about `Exchange` |
| `Board` | The snapshot, statement by statement, against the moves it shows; notes |
| `BoardProofs` | Theorems about `Board` |
| `Cards` | Decks, rosters and statistics as functions; `Board` extends it |
| `Limiter` | The token buckets and their janitor |
| `LimiterProofs` | Theorems about `Limiter` |
| `MCRounds`, `MCRoundsSerial`, `MCDelivery`, `MCSeats`, `MCBacklog`, `MCBoard`, `MCExchange`, `MCLimiter` | Instances for TLC (`Connection` needs none) |

`Rounds`, `Delivery`, `Connection`, `Seats`, `Backlog`, `Exchange` and `Board` are
about the same server and share the tables; each keeps the columns its properties
need, and has the writes of the others to those columns as actions (`Exchange` has
the reveal, the reset, the deletion and the late mark of a vote of `Rounds`; `Board`
has all the moves;
`Backlog` deletes topics; `Delivery` has every write as a `Change`).

Operators named "faulty variant of ..." next to an action are that action with a
plausible mistake in it. Nothing uses them in a specification; they show that
each property notices the mistake it is there for.

### Rounds

Variables are columns (`mode`, `autoReveal`, `deck`, `current`: rooms;
`seat`, `watching`: participants; `live`, `topic`: topics; `votes`: votes), the
hub's registry as far as the rules read it (`online`) and the requests in
flight (`req`). A request is a record: which method (`op`), which statement comes
next (`pc`), and what it has read (`who`, `t`, `card`, the session's `cur` and
`auto`, the topic's status `seen`, the voters `expected`).

| Code (`service.go`) | Actions |
| --- | --- |
| CastVote, maybeAutoReveal | StartCast, CastRead, CastWrite, CastMark, CastList, CastTally, Flip |
| ClearVote | StartClear, ClearRead, ClearWrite |
| RevealTopic | StartReveal, RevealRead, Flip |
| FinalizeTopic | StartFinalize, FinalizeRead, FinalizeWrite |
| DeleteTopic | StartDelete, DeleteWrite, DeletePick, Point |
| SetCurrentTopic | StartFocus, Control, FocusRead, Point |
| AdvanceCurrentTopic | StartAdvance, Control, AdvancePick, Point |
| ResetTopic, SetDeck, UpdateRoomSettings, JoinRoom, UpdateProfile, KickParticipant | one action each |
| Hub.Register, Hub.Unregister | Connect, Disconnect |
| cancelled context, failing statement | Abort |

Decisions:

- The two reads of a session are one step, together with every check that needs
  only the session. A request refused by such a check is not represented.
- A request with a single write is one step when its earlier reads decide nothing
  that the write does not decide again (the row exists or it does not).
- `maybeAutoReveal` reads the participants and then the hub; the two are one step
  (`CastList`). Reading the votes and flipping are steps of their own.
- Foreign keys are kept: a vote for a topic or participant that is gone is refused
  (`CastWrite`), and deleting a row deletes its votes. `rooms.current_topic_id`
  has no foreign key, and `Point` writes whatever was read.
- A kick leaves the participant's socket and running requests alone, as the code
  does.
- `closed_at` is never set by any code, so no room is ever closed here.
- Names and limits are in `Seats`, notes in `Board`, publishing in `Delivery`,
  adding and reordering topics in `Backlog`; here topics exist from the start, are
  numbered in backlog order and can be deleted.
- `Ops` names the kinds of request that occur. It bounds an instance and states
  the assumptions of `LastVoteReveals` and `AutoRevealIsEarned`.

### PlanningPoker and the refinement

`PlanningPoker` says what a player would: lay a card on a face-down topic, the
last card turns them; take it back; the host reveals, votes again, agrees on an
estimate once the cards are up, drops a topic (which moves the room along); the
host leads and the others may once the cards are up.

`Rounds` does not implement it under full concurrency: a reveal can be undone, as
`rounds_unreveal` shows. It does when requests
are served one at a time (`Serial = TRUE`: nothing starts while a request is in
flight), which is a statement about the code's control flow: no request,
whatever state it starts in, adds up to anything but one move. A vote is up to
four writes and reads, so from its upsert on the topic already counts as turned
if the vote is the last one; a deleted current topic already counts as replaced
while the replacement is looked up (`Turned`, `Destination`).

### Delivery

What is pushed is always a whole snapshot read after the event was taken, so
the content of the room is abstracted to whether a snapshot shows every change
that is announced (`hand`, `screen`). `Changes` makes all snapshots read so far
stale. This needs no counter, so runs are unbounded in the number of changes. A
snapshot is read by several statements; it counts from the first, which can only
make it look older than it is. Writes that are not announced are left out.

| Code | Actions |
| --- | --- |
| `Hub.Publish` | Announce (the call), Copy (the registry), Send (one client, without waiting), DropStalled, Published |
| any request that writes and publishes | Change (before the Publish, as often as it has writes), KickParticipant |
| `handleWebSocket` | Accept, Register, ReadState, Push, Take, SeeClosed, HangUp, Leave, Gone |

Both requests and connections publish, the latter when they arrive and leave.
`Unregister` removes the client and closes it in one step; between the two the
code only delays what `SeeClosed` sees. The select of the socket loop is a choice
between Take, SeeClosed and HangUp. Keep-alive pings only matter when they
fail (HangUp). A client is one connection and is never reused. A restart of the
server loses the registry and all connections together and is left out.

### Connection

The row of `source_connections` (`row`), the pending authorizations (`expires`:
oauth_states), the requests (`req`), the clock (`now`), and, for the properties
only, when each grant was handed over (`granted`). A *grant* is one handing over
of credentials. The two sealed tokens and the site are represented by the grant
they belong to, which is what tells apart a row whose access token comes from one
authorization and whose refresh token comes from another.

| Code | Actions |
| --- | --- |
| ConnectSource | StartConnect, Verified, Save |
| JiraAuthorizeURL, SaveOAuthState | JiraAuthorizeURL |
| JiraCompleteAuth, ConsumeOAuthState | StartCallback, Forget, Exchanged, Save |
| sourceAccess, called by browsing, importing and write-back | StartAccess, Refreshed, Save, Use |
| DisconnectSource | DisconnectSource |
| PurgeExpiredCredentials | Purge |
| refusals, timeouts, cancelled requests, a restart | Abort |

Decisions:

- A unit of time is longer than a request (30 seconds by the router; the OAuth
  callback is outside that limit, but each of its two calls to the tracker has
  20). So a request sees the clock move at most once (`late`). Constants are in
  that unit but scaled down: what matters is that an access token lives longer
  than two requests (`LifeAssumption`; an hour in fact, and `TokenStale` takes a
  minute off).
- A grant is dated when the code reads the clock for its deadline, that is after
  the tracker has verified the token or named the sites. The code reads the
  lifetime of an access token one call earlier; the two are one moment here.
- ConsumeOAuthState is a SELECT and a DELETE. SQLite has one connection, so the
  transaction is atomic there; on Postgres, at the default isolation, two
  callbacks with the same state may both read it before either deletes it.
  The model allows that, so it covers both.
- A tracker may or may not send a new refresh token with a refresh (`rotated`), and
  an exchange may bring none at all (`Offline` are the grants with one). The upsert
  then keeps the refresh token of the row it finds (`COALESCE`), which belongs to an
  earlier grant; `Inherited` names that case, and it alone is excused by the
  retention properties.
- The purge of closed rooms is left out (nothing closes a room), and so is the
  deletion of a stale room, which takes its connection along.

### Seats

Variables: the age in days of the room, of everybody's `last_seen_at` and of the
topics (`room`, `seen`, `topics`; `Gone` where there is no row), the names
(`name`), the requests in flight (`req`), and three histories: how long nobody has
been active (`quiet`), whether a row still shows it or the host has removed that row
since (`trace`), and which pairs of people were named side by side (`raced`).

| Code | Actions |
| --- | --- |
| CreateRoom | CreateRoom (the room), CreateParticipant (its host) |
| JoinRoom | JoinRoom (what is read and checked), CreateParticipant |
| UpdateProfile | UpdateProfile, UpdateParticipant |
| KickParticipant, AddTopics, DeleteTopic | one action each |
| `TouchParticipant`, from the keep-alive in `ws.go:72` | Touch |
| PurgeStaleRooms and the day that passes | PurgeStaleRooms, Tick |
| cancelled context, failing statement | Abort |

- Names are compared up to letter case in the code; `Names` are the classes.
- An identifier is given out again when nothing refers to it, so a run may be
  longer than the instance has people. Which of the free ones does not matter, and
  `Fresh` takes always the same.
- An age counts up to the retention and stays there: older is not told apart.
- A kick, a new topic and the deletion of a topic need the host's token and nothing
  else: the host may act without having been heard of for as long as anybody.
- Activity is what leaves a date (`Heard`): joining, a topic added, a keep-alive. A
  socket sends its first after 30 seconds; shorter visits, votes and polling leave
  none and are no actions here; see "What the code does not do".

### Backlog

Variables: the rows of `topics` with `external_key` and `position` (`live`, `key`,
`place`), the room's `current` topic and the requests (`req`). A request that
inserts carries what it has read (size, position, keys) and what is left to do.

| Code | Actions |
| --- | --- |
| AddTopics | AddTopics (count and next position), CreateTopic, Inserted |
| ImportSourceItems | ImportSourceItems (listing and reads), Skip, CreateTopic or Refused, Inserted |
| ReorderTopics | ReorderTopics (the check), WriteOrder (the transaction) |
| DeleteTopic | DeleteTopic (the choice of the next current topic is in `Rounds`) |

- The reads of one request are one step: they are all stale by the first insert.
- What a tracker lists is any of `Listings`, with items twice or not at all.
- The room is synchronous, so that the first topic created becomes the current one.
- `MaxTyped` and `LastPlace` bound an instance.

### Exchange

One topic and the item it was imported from. Variables: the item's tracker and
which size fields exist there and are on its screen (`origin`), the `item`, the
tracker the room is connected to (`conn`), the topic (`status`, `final`), the votes
that have read it as pending (`voting`) and the requests (`req`).

| Code | Actions |
| --- | --- |
| PushEstimate | PushEstimate, Access, then the calls of the provider, then Store |
| Jira: StoryPointsField, SetEstimate | Look, Put |
| Azure Boards: SetEstimate | Patch, once per field it tries |
| GitHub: SetEstimate | Read, Replace |
| FinalizeTopic | FinalizeTopic, Store |
| ConnectSource, DisconnectSource | Connect |
| RevealTopic, ResetTopic, DeleteTopic | one action each (the races inside them are in `Rounds`) |
| CastVote, of a vote that finds the topic pending | StartVote (its read), MarkVoting (its status write), FailVote |
| refusals, timeouts, lost answers | Fail |

- The tracker is external and modelled from how the code uses it: people there
  resize, relabel and delete the item at any time (Resize, Relabel, Reestimate,
  DeleteItem). GitHub's read and its write of the whole list of labels are two
  calls, between which this matters.
- A size field is one of the names the code looks for, in its order of preference.
  Azure answers 400 to a field the item does not have, and for other reasons; the
  next field is tried after either, and the last refusal ends the request.
- Of a vote only what turns cards face down matters here: the late status write
  (`service.go:701`). A request remembers the votes under way when it looked
  (`votes`) and whether a reset or one of them has turned the topic since (`turned`).
- Connections are told apart by the kind of tracker only. The code checks that the
  key has the shape of the connected tracker; after reconnecting to *another site*
  of the same kind, a key that exists there too is written to. The model does not
  show this.
- A call that fails after the tracker has carried it out is `Fail` after the write:
  the item is changed and the room is not.

### Board and Cards

`Board` builds one snapshot at a time (`view`) as `State` does: the room, the
viewer, the topics, the votes, the notes, each read a step of its own, while others
vote, reveal, reset, delete and leave notes. Which cards the snapshot shows is
decided by the status read with the topics; the cards themselves come later.

| Code | Actions |
| --- | --- |
| State | ReadRoom, ReadMe, ReadTopics, ReadVotes, ReadNotes; `CardShown` and `CanVote` say what is in it |
| AddNote | AddNote (the count), CreateNote |
| DeleteNote | DeleteNote |
| CastVote | CastVote, CastWrite |
| the other moves of `Rounds`, as one step each | ClearVote, RevealTopic, FinalizeTopic, ResetTopic, DeleteTopic, FocusTopic, Observe |

- `secret` remembers whose card on a topic has not lain face up, and `peeked` which
  of these a viewer has been shown all the same. That happens when the topic is
  turned down and played between the read of the topics and the read of the votes.
  `PeeksPass` does not excuse it but says how far it goes: the next snapshot of the
  same viewer does not show that card.
- Notes and statistics are shown under the same condition as cards. Statistics are
  made of the cards read; notes are read after them and have a window of their own,
  which is not modelled.
- `Cards` has the functions: NormaliseDeck, NormaliseRoster, and Summarize with
  its average, median, nearest card and spread. Labels come trimmed and cut to length
  already. How many cards of each kind there are is left out.
- Numbers are exact integers in a unit of which `Hundredth` are a hundredth, negative
  ones and finer ones than hundredths among them; in the code they are float64. The
  two can only part where exact numbers are equal and their float64 need not be: an
  average or a median halfway between two hundredths, and a value halfway between two
  cards. There `slip` lets the result go either way. When all cards are whole quarters,
  every point halfway between two of them is a multiple of an eighth and exact
  in float64, so that the nearest card does not slip (`Quarters`). Infinities, NaN and
  numbers so large or so close that float64 cannot tell them apart are left out.
- `ListsTidy` and `SummaryRight` compare these functions with their definitions for
  all lists and rounds up to a length (`BoardProofs` proves them for every length).
  They do not depend on the state, and are asserted of the initial one so that they
  are evaluated once.

### Limiter

Variables: the clock (`now`), the `buckets`, the requests between reading the
clock and getting the lock (`req`), the janitor's `cutoff`, and two histories of
what was spent (`spent`, `before`).

| Code (`middleware.go`) | Actions |
| --- | --- |
| `allow`, `now := time.Now()` | Arrive |
| `allow` under the lock | AllowNew, Allow, Refuse |
| `janitor` | Wake (the cutoff), Sweep (under the lock) |

- A unit of tokens is what a bucket gains in a unit of time, so tokens and time are
  whole numbers of the same size; a request costs `Cost` of them.
- A request waits at most `Delay` for the lock; it may take it after one that read
  a later clock, and then refills its bucket with a negative time.
- Addresses are what `clientIP` returns; clients behind one proxy share one.

## What TLC checks

`tlc -workers 2 -config X.cfg M` in this directory.

| Run | Config, module | Bounds | Shows |
| --- | --- | --- | --- |
| rounds_steady | RoundsSteady, MCRounds | 2 players, 1 topic, 1 card, 2 requests, both modes | RevealNotMissed, ColumnsAgree, VotedTurnsFaceUp |
| rounds_attendance | RoundsAttendance, MCRounds | 2 players, 1 topic, 2 requests with symmetry, both modes, aborts; people come, go and change role | AutoRevealEarned, CardsHaveOwners |
| rounds_serial | RoundsSerial, MCRoundsSerial | 2 players, 2 topics, 2 decks, all operations but settings and aborts, requests served one at a time | TypeOK, CurrentHasRow, PlaysPlanningPoker |
| seats | Seats, MCSeats | 4 people, 2 names, 1 topic, 2 requests, limit 2, retention 2 days | TypeOK, LimitNearlyHolds, TwinsRaced, UsedRoomsStay, EmptyRoomsGo |
| backlog | Backlog, MCBacklog | 3 topic ids, 2 keys, 4 listings, 2 requests, limit 2 | TypeOK, LimitHoldsAlone, KeysOnce, ClashesNeedOthers, ImportsComplete, NewTopicsLast |
| delivery | Delivery, MCDelivery | 1 request goroutine, 2 connections, capacity 1; the host, who cannot be removed, and a player | TypeOK, NothingForgotten, ViewsCatchUp, UnlistedLeave, RemovedLeave |
| board | Board, MCBoard | 3 players, 1 viewer, 1 topic, 2 requests, 1 note each; lists and rounds of up to 4 of 10 labels, 3 decks | TypeOK, CanVoteIsTrue, NotesNearlyLimited, ListsTidy, SummaryRight, PeeksPass |
| connection | Connection, Connection | 2 grants, one without a refresh token, 2 authorizations, 2 requests; 4 units of time, retention 4, tokens live 3, authorizations 1 | TypeOK, RetentionKept, UsedInTime, PastDeadlineForgotten |
| exchange | Exchange, MCExchange | 2 requests with symmetry, 1 vote, 3 cards, 2 size fields, 1 label | TypeOK, SentIsThere, LabelsKept, StoredFaceUp |
| limiter | Limiter, MCLimiter | 1 address, 2 requests with symmetry, buckets of 4, 2 a request, 10 units of time | BudgetKept |
| rounds_unreveal | RoundsUnreveal, MCRounds | 2 players, 2 requests | **violates** FaceUpStays |
| connection_refresh | ConnectionRefresh, Connection | 1 grant, 1 authorization, 2 requests | **violates** RefreshKeepsConnection |

Why the bounds are enough to be interesting:

- Two players are the least for which "the last vote" means something and one can
  be missing; two requests are the least that interleave, and every race found
  needs two. One topic is enough for what concerns a topic by itself; moving the
  room needs two. The proofs cover the rest.
- Decks hold one card each where only having a card matters; an escape card is
  in one of them where results do.
- A capacity of one makes a full channel common; two connections of two people
  allow one to be dropped, removed or to leave while the other watches. Three
  goroutines publish at the same time (a request and both connections).
- A retention of four and a horizon of four let the clock reach the deadline of
  a grant handed over at the start, a token go stale before it, and an
  authorization expire; two grants are the least that can replace one another.
  What the deadline of a grant handed over later does beyond the horizon is left
  to the proofs, which have no bound on time but `Horizon` itself.
- Seats: with a limit of two and two requests a room can hold three, and the fourth
  person tells "one too many" from "as many as race". Two names are the least that
  can be alike or not. A retention of two days tells
  today, yesterday and too long ago apart, so that of two rows either may be what shows
  the last activity.
- Backlog: two requests, a limit of two and three topics let both the limit be
  exceeded and a third insert be refused; the listings have an item twice, both
  items in either order, and none.
- Board: one topic is enough, since a snapshot treats each by itself; three players
  are the viewer, somebody who plays and somebody who does not. A card that is shown
  too early occurs: a vote has read the topic as pending, the host reveals it, a
  snapshot reads the topics, the vote marks it voting, the snapshot reads the votes.
  The labels have two cases of one word, two writings of one number, a negative
  number, one between two hundredths, two tenths of which float64 does not hold the
  middle, a blank and an escape; two decks are whole quarters and one is not; the
  limits are two or three, so that four labels are too many.
- Exchange: the cards are a number, a card that is none, and an escape; two size
  fields are the least of which one is preferred. One vote that comes late is enough,
  since any of them turns the topic as the next would.
- Connection: of two grants one brings a refresh token and one does not, so that the
  second can inherit the token of the first.
- Limiter: buckets hold two requests; the clock reaches the point at which the
  janitor forgets a bucket, and a whole refill after it. One address, because
  buckets do not touch each other.
- `CHECK_DEADLOCK FALSE` everywhere but in `exchange`, where a room can always be
  connected again: a room whose members do nothing is at rest, and a clock stops at
  its horizon.

Fairness: `FairSpec` of `Rounds` assumes that a request that has started goes on
(its goroutine is scheduled and the database answers or the request is aborted);
nobody has to send a request. `FairSpec` of `Delivery` assumes that publishing and
socket goroutines that can run do; writes to a socket are bounded by a timeout of
ten seconds in the code. Nobody has to connect or to change anything, and nothing
is assumed about which ready case a select takes. `FairSpec` of `Connection`
assumes that a request goes on or is stopped (every call has a timeout), that the
purge keeps running (a ticker in `cmd/server/main.go`) and that time passes.
`FairSpec` of `Seats` assumes that requests go on or are stopped, that days pass and
that the janitor keeps sweeping (the ticker of 6 hours, `main.go:96`); nobody has to
join or to leave. The other modules state safety only.

### What the code does not do

- **A reveal can be undone** (`rounds_unreveal`). CastVote reads a pending topic;
  the host reveals; CastVote writes status `voting` and clears the reveal time
  (`service.go:701`). The cards are face down again, although nobody asked to vote
  again. The same write can undo a reset's `pending` or a result.
- **A refresh brings a connection back** (`connection_refresh`). A refresh that is
  under way when the host disconnects stores the credentials again
  (`source.go:410`), although `source.go:146` says that they are forgotten
  immediately. It also replaces a connection made in the meantime. They stay no
  longer than their old deadline, which RetentionKept and PastDeadlineForgotten
  show.

Seen while modelling, without a run of their own:

- A disconnect does not flip the cards. README.md:584 promises a flip when every
  connected player has voted; the code looks only after a vote, so the leaving of
  the one who has not voted flips nothing. `RevealNotMissed` is therefore checked
  and proved of rooms nobody leaves.
- A player can move the room off a vote. Whether a player other than the host may
  move the room is decided on the topic the session read (`service.go:877`); when
  the room has been moved in the meantime, the player drags it off a topic that is
  face down, which the comment at `service.go:868` says cannot happen.
- A failed request can change the room silently. AddTopics inserts topic by topic
  and returns without publishing on a blank title (`service.go:486`); the purge of
  expired credentials publishes nothing either. `Delivery` promises the viewers
  announced changes only.
- A room in use may be purged. The janitor dates a room by its rows. The host is not
  dated by what the host does: who comes back after a month, kicks the only
  participant heard of lately (or deletes the newest topic) and leaves within 30
  seconds has removed what showed that the room was used, and the next sweep deletes
  it. `UsedRoomsStay` excuses that (`trace`) and nothing else. Votes, polling (where
  WebSockets are refused) and visits of less than 30 seconds leave no date either
  (`ws.go:72` is the only writer), so a room used in these ways alone is as old as
  its newest row, although README.md:191-195 says that the clock runs from the last
  activity and a room in daily use is never removed.
- Cards can be shown before the reveal. A snapshot reads the topics and then the
  votes; when the topic is reset and played anew between the two, or a late `voting`
  mark turns it down and somebody plays, it carries the values of cards that lie face
  down, although README.md:587 says that they are absent until the topic is revealed.
  `PeeksPass` says that it does not last.
- An estimate can land under face-down cards without a reset. PushEstimate and
  FinalizeTopic look once whether the cards are up, and the late mark of a vote may
  turn them down before the estimate is stored; it may also follow the estimate and
  leave the topic `voting` with its result. `StoredFaceUp` says that, but for resets,
  only a vote that was under way when the request looked can do the former.
- A refresh token can outlive its deadline. An exchange without a refresh token is
  accepted (`jira.go:96`), the upsert keeps the one in the row (`connections.go:75`),
  and the row gets a new deadline (`jira.go:72`): the older grant's token is kept for
  longer than CredentialTTL after it was handed over. `RetentionKept` and
  `PastDeadlineForgotten` excuse that token (`Inherited`) and nothing else.
- Ties are not always rounded up. `stats.go:114` says that they are, and the code
  compares float64 distances: with 0.1 and 0.2 in the deck, votes 0.1 and 0.2 have the
  average 0.15 and the suggestion 0.1. `SummaryRight` asks for the higher card of two
  as near only where all cards are whole quarters.
- A card such as "inf" or "nan" is a number to `NumericValue`, and statistics that
  contain it cannot be encoded as JSON. `Cards` has finite numbers only.
- Two people can get one name, and limits can be exceeded, by requests side by side
  (`TwinsRaced`, `LimitNearlyHolds`, `LimitHoldsAlone` and `NotesNearlyLimited` say
  how far).

## What is proved

TLAPS, for all values of the constants that satisfy the ASSUMEs of the modules
(`Rounds`: the host is a player, topics are positive numbers, no card is also NULL
or both an estimate and an escape, and, for the refinement alone, there are finitely
many topics; `Delivery`: a capacity of at least one, and
requests and connections are different goroutines, and the host is one of the
people; `Connection`: times are natural
numbers, an access token outlives two requests, the markers of an absent row
are not grants or times, and any of the grants may lack a refresh token; `Seats`: finitely many people and requests, a limit and a
retention of at least one; `Backlog`: finitely many topics and requests;
`Exchange`: numbers are cards that can be estimates; `Board`: somebody looks, and
there are finitely many requests and at least one; `Cards`: numbers are integers in
some unit of which a hundredth is a positive number, a blank label is none of them,
the default deck has none, and a deck in use is not empty and holds no label
twice, as normaliseDeck leaves it; `Limiter`: a request fits a
bucket, and a bucket is full again before it is forgotten, 20 seconds against 30
minutes in the code).

- `RoundsProofs!TypeCorrect`: TypeOK, inductive by itself.
- `RoundsProofs!OwnersAlways`: CardsHaveOwners, inductive together with TypeOK:
  the foreign keys are what makes it so.
- `RoundsProofs!ColumnsAlwaysAgree`: ColumnsAgree is not inductive: a request
  about to store a result must hold an estimate that is no escape card. The
  strengthening `ResultInHand` says so.
- `RoundsProofs!LastVoteReveals`: `Steady => (Spec => []RevealNotMissed)`, where
  `Steady` says that auto-reveal starts switched on and that nobody leaves, is
  removed, becomes an observer, changes connection or changes the settings, and
  that no request stops half way. Each of these is needed, since the code looks
  for the last vote only after a vote. The inductive invariant (`RevealOwed`):
  whenever everybody expected has voted on a face-down topic, some vote in flight
  on it will still look, with an expected set that will not make it give up.
- `RoundsProofs!AutoRevealIsEarned`: `CardsLieStill => (Spec => []AutoRevealEarned)`,
  where `CardsLieStill` says that nobody takes a card back and the host does not
  have the team vote again (either may come between the tally and the flip). The
  strengthening `EarnedInv` adds that a vote carries a card, that whoever it waits
  for has had a seat (seats are not given out twice) and waits for somebody; the
  lemma `NextCardsRemain` says that no step takes a card from a topic and a
  person that are still there.
- `RoundsProofs!CurrentAlwaysHasRow`: `ServedSingly => (Spec => []CurrentHasRow)`,
  where `ServedSingly` says that requests are served one at a time and none stops
  half way (side by side, one request may point the room at the topic another is
  deleting). The invariant (`RoomInv`): at most one request is in flight; the room
  is on a topic that has a row, or the request that deleted it is still moving the
  room on; and where that request is about to send the room there is a topic.
- `RoundsProofs!SinglyPlaysPlanningPoker`:
  `ServedSingly => (Spec => PlaysPlanningPoker)`, the refinement. Every step of
  `Rounds` is mapped to a move or to a stutter. The upsert is the `Vote`, and what
  the vote does afterwards (mark the topic, tally, flip) is a stutter unless the
  flip is a `Reveal`, which it is only when the upsert had not already counted as
  one. The DELETE is `Drop`, whose new topic is the `Destination` the request has
  still to find; the UPDATE that then points the room at it stutters. A step of a
  request is the right move only if what the request read earlier is still so,
  which the invariant `PlayInv` says of each kind of request (a topic read as
  pending is pending, the tally is of the cards that lie there, the estimate is of
  a topic that is face up, the first unestimated topic is the first). It holds
  since the request in flight is alone (`RoomInv`) and is what the theorem needs
  besides TypeOK, RoomInv and ColumnsAgree. That there is exactly one first
  topic to go to (`FirstIsThere`, `FirstIsOne`) is proved from the order of
  position and number, and uses that topics are finitely many.
- `RoundsProofs!SinglyCardsStayUp`: `ServedSingly => (Spec => FaceUpStays)`, the
  other side of the finding of `rounds_unreveal`. Of all statements only two turn
  cards face down (`WhoTurnsDown`): the reset, and the mark a vote leaves on a topic
  it had read as pending. By `PlayInv` a vote that is alone finds it still pending,
  so that the disagreement needs two requests and no order of whole ones shows it.
- `DeliveryProofs!TypeCorrect`: TypeOK; no channel exceeds its capacity although
  publishers do not lock it.
- `DeliveryProofs!NeverForgotten`: NothingForgotten. The strengthening `ForgetInv`
  adds that listed clients are being served (`ListedServe`) and that a stale
  snapshot on screen *or still in hand* belongs to a connection with an event in
  its channel or on the way (`EventOwed`); the second half carries the argument
  over the push of a snapshot that was overtaken by a change.
- `ConnectionProofs!TypeCorrect`: TypeOK, with what a request holds at each
  statement (`Holding`): only OAuth rows with a refresh token are refreshed.
- `ConnectionProofs!OnlyUsedInTime`: UsedInTime. The strengthening (`InTime`) says
  the same of a request that refreshes and stores before it uses.
- `ConnectionProofs!RetentionHolds`: RetentionKept. The danger is the write that
  keeps the refresh token of whatever row is there (`COALESCE` in
  SaveSourceConnection): were that token older than the connection being
  written, its deadline would move. The inductive invariant (`AgeInv`) rules it
  out: the deadline of a row is counted from the oldest grant in it (`Sound`);
  what is about to be stored for the first time is at most one request old
  (`Recent`); what is being refreshed is older than that, and than anything
  stored meanwhile (`Old`); and all refreshes in flight are of the same
  connection. The parts that compare the age of a refresh token are said of grants
  that have one of their own (`Offline`); the others are the excused case. The last two need `LifeAssumption`: a token just stored is not
  stale before every request that read its predecessor is over.

- `SeatsProofs!TypeCorrect`, `LimitAlwaysNearlyHolds`: LimitNearlyHolds. Each
  request about to insert was let in while there was room, so the members and the
  requests still to insert are, together, less than the limit and all requests: the
  inductive invariant counts both, with the lemmas on cardinality.
- `SeatsProofs!TwinsAlwaysRaced`: TwinsRaced. Of two people with one name, or one
  who has it and a request about to give it, either the pair is in `raced` or the
  first is among the request's rivals.
- `SeatsProofs!UsedRoomsAlwaysStay`: UsedRoomsStay, without conditions. The invariant
  (`Witnessed`): unless the host has removed it, some row that is still there is as
  young as the last activity. A kick or a deletion breaks it only when the row that
  goes is that young, which is what `trace` records.
- `BacklogProofs`: LimitHoldsAlone, KeysOnce, ClashesNeedOthers, ImportsComplete
  and NewTopicsLast, all from one inductive invariant (`BacklogPromised`): what a
  request believes about the backlog (its count, its keys, its position) is right
  up to what others have inserted since, and what it still has to do, together with
  the backlog, contains what is due.
- `ExchangeProofs`: SentIsThere, LabelsKept and StoredFaceUp. The invariant says of
  each request that its card suits the tracker it is calling (`Suited`), that what
  it wrote is still there and what it read still so unless it has been crossed
  (`Holds`), and that the cards have been up since it looked unless they were turned
  (`Judged`), in which case every vote still about to mark the topic was under way
  when the request looked: a later one would have had to find the topic pending.
- `BoardProofs!TypeCorrect`, and `PeeksAlwaysPass`: PeeksPass. The invariant
  (`PeeksOver`): what a viewer has been shown before its time is secret still, nothing
  on a face-up topic is, and of a topic that the snapshot under way has read as face
  up its viewer has been shown nothing before its time, since turning the topic up
  has made an end of that and only a later read of the votes adds to it.
- `BoardProofs!CanVoteIsAlwaysTrue`: CanVoteIsTrue, from the types alone, by comparing
  the snapshot's condition with that of `CastVote`.
- `BoardProofs!NotesAlwaysNearlyLimited`: NotesNearlyLimited. The invariant
  (`NotesPromised`) counts the notes of a player on a topic together with the
  requests about to insert one.
- `BoardProofs!ListsAlwaysTidy`, `SummariesAlwaysRight`: ListsTidy and SummaryRight,
  for lists, decks and rounds of any length with any labels, where the runs try all
  up to four. The loops of the code are folds (`FoldLeft`), which the library defines
  by recursion over sets of places. No induction theorem can be applied with the
  provers at hand, so the induction is done by hand: a set of numbers that has no
  least element is empty (`LeastNumber`, `Climb`). With it `FoldIsDefined` shows that the
  recursion has a solution, and `FoldSteps` that the fold is the last of a row of
  values, each made from the one before by one step of the loop. What is proved of
  each loop is then its invariant. After each label, a list holds one of every kind
  seen so far (`TidyRight`). After each card, the sorted cards are in order and are, one
  for one, the numbers played so far (`SortedRight`, with the bijection between places
  as witness). The total is a number, and n times the value when all n are alike
  (`TotalRight`); the nearest card is nearest of those seen so far (`NearestRight`).
  Rounding either way moves a number by half a hundredth at most (`RoundedRight`).
  That half of the cards lie on each side of the median follows from order and
  bijection by counting (`MedianRight`, `AsMany`), and the rest by arithmetic.
- `LimiterProofs!BudgetAlwaysKept`: BudgetKept. The invariant is a balance
  (`Account`): what an address has spent since any moment is at most what its bucket
  lacks plus the time its clock has moved since then. A late request moves that clock
  back by no more than `Delay`; a bucket that is forgotten would be full again, for
  which `IdleAssumption` is needed.

Every invariant and every action property that a passing run checks is proved, and
so is the refinement; two of them under the stated condition (`Steady`,
`CardsLieStill`), and CurrentHasRow and the refinement when requests are served one
at a time (`ServedSingly`). The
lemmas that hold nothing of the model (`LeastNumber`, `GreatestNumber`, `Climb`,
`DownClosed`) are stated where they are used.

Only model-checked: liveness (VotedTurnsFaceUp, ViewsCatchUp, UnlistedLeave,
RemovedLeave, PastDeadlineForgotten, EmptyRoomsGo), which is out of the prover's
reach, as is ENABLED.

## Not modelled

- Rendering, decoding, logging, configuration, AES-GCM sealing, opening and
  migrating the database, starting and stopping the process, and build and
  deployment files: no state that the rules depend on. Session tokens are taken to
  identify their participant.
- Browsing and listing of the trackers, which keep no state; what they return is a
  choice in `Backlog`.
- The stored roster and the name of the room, the text of topics and notes: written
  and shown, and nothing depends on them. A change of them is a `Change` in
  `Delivery`.
- The frontend hook: which of a pushed, an answered and a polled snapshot is on
  screen. It repairs itself at the next push or poll.

## Plan

The modules above are done. What is left, in order of importance:

1. `RoomClient`: the hook's snapshots from three sources, on top of `Delivery`.
2. The distribution of cards in a snapshot, as a bag next to `Summarize`.
