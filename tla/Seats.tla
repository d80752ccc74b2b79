------------------------------- MODULE Seats --------------------------------
(***************************************************************************)
(* A room from its creation to its purge: who has a seat, under which name, *)
(* and what the janitor goes by when it deletes rooms nobody has touched.   *)
(*                                                                          *)
(* Limits and names are checked by one statement and written by another,    *)
(* and a room and its host are two inserts, so requests are served here     *)
(* statement by statement.  Rows carry their age in days instead of a date. *)
(***************************************************************************)
EXTENDS Naturals, FiniteSets

CONSTANTS
    People,      \* participant ids; an id is given out again only when nothing refers to it
    Host,        \* the participant who creates the room
    Names,       \* display names, up to letter case
    NoName,      \* no row in participants
    Topics,      \* topic ids
    Handlers,    \* goroutines serving requests
    MaxPlayers,  \* MaxPlayersPerRoom
    Retention    \* ESTIMEET_ROOM_RETENTION_DAYS

ASSUME SeatsAssumption ==
    /\ Host \in People
    /\ NoName \notin Names
    /\ IsFiniteSet(People) /\ IsFiniteSet(Handlers)
    /\ Handlers # {}
    /\ MaxPlayers \in Nat \ {0}
    /\ Retention \in Nat \ {0}

VARIABLES
    room,    \* age of rooms.created_at, or Gone
    name,    \* participants.name, or NoName
    seen,    \* age of participants.last_seen_at
    topics,  \* age of topics.created_at, or Gone
    req,     \* the requests in flight
    quiet,   \* history: days since anybody joined, added a topic or was heard of
    trace,   \* history: whether a row still shows that, or the host has removed it
    raced    \* history: pairs of people whose names were given out side by side

vars == <<room, name, seen, topics, req, quiet, trace, raced>>

Ages == 0..Retention
Gone == Retention + 1    \* no such row

Older(age) == IF age < Retention THEN age + 1 ELSE age

Members == {p \in People : name[p] # NoName}

\* A request that waits for its second statement: "seat" is the insert of a host
\* or of a guest, "rename" the update of a name.
Idle == [pc |-> "idle"]
Naming == [pc : {"seat", "rename"}, who : People, name : Names, rivals : SUBSET People]
Request == {Idle} \cup Naming

\* Requests that have read the list of participants and are about to name somebody.
InHand == {h \in Handlers : req[h].pc # "idle"}

TypeOK ==
    /\ room \in Ages \cup {Gone}
    /\ name \in [People -> Names \cup {NoName}]
    /\ seen \in [People -> Ages]
    /\ topics \in [Topics -> Ages \cup {Gone}]
    /\ req \in [Handlers -> Request]
    /\ quiet \in Ages
    /\ trace \in {"kept", "removed"}
    /\ raced \in SUBSET (SUBSET People)

Init ==
    /\ room = Gone
    /\ name = [p \in People |-> NoName]
    /\ seen = [p \in People |-> Retention]
    /\ topics = [t \in Topics |-> Gone]
    /\ req = [h \in Handlers |-> Idle]
    /\ quiet = Retention
    /\ trace = "kept"
    /\ raced = {}

-----------------------------------------------------------------------------
\* Requests

Taken(n, but) == \E p \in People \ {but} : name[p] = n

Known(p) == name[p] # NoName \/ \E h \in InHand : req[h].who = p

\* A uuid that neither a row nor a request in flight knows.  One such is as good as
\* another, so it is always the same of them.
Fresh(p) ==
    /\ p # Host /\ ~Known(p)
    /\ p = CHOOSE q \in People : q # Host /\ ~Known(q)

\* Storing a name: whoever is named now is a rival of every request that has
\* already read the list and will store a name later.
Named(h, p) ==
    /\ req' = [g \in Handlers |->
                 IF g = h THEN Idle
                 ELSE IF g \in InHand THEN [req[g] EXCEPT !.rivals = @ \cup {p}]
                 ELSE req[g]]
    /\ raced' = {r \in raced : p \notin r} \cup {{p, q} : q \in req[h].rivals \ {p}}

\* Activity that leaves a row with today's date.
Heard == quiet' = 0 /\ trace' = "kept"

\* The host removes a row of this age: it may be what showed the last activity.
Removed(age) == trace' = IF age <= quiet THEN "removed" ELSE trace

\* The people gone are nobody's rivals any more.
WithoutRivals(gone) ==
    req' = [h \in Handlers |->
              IF h \in InHand THEN [req[h] EXCEPT !.rivals = @ \ gone] ELSE req[h]]

\* What goes when a participant's row goes (ON DELETE CASCADE).
Forget(p) ==
    /\ name' = [name EXCEPT ![p] = NoName]
    /\ seen' = [seen EXCEPT ![p] = Retention]
    /\ raced' = {r \in raced : p \notin r}
    /\ WithoutRivals({p})

\* CreateRoom, first insert.  The random code is retried until it is free, or the
\* request gives up, which changes nothing.
CreateRoom(h, n) ==
    /\ req[h].pc = "idle"
    /\ room = Gone
    /\ \A g \in Handlers : req[g].pc = "idle"
    /\ room' = 0
    /\ Heard
    /\ req' = [req EXCEPT ![h] = [pc |-> "seat", who |-> Host, name |-> n, rivals |-> {}]]
    /\ UNCHANGED <<name, seen, topics, raced>>

\* Faulty variant of JoinRoom: one too many is let in.
JoinRoomOffByOne(h, p, n) ==
    /\ req[h].pc = "idle"
    /\ room # Gone
    /\ Fresh(p)
    /\ Cardinality(Members) <= MaxPlayers
    /\ ~Taken(n, p)
    /\ req' = [req EXCEPT ![h] = [pc |-> "seat", who |-> p, name |-> n, rivals |-> {}]]
    /\ UNCHANGED <<room, name, seen, topics, quiet, trace, raced>>

\* Faulty variant of JoinRoom: a name that is blank once trimmed gets through.
JoinRoomBlank(h, p, n) ==
    /\ req[h].pc = "idle"
    /\ room # Gone
    /\ Fresh(p)
    /\ Cardinality(Members) < MaxPlayers
    /\ req' = [req EXCEPT ![h] = [pc |-> "seat", who |-> p, name |-> NoName, rivals |-> {}]]
    /\ UNCHANGED <<room, name, seen, topics, quiet, trace, raced>>

\* JoinRoom: the room, then its participants are read; it must not be full and
\* the name must be free.
JoinRoom(h, p, n) ==
    /\ req[h].pc = "idle"
    /\ room # Gone
    /\ Fresh(p)
    /\ Cardinality(Members) < MaxPlayers
    /\ ~Taken(n, p)
    /\ req' = [req EXCEPT ![h] = [pc |-> "seat", who |-> p, name |-> n, rivals |-> {}]]
    /\ UNCHANGED <<room, name, seen, topics, quiet, trace, raced>>

\* The insert of CreateRoom and JoinRoom; a room that is gone fails it by its
\* foreign key.
CreateParticipant(h) ==
    /\ req[h].pc = "seat"
    /\ room # Gone
    /\ name' = [name EXCEPT ![req[h].who] = req[h].name]
    /\ seen' = [seen EXCEPT ![req[h].who] = 0]
    /\ Heard
    /\ Named(h, req[h].who)
    /\ UNCHANGED <<room, topics>>

\* Faulty variant of UpdateProfile: a new name is not compared with the others.
UpdateProfileUnchecked(h, p, n) ==
    /\ req[h].pc = "idle"
    /\ p \in Members
    /\ req' = [req EXCEPT ![h] = [pc |-> "rename", who |-> p, name |-> n, rivals |-> {}]]
    /\ UNCHANGED <<room, name, seen, topics, quiet, trace, raced>>

\* UpdateProfile: nobody else may have the name.
UpdateProfile(h, p, n) ==
    /\ req[h].pc = "idle"
    /\ p \in Members
    /\ ~Taken(n, p)
    /\ req' = [req EXCEPT ![h] = [pc |-> "rename", who |-> p, name |-> n, rivals |-> {}]]
    /\ UNCHANGED <<room, name, seen, topics, quiet, trace, raced>>

\* Nothing happens, and nobody is told, when the row has gone meanwhile.
UpdateParticipant(h) ==
    /\ req[h].pc = "rename"
    /\ IF req[h].who \in Members
       THEN /\ name' = [name EXCEPT ![req[h].who] = req[h].name]
            /\ Named(h, req[h].who)
       ELSE /\ req' = [req EXCEPT ![h] = Idle]
            /\ UNCHANGED <<name, raced>>
    /\ UNCHANGED <<room, seen, topics, quiet, trace>>

\* The next three ask for the host's token alone (requireHost): the host may have
\* been away for as long as anybody.
KickParticipant(p) ==
    /\ Host \in Members
    /\ p \in Members \ {Host}
    /\ Forget(p)
    /\ Removed(seen[p])
    /\ UNCHANGED <<room, topics, quiet>>

AddTopic(t) ==
    /\ Host \in Members
    /\ topics[t] = Gone
    /\ topics' = [topics EXCEPT ![t] = 0]
    /\ Heard
    /\ UNCHANGED <<room, name, seen, req, raced>>

DeleteTopic(t) ==
    /\ Host \in Members
    /\ topics[t] # Gone
    /\ topics' = [topics EXCEPT ![t] = Gone]
    /\ Removed(topics[t])
    /\ UNCHANGED <<room, name, seen, req, quiet, raced>>

\* A failing statement, a timeout, a caller who hangs up.
Abort(h) ==
    /\ req[h].pc # "idle"
    /\ req' = [req EXCEPT ![h] = Idle]
    /\ UNCHANGED <<room, name, seen, topics, quiet, trace, raced>>

-----------------------------------------------------------------------------
\* Presence, time and the janitor

\* A keep-alive on the socket of a browser that has been open for 30 seconds.
\* Polling, shorter visits and votes write no date.
Touch(p) ==
    /\ p \in Members
    /\ seen' = [seen EXCEPT ![p] = 0]
    /\ Heard
    /\ UNCHANGED <<room, name, topics, req, raced>>

\* A day.  Requests last 30 seconds at most and may see midnight; the model lets
\* them last longer.
Tick ==
    /\ room' = IF room = Gone THEN Gone ELSE Older(room)
    /\ seen' = [p \in People |-> Older(seen[p])]
    /\ topics' = [t \in Topics |-> IF topics[t] = Gone THEN Gone ELSE Older(topics[t])]
    /\ quiet' = Older(quiet)
    /\ UNCHANGED <<name, req, trace, raced>>

\* Faulty variant of Stale: keep-alives do not count.
StaleByTopics ==
    /\ room = Retention
    /\ \A t \in Topics : topics[t] # Gone => topics[t] = Retention

\* Faulty variant of Stale: without COALESCE, the MAX over no rows is NULL, and so
\* is the greatest of the three.
StaleWithoutCoalesce ==
    /\ Members # {}
    /\ \E t \in Topics : topics[t] # Gone
    /\ room = Retention
    /\ \A p \in Members : seen[p] = Retention
    /\ \A t \in Topics : topics[t] # Gone => topics[t] = Retention

\* The greatest of created_at, last_seen_at and the topics' created_at is not
\* after the cutoff.
Stale ==
    /\ room = Retention
    /\ \A p \in Members : seen[p] = Retention
    /\ \A t \in Topics : topics[t] # Gone => topics[t] = Retention

PurgeStaleRooms ==
    /\ Stale
    /\ room' = Gone
    /\ name' = [p \in People |-> NoName]
    /\ seen' = [p \in People |-> Retention]
    /\ topics' = [t \in Topics |-> Gone]
    /\ raced' = {}
    /\ quiet' = Retention
    /\ trace' = "kept"
    /\ WithoutRivals(People)

Proceed(h) == CreateParticipant(h) \/ UpdateParticipant(h)

Next ==
    \/ \E h \in Handlers :
          \/ \E n \in Names :
                \/ CreateRoom(h, n)
                \/ \E p \in People : JoinRoom(h, p, n) \/ UpdateProfile(h, p, n)
          \/ Proceed(h)
          \/ Abort(h)
    \/ \E p \in People : KickParticipant(p) \/ Touch(p)
    \/ \E t \in Topics : AddTopic(t) \/ DeleteTopic(t)
    \/ Tick
    \/ PurgeStaleRooms

Spec == Init /\ [][Next]_vars

\* A request goes on or is stopped, days pass, and the janitor keeps sweeping.
FairSpec ==
    /\ Spec
    /\ \A h \in Handlers : WF_vars(Proceed(h) \/ Abort(h))
    /\ WF_vars(Tick)
    /\ WF_vars(PurgeStaleRooms)

-----------------------------------------------------------------------------
\* Properties

\* The check of JoinRoom is not made again by the insert, so a room can hold more
\* than MaxPlayers; but not by more than the requests served side by side with the
\* last one, whatever else happens meanwhile.
LimitNearlyHolds == Cardinality(Members) < MaxPlayers + Cardinality(Handlers)

\* Nothing in the database keeps names apart.  Two people of a room have the same
\* name only if the later one was given it by a request that had looked for the
\* name before the other one's was stored.
TwinsRaced ==
    \A p, q \in Members : p # q /\ name[p] = name[q] => {p, q} \in raced

\* The janitor goes by the rows there are, which people who come back change and
\* the host takes away.  A room in which anybody joined, added a topic or was heard
\* of within the retention is never deleted (README, "How long sessions are kept"):
\* unless the host, perhaps without having been heard of again, has since kicked
\* the last who were heard of or deleted the topic that was added last.
UsedRoomsStay == [][PurgeStaleRooms => quiet = Retention \/ trace = "removed"]_vars

\* CreateRoom can stop between its two inserts.  A room that nobody sits in is
\* taken in the end, or somebody joins it.
EmptyRoomsGo == (room # Gone /\ Members = {}) ~> (room = Gone \/ Members # {})
=============================================================================
