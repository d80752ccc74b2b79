------------------------------- MODULE Board --------------------------------
(***************************************************************************)
(* What a participant is shown: the snapshot of the room, built from one    *)
(* statement after the other while everybody plays, and the notes that      *)
(* people leave on topics.                                                  *)
(*                                                                          *)
(* Which cards and notes a snapshot contains is decided by the status its   *)
(* topics had when they were read, and the cards and notes are read later.  *)
(* The races among the other operations are those of Rounds; of them this   *)
(* module keeps the one that turns cards face down, a card written late.    *)
(***************************************************************************)
EXTENDS Cards

CONSTANTS
    Players,
    Viewers,   \* bound: the players for whom snapshots are built
    Authors,   \* bound: the players who leave notes
    Topics,
    NoTopic,
    Handlers,  \* goroutines serving requests
    MaxNotes   \* MaxNotesPerPlayer

ASSUME BoardAssumption ==
    /\ Viewers \cup Authors \subseteq Players
    /\ Viewers # {}
    /\ IsFiniteSet(Handlers) /\ Handlers # {}
    /\ NoTopic \notin Topics
    /\ MaxNotes \in Nat

FaceUp == {"revealed", "estimated"}
Statuses == FaceUp \cup {"pending", "voting"}

VARIABLES
    mode,      \* rooms.mode
    current,   \* rooms.current_topic_id
    watching,  \* participants with is_observer
    live,      \* the rows of topics
    status,    \* topics.status
    played,    \* the rows of votes: who has a card on each topic
    notes,     \* topic_notes: how many each participant has left on each topic
    req,       \* requests that have read something and are about to write
    view,      \* the snapshot being built
    secret,    \* history: whose card on each topic has not lain face up
    peeked     \* history: of these, the ones a viewer has been shown

room == <<mode, current, watching>>
history == <<secret, peeked>>
vars == <<mode, current, watching, live, status, played, notes, req, view, secret, peeked>>

Idle == [pc |-> "idle", who |-> CHOOSE p \in Players : TRUE, topic |-> NoTopic,
         first |-> FALSE]
Request == [pc : {"idle", "cast", "note"}, who : Players, topic : Topics \cup {NoTopic},
            first : BOOLEAN]  \* the topic was read as pending

\* What the snapshot has read: the topics, and which of them were face up.
Blind == [pc |-> "idle", me |-> CHOOSE p \in Viewers : TRUE, current |-> NoTopic,
          watching |-> FALSE, seen |-> {}, up |-> {}]
Snapshot == [pc : {"idle", "me", "topics", "votes", "notes"}, me : Viewers,
             current : Topics \cup {NoTopic}, watching : BOOLEAN,
             seen : SUBSET Topics, up : SUBSET Topics]

Up(t) == status[t] \in FaceUp

Init ==
    /\ mode \in {"sync", "async"}
    /\ current = NoTopic
    /\ watching = {}
    /\ live = Topics
    /\ status = [t \in Topics |-> "pending"]
    /\ played = [t \in Topics |-> {}]
    /\ notes = [t \in Topics |-> [p \in Players |-> 0]]
    /\ req = [h \in Handlers |-> Idle]
    /\ view = Blind
    /\ secret = [t \in Topics |-> {}]
    /\ peeked = [v \in Viewers |-> [t \in Topics |-> {}]]

\* The status of t becomes s, after the cards of the players gone have been taken
\* away and those of the players new put down.
Turn(t, s, gone, new) ==
    /\ status' = [status EXCEPT ![t] = s]
    /\ secret' = [secret EXCEPT ![t] = IF s \in FaceUp THEN {} ELSE (@ \ gone) \cup new]
    /\ peeked' = [v \in Viewers |->
                    [peeked[v] EXCEPT ![t] = IF s \in FaceUp THEN {} ELSE @ \ gone]]

-----------------------------------------------------------------------------
\* Voting

\* CastVote accepts a card of p on t.
Accepts(p, t) ==
    /\ p \notin watching
    /\ t \in live
    /\ mode = "sync" => current = t
    /\ ~Up(t)

CastVote(h, p, t) ==
    /\ req[h].pc = "idle"
    /\ Accepts(p, t)
    /\ req' = [req EXCEPT ![h] = [pc |-> "cast", who |-> p, topic |-> t,
                                  first |-> status[t] = "pending"]]
    /\ UNCHANGED <<room, live, status, played, notes, view, history>>

\* The card, and after it what becomes of the topic: the first card opens the
\* voting, the last one may reveal (Rounds says when).
CastWrite(h) ==
    LET t == req[h].topic
    IN /\ req[h].pc = "cast"
       /\ t \in live
       /\ played' = [played EXCEPT ![t] = @ \cup {req[h].who}]
       /\ \/ Turn(t, "revealed", {}, {})
          \/ Turn(t, IF req[h].first THEN "voting" ELSE status[t], {req[h].who}, {req[h].who})
       /\ req' = [req EXCEPT ![h] = Idle]
       /\ UNCHANGED <<room, live, notes, view>>

ClearVote(p, t) ==
    /\ t \in live /\ ~Up(t)
    /\ played' = [played EXCEPT ![t] = @ \ {p}]
    /\ Turn(t, status[t], {p}, {})
    /\ UNCHANGED <<room, live, notes, req, view>>

RevealTopic(t) ==
    /\ t \in live /\ ~Up(t)
    /\ Turn(t, "revealed", {}, {})
    /\ UNCHANGED <<room, live, played, notes, req, view>>

FinalizeTopic(t) ==
    /\ t \in live /\ Up(t)
    /\ Turn(t, "estimated", {}, {})
    /\ UNCHANGED <<room, live, played, notes, req, view>>

ResetTopic(t) ==
    /\ t \in live
    /\ Turn(t, "pending", Players, {})
    /\ played' = [played EXCEPT ![t] = {}]
    /\ UNCHANGED <<room, live, notes, req, view>>

\* With its cards and notes.  Rounds says which topic is shown next.
DeleteTopic(t) ==
    /\ t \in live
    /\ live' = live \ {t}
    /\ current' \in IF current = t THEN (live \ {t}) \cup {NoTopic} ELSE {current}
    /\ Turn(t, "pending", Players, {})
    /\ played' = [played EXCEPT ![t] = {}]
    /\ notes' = [notes EXCEPT ![t] = [p \in Players |-> 0]]
    /\ UNCHANGED <<mode, watching, req, view>>

FocusTopic(t) ==
    /\ t \in live
    /\ mode = "sync"
    /\ current' = t
    /\ UNCHANGED <<mode, watching, live, status, played, notes, req, view, history>>

\* UpdateProfile: cards that are played stay.
Observe(p) ==
    /\ watching' = IF p \in watching THEN watching \ {p} ELSE watching \cup {p}
    /\ UNCHANGED <<mode, current, live, status, played, notes, req, view, history>>

-----------------------------------------------------------------------------
\* Notes

\* Faulty variant of AddNote: lets one note too many in.
AddNoteOffByOne(h, p, t) ==
    /\ req[h].pc = "idle"
    /\ t \in live
    /\ notes[t][p] <= MaxNotes
    /\ req' = [req EXCEPT ![h] = [pc |-> "note", who |-> p, topic |-> t, first |-> FALSE]]
    /\ UNCHANGED <<room, live, status, played, notes, view, history>>

AddNote(h, p, t) ==
    /\ req[h].pc = "idle"
    /\ t \in live
    /\ notes[t][p] < MaxNotes
    /\ req' = [req EXCEPT ![h] = [pc |-> "note", who |-> p, topic |-> t, first |-> FALSE]]
    /\ UNCHANGED <<room, live, status, played, notes, view, history>>

CreateNote(h) ==
    /\ req[h].pc = "note"
    /\ req[h].topic \in live
    /\ notes' = [notes EXCEPT ![req[h].topic][req[h].who] = @ + 1]
    /\ req' = [req EXCEPT ![h] = Idle]
    /\ UNCHANGED <<room, live, status, played, view, history>>

\* Faulty variant of DeleteNote: takes a note away a second time.
DeleteNoteTwice(p, t) ==
    /\ t \in live
    /\ notes' = [notes EXCEPT ![t][p] = @ - 1]
    /\ UNCHANGED <<room, live, status, played, req, view, history>>

\* A note that is gone is not found.
DeleteNote(p, t) ==
    /\ t \in live
    /\ notes[t][p] > 0
    /\ notes' = [notes EXCEPT ![t][p] = @ - 1]
    /\ UNCHANGED <<room, live, status, played, req, view, history>>

\* The topic is gone, a statement fails, the caller hangs up.
Fail(h) ==
    /\ req[h].pc # "idle"
    /\ req' = [req EXCEPT ![h] = Idle]
    /\ UNCHANGED <<room, live, status, played, notes, view, history>>

-----------------------------------------------------------------------------
\* The snapshot: State

ReadRoom(p) ==
    /\ view.pc = "idle"
    /\ view' = [Blind EXCEPT !.pc = "me", !.me = p, !.current = current]
    /\ UNCHANGED <<room, live, status, played, notes, req, history>>

ReadMe ==
    /\ view.pc = "me"
    /\ view' = [view EXCEPT !.pc = "topics", !.watching = view.me \in watching]
    /\ UNCHANGED <<room, live, status, played, notes, req, history>>

ReadTopics ==
    /\ view.pc = "topics"
    /\ view' = [view EXCEPT !.pc = "votes", !.seen = live, !.up = {t \in live : Up(t)}]
    /\ UNCHANGED <<room, live, status, played, notes, req, history>>

\* Faulty variant of CardShown: leaves out whether the cards are up.
CardShownAlways(p, t) == t \in view.seen /\ p \in played[t]

\* The cards whose value is in the snapshot, and of which its statistics are made.
CardShown(p, t) == t \in view.seen /\ p \in played[t] /\ (t \in view.up \/ p = view.me)

\* The cards of others that the snapshot shows before they have lain face up.
Peeks(t) == {p \in secret[t] \ {view.me} : CardShown(p, t)}

ReadVotes ==
    /\ view.pc = "votes"
    /\ view' = [view EXCEPT !.pc = "notes"]
    /\ peeked' = [peeked EXCEPT ![view.me] = [t \in Topics |-> @[t] \cup Peeks(t)]]
    /\ UNCHANGED <<room, live, status, played, notes, req, secret>>

ReadNotes ==
    /\ view.pc = "notes"
    /\ view' = Blind
    /\ UNCHANGED <<room, live, status, played, notes, req, history>>

\* Faulty variant of CanVote: forgets which topic is shown.
CanVoteAnywhere(t) == ~view.watching /\ t \notin view.up

\* What the snapshot says of voting.
CanVote(t) ==
    /\ ~view.watching
    /\ t \notin view.up
    /\ mode = "async" \/ view.current = t

Next ==
    \/ \E h \in Handlers :
         \/ \E p \in Players, t \in Topics : CastVote(h, p, t)
         \/ \E p \in Authors, t \in Topics : AddNote(h, p, t)
         \/ CastWrite(h) \/ CreateNote(h) \/ Fail(h)
    \/ \E t \in Topics :
         \/ RevealTopic(t) \/ FinalizeTopic(t) \/ ResetTopic(t) \/ DeleteTopic(t)
         \/ FocusTopic(t)
         \/ \E p \in Players : ClearVote(p, t)
         \/ \E p \in Authors : DeleteNote(p, t)
    \/ \E p \in Viewers : Observe(p) \/ ReadRoom(p)
    \/ ReadMe \/ ReadTopics \/ ReadVotes \/ ReadNotes

Spec == Init /\ [][Next]_vars

-----------------------------------------------------------------------------
\* Properties

TypeOK ==
    /\ mode \in {"sync", "async"}
    /\ current \in Topics \cup {NoTopic}
    /\ watching \subseteq Players
    /\ live \subseteq Topics
    /\ status \in [Topics -> Statuses]
    /\ played \in [Topics -> SUBSET Players]
    /\ notes \in [Topics -> [Players -> Nat]]
    /\ req \in [Handlers -> Request]
    /\ view \in Snapshot
    /\ secret \in [Topics -> SUBSET Players]
    /\ peeked \in [Viewers -> [Topics -> SUBSET Players]]

\* A card can be shown before its time, when its topic is reset and played anew
\* between the read of the topics and the read of the votes (service/state.go:134-205;
\* README.md:587 says that the server never sends it).  It does not last: no snapshot
\* that begins later shows the same card to the same viewer while it has not lain face
\* up.
PeeksPass ==
    [][ReadVotes => \A t \in Topics : Peeks(t) \cap peeked[view.me][t] = {}]_vars

\* A snapshot that is still true says of every topic what CastVote would: a player
\* may vote there exactly if a card would be accepted (state.go:243 and
\* service.go:668-690).
CanVoteIsTrue ==
    view.pc \in {"votes", "notes"} =>
        \A t \in view.seen \cap live :
            /\ view.current = current
            /\ view.watching <=> view.me \in watching
            /\ t \in view.up <=> Up(t)
            => (CanVote(t) <=> Accepts(view.me, t))

\* The limit on notes is checked by one statement and the note inserted by another:
\* it is exceeded by less than the requests served side by side.
NotesNearlyLimited ==
    \A t \in Topics, p \in Players : notes[t][p] < MaxNotes + Cardinality(Handlers)

\* Decks and rosters are tidied as they should be, whatever is typed
\* (service/service.go, normaliseDeck and normaliseRoster).  This does not depend on
\* the state: it is asserted of the first one.
ListsTidy == Init => AllListsTidy

\* The statistics a snapshot shows of a round are right, whatever cards were played
\* and whatever the deck is by now (domain/stats.go, Summarize).
SummaryRight == Init => AllSummariesRight
=============================================================================
