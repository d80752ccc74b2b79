---------------------------- MODULE BoardProofs -----------------------------
(***************************************************************************)
(* For any players, topics, requests and limit: what a snapshot shows of   *)
(* topics that are face down, what it says of voting, and how far the      *)
(* limit on notes holds.  For any labels and lists of any length: what     *)
(* becomes of a deck or a roster, and that the statistics of a round are   *)
(* right.                                                                  *)
(***************************************************************************)
EXTENDS Board, FiniteSetTheorems, SequenceTheorems, TLAPS

LEMMA SomebodyIsThere ==
  (CHOOSE p \in Players : TRUE) \in Players /\ (CHOOSE p \in Viewers : TRUE) \in Viewers
  BY BoardAssumption

LEMMA RestTyped == Idle \in Request /\ Blind \in Snapshot
  BY SomebodyIsThere DEF Idle, Request, Blind, Snapshot

LEMMA StatusesKnown ==
  /\ FaceUp \subseteq Statuses /\ {"pending", "voting"} \subseteq Statuses
  /\ "revealed" \in FaceUp /\ "estimated" \in FaceUp
  BY DEF FaceUp, Statuses

-----------------------------------------------------------------------------
\* Types

LEMMA TurnTyped ==
  ASSUME TypeOK, NEW t \in Topics, NEW s \in Statuses, NEW gone, NEW new \in SUBSET Players,
         Turn(t, s, gone, new)
  PROVE  /\ status' \in [Topics -> Statuses]
         /\ secret' \in [Topics -> SUBSET Players]
         /\ peeked' \in [Viewers -> [Topics -> SUBSET Players]]
<1>1. status' \in [Topics -> Statuses]
  BY DEF Turn, TypeOK
<1>2. secret' \in [Topics -> SUBSET Players]
  BY DEF Turn, TypeOK
<1>3. peeked' \in [Viewers -> [Topics -> SUBSET Players]]
  BY DEF Turn, TypeOK
<1> QED BY <1>1, <1>2, <1>3

LEMMA InitTypeOK == Init => TypeOK
  BY RestTyped, StatusesKnown DEF Init, TypeOK

\* The steps of a snapshot change nothing else.
LEMMA SnapshotTyped ==
  ASSUME TypeOK, (\E p \in Viewers : ReadRoom(p)) \/ ReadMe \/ ReadTopics \/ ReadVotes \/ ReadNotes
  PROVE  TypeOK'
<1>1. ASSUME NEW p \in Viewers, ReadRoom(p) PROVE view' \in Snapshot
  BY <1>1, RestTyped DEF ReadRoom, TypeOK, Snapshot
<1>2. CASE ReadMe
  <2>1. (view.me \in watching) \in BOOLEAN
    OBVIOUS
  <2>2. view' \in Snapshot
    BY <1>2, <2>1 DEF ReadMe, TypeOK, Snapshot
  <2> QED BY <1>2, <2>2 DEF ReadMe, TypeOK, room, history
<1>3. CASE ReadTopics
  BY <1>3 DEF ReadTopics, TypeOK, Snapshot, room, history
<1>4. CASE ReadVotes
  <2>1. view' \in Snapshot /\ view.me \in Viewers
    BY <1>4 DEF ReadVotes, TypeOK, Snapshot
  <2>2. peeked' \in [Viewers -> [Topics -> SUBSET Players]]
    BY <1>4, <2>1 DEF ReadVotes, TypeOK, Peeks
  <2> QED BY <1>4, <2>1, <2>2 DEF ReadVotes, TypeOK, room
<1>5. CASE ReadNotes
  BY <1>5, RestTyped DEF ReadNotes, TypeOK, room, history
<1>6. ASSUME NEW p \in Viewers, ReadRoom(p) PROVE TypeOK'
  BY <1>6, <1>1 DEF ReadRoom, TypeOK, room, history
<1> QED BY <1>2, <1>3, <1>4, <1>5, <1>6

LEMMA StepTypeOK == TypeOK /\ [Next]_vars => TypeOK'
<1> SUFFICES ASSUME TypeOK, [Next]_vars PROVE TypeOK'
  OBVIOUS
<1> USE RestTyped, StatusesKnown DEF room, history
<1>1. ASSUME NEW h \in Handlers, NEW p \in Players, NEW t \in Topics, CastVote(h, p, t)
      PROVE  TypeOK'
  <2>1. [pc |-> "cast", who |-> p, topic |-> t, first |-> status[t] = "pending"] \in Request
    BY DEF Request
  <2> QED BY <1>1, <2>1 DEF CastVote, TypeOK
<1>2. ASSUME NEW h \in Handlers, NEW p \in Authors, NEW t \in Topics, AddNote(h, p, t)
      PROVE  TypeOK'
  <2>1. [pc |-> "note", who |-> p, topic |-> t, first |-> FALSE] \in Request
    BY BoardAssumption DEF Request
  <2> QED BY <1>2, <2>1 DEF AddNote, TypeOK
<1>3. ASSUME NEW h \in Handlers, CastWrite(h) PROVE TypeOK'
  <2> DEFINE t == req[h].topic
  <2>1. t \in Topics /\ req[h].who \in Players
    BY <1>3 DEF CastWrite, TypeOK, Request
  <2>2. PICK s \in Statuses, c \in SUBSET Players : Turn(t, s, c, c)
    BY <1>3, <2>1 DEF CastWrite, TypeOK
  <2>3. /\ status' \in [Topics -> Statuses]
        /\ secret' \in [Topics -> SUBSET Players]
        /\ peeked' \in [Viewers -> [Topics -> SUBSET Players]]
    BY <2>1, <2>2, TurnTyped
  <2> QED BY <1>3, <2>1, <2>3 DEF CastWrite, TypeOK
<1>4. ASSUME NEW h \in Handlers, CreateNote(h) PROVE TypeOK'
  <2>1. req[h].topic \in Topics /\ req[h].who \in Players
    BY <1>4 DEF CreateNote, TypeOK, Request
  <2>2. notes' \in [Topics -> [Players -> Nat]]
    BY <1>4, <2>1 DEF CreateNote, TypeOK
  <2> QED BY <1>4, <2>2 DEF CreateNote, TypeOK
<1>5. ASSUME NEW h \in Handlers, Fail(h) PROVE TypeOK'
  BY <1>5 DEF Fail, TypeOK
<1>6. ASSUME NEW t \in Topics, RevealTopic(t) \/ FinalizeTopic(t) \/ ResetTopic(t)
      PROVE  TypeOK'
  <2>1. PICK s \in Statuses, c \in SUBSET Players : Turn(t, s, c, {})
    BY <1>6 DEF RevealTopic, FinalizeTopic, ResetTopic
  <2>2. /\ status' \in [Topics -> Statuses]
        /\ secret' \in [Topics -> SUBSET Players]
        /\ peeked' \in [Viewers -> [Topics -> SUBSET Players]]
    BY <2>1, TurnTyped
  <2> QED BY <1>6, <2>2 DEF RevealTopic, FinalizeTopic, ResetTopic, TypeOK
<1>7. ASSUME NEW t \in Topics, DeleteTopic(t) PROVE TypeOK'
  <2>1. /\ status' \in [Topics -> Statuses]
        /\ secret' \in [Topics -> SUBSET Players]
        /\ peeked' \in [Viewers -> [Topics -> SUBSET Players]]
    BY <1>7, TurnTyped DEF DeleteTopic
  <2>2. current' \in Topics \cup {NoTopic}
    BY <1>7 DEF DeleteTopic, TypeOK
  <2>3. notes' \in [Topics -> [Players -> Nat]]
    BY <1>7 DEF DeleteTopic, TypeOK
  <2> QED BY <1>7, <2>1, <2>2, <2>3 DEF DeleteTopic, TypeOK
<1>8. ASSUME NEW t \in Topics, FocusTopic(t) PROVE TypeOK'
  BY <1>8 DEF FocusTopic, TypeOK
<1>9. ASSUME NEW t \in Topics, NEW p \in Players, ClearVote(p, t) PROVE TypeOK'
  <2>1. /\ status' \in [Topics -> Statuses]
        /\ secret' \in [Topics -> SUBSET Players]
        /\ peeked' \in [Viewers -> [Topics -> SUBSET Players]]
    BY <1>9, TurnTyped DEF ClearVote, TypeOK
  <2> QED BY <1>9, <2>1 DEF ClearVote, TypeOK
<1>10. ASSUME NEW t \in Topics, NEW p \in Authors, DeleteNote(p, t) PROVE TypeOK'
  <2>1. p \in Players /\ notes[t][p] \in Nat /\ notes[t][p] - 1 \in Nat
    BY <1>10, BoardAssumption DEF DeleteNote, TypeOK
  <2>2. notes' \in [Topics -> [Players -> Nat]]
    BY <1>10, <2>1 DEF DeleteNote, TypeOK
  <2> QED BY <1>10, <2>2 DEF DeleteNote, TypeOK
<1>11. ASSUME NEW p \in Viewers, Observe(p) PROVE TypeOK'
  BY <1>11, BoardAssumption DEF Observe, TypeOK
<1>12. CASE UNCHANGED vars
  BY <1>12 DEF vars, TypeOK
<1> QED BY <1>1, <1>2, <1>3, <1>4, <1>5, <1>6, <1>7, <1>8, <1>9, <1>10, <1>11, <1>12,
           SnapshotTyped DEF Next

\* The snapshot and the requests are what the definitions of their fields say.
THEOREM TypeCorrect == Spec => []TypeOK
  BY InitTypeOK, StepTypeOK, PTL DEF Spec

-----------------------------------------------------------------------------
\* What is shown

\* What has been shown before its time is still a secret; no card on a topic that is
\* face up is; and a topic that the snapshot has read as face up was turned up after
\* all that its viewer has been shown of it before its time.
PeeksOver ==
    /\ \A v \in Viewers, t \in Topics : peeked[v][t] \subseteq secret[t]
    /\ \A t \in Topics : Up(t) => secret[t] = {}
    /\ view.pc = "votes" => \A t \in view.up : peeked[view.me][t] = {}

LEMMA InitPeeksOver == Init => PeeksOver
  BY DEF Init, PeeksOver, Blind

\* Turning a topic leaves nothing behind, and shows nothing.
LEMMA TurnOver ==
  ASSUME TypeOK, PeeksOver, NEW t \in Topics, NEW s \in Statuses, NEW gone, NEW new,
         Turn(t, s, gone, new), UNCHANGED view
  PROVE  PeeksOver'
<1> USE DEF PeeksOver
<1>1. ASSUME NEW v \in Viewers, NEW u \in Topics
      PROVE  peeked'[v][u] \subseteq secret'[u] /\ peeked'[v][u] \subseteq peeked[v][u]
  <2>1. /\ secret'[u] = IF u # t THEN secret[u]
                        ELSE IF s \in FaceUp THEN {} ELSE (secret[t] \ gone) \cup new
        /\ peeked'[v][u] = IF u # t THEN peeked[v][u]
                           ELSE IF s \in FaceUp THEN {} ELSE peeked[v][t] \ gone
    BY DEF Turn, TypeOK
  <2> QED BY <2>1
<1>2. ASSUME NEW u \in Topics, Up(u)' PROVE secret'[u] = {}
  BY <1>2 DEF Turn, TypeOK, Up
<1>3. ASSUME view'.pc = "votes", NEW u \in view'.up PROVE peeked'[view'.me][u] = {}
  <2>1. peeked[view.me][u] = {} /\ view.me \in Viewers /\ u \in Topics
    BY <1>3 DEF TypeOK, Snapshot
  <2> QED BY <1>1, <2>1
<1> QED BY <1>1, <1>2, <1>3

LEMMA StepPeeksOver == TypeOK /\ PeeksOver /\ [Next]_vars => PeeksOver'
<1> SUFFICES ASSUME TypeOK, PeeksOver, [Next]_vars PROVE PeeksOver'
  OBVIOUS
<1>1. ASSUME UNCHANGED <<status, view, history>> PROVE PeeksOver'
  BY <1>1 DEF PeeksOver, Up, history
<1>2. ASSUME NEW h \in Handlers, CastWrite(h) PROVE PeeksOver'
  <2> DEFINE t == req[h].topic
  <2>1. t \in Topics /\ req[h].who \in Players /\ UNCHANGED view
    BY <1>2 DEF CastWrite, TypeOK, Request
  <2>2. PICK s \in Statuses, c \in SUBSET Players : Turn(t, s, c, c)
    BY <1>2, <2>1, StatusesKnown DEF CastWrite, TypeOK
  <2> QED BY <2>1, <2>2, TurnOver
<1>3. ASSUME NEW t \in Topics,
             \/ RevealTopic(t) \/ FinalizeTopic(t) \/ ResetTopic(t) \/ DeleteTopic(t)
             \/ \E p \in Players : ClearVote(p, t)
      PROVE  PeeksOver'
  <2>1. PICK s \in Statuses, c \in SUBSET Players : Turn(t, s, c, {})
    BY <1>3, StatusesKnown
    DEF RevealTopic, FinalizeTopic, ResetTopic, DeleteTopic, ClearVote, TypeOK
  <2>2. UNCHANGED view
    BY <1>3 DEF RevealTopic, FinalizeTopic, ResetTopic, DeleteTopic, ClearVote
  <2> QED BY <2>1, <2>2, TurnOver
<1>4. ASSUME UNCHANGED <<status, history>>, view'.pc # "votes" PROVE PeeksOver'
  BY <1>4 DEF PeeksOver, Up, history
<1>5. ASSUME NEW p \in Viewers, ReadRoom(p) PROVE UNCHANGED <<status, history>> /\ view'.pc # "votes"
  BY <1>5, RestTyped DEF ReadRoom, Snapshot
<1>6. CASE ReadMe \/ ReadNotes
  <2>1. CASE ReadMe
    <3>1. view'.pc # "votes" /\ UNCHANGED <<status, history>>
      BY <2>1 DEF ReadMe, TypeOK, Snapshot
    <3> QED BY <1>4, <3>1
  <2>2. CASE ReadNotes
    <3>1. view'.pc # "votes" /\ UNCHANGED <<status, history>>
      BY <2>2 DEF ReadNotes, Blind
    <3> QED BY <1>4, <3>1
  <2> QED BY <1>6, <2>1, <2>2
<1>7. CASE ReadTopics
  <2>1. view'.up \subseteq {t \in Topics : Up(t)} /\ view'.me \in Viewers
    BY <1>7 DEF ReadTopics, TypeOK, Snapshot
  <2> QED BY <1>7, <2>1 DEF ReadTopics, PeeksOver, Up, history
<1>8. CASE ReadVotes
  <2>1. view'.pc = "notes" /\ view.me \in Viewers
    BY <1>8 DEF ReadVotes, TypeOK, Snapshot
  <2>2. ASSUME NEW v \in Viewers, NEW t \in Topics PROVE peeked'[v][t] \subseteq secret[t]
    BY <1>8, <2>1, <2>2 DEF ReadVotes, Peeks, PeeksOver, TypeOK
  <2> QED BY <1>8, <2>1, <2>2 DEF ReadVotes, PeeksOver, Up
<1> QED
  BY <1>1, <1>2, <1>3, <1>4, <1>5, <1>6, <1>7, <1>8
  DEF Next, CastVote, AddNote, CreateNote, Fail, DeleteNote, FocusTopic, Observe, vars, history

\* A card that a snapshot has shown before its time is not shown again to the same
\* viewer, by a snapshot that begins later, before it has lain face up.
THEOREM PeeksAlwaysPass == Spec => PeeksPass
<1>1. TypeOK /\ PeeksOver /\ [Next]_vars =>
        [ReadVotes => \A t \in Topics : Peeks(t) \cap peeked[view.me][t] = {}]_vars
  BY DEF PeeksOver, Peeks, CardShown, ReadVotes
<1> QED
  BY <1>1, InitTypeOK, StepTypeOK, InitPeeksOver, StepPeeksOver, PTL DEF Spec, PeeksPass

\* A snapshot that is still true lets its viewer vote exactly where CastVote does.
THEOREM CanVoteIsAlwaysTrue == Spec => []CanVoteIsTrue
<1>1. TypeOK => CanVoteIsTrue
  BY DEF TypeOK, CanVoteIsTrue, CanVote, Accepts
<1> QED BY <1>1, InitTypeOK, StepTypeOK, PTL DEF Spec

-----------------------------------------------------------------------------
\* The limit on notes

\* Requests about to insert a note of p on t.
Writing(p, t) == {h \in Handlers : req[h].pc = "note" /\ req[h].who = p /\ req[h].topic = t}

\* Notes that are there and notes that are on their way.
NotesPromised ==
    \A t \in Topics, p \in Players :
        notes[t][p] + Cardinality(Writing(p, t)) < MaxNotes + Cardinality(Handlers)

LEMMA WritingFinite ==
  ASSUME NEW p, NEW t
  PROVE  /\ IsFiniteSet(Writing(p, t)) /\ Cardinality(Writing(p, t)) \in Nat
         /\ Cardinality(Handlers) \in Nat \ {0}
         /\ Cardinality(Writing(p, t)) <= Cardinality(Handlers)
<1>1. Writing(p, t) \subseteq Handlers
  BY DEF Writing
<1>2. Cardinality(Handlers) # 0
  BY FS_EmptySet, BoardAssumption
<1> QED BY <1>1, <1>2, FS_Subset, FS_CardinalityType, BoardAssumption

LEMMA WritingFinitePrime ==
  ASSUME NEW p, NEW t
  PROVE  /\ Cardinality(Writing(p, t)') \in Nat
         /\ Cardinality(Writing(p, t)') <= Cardinality(Handlers)
<1>1. Writing(p, t)' \subseteq Handlers
  BY DEF Writing
<1> QED BY <1>1, FS_Subset, FS_CardinalityType, BoardAssumption

\* No note more, and no promise.
LEMMA NoMoreNotes ==
  ASSUME TypeOK, TypeOK', NotesPromised,
         \A t \in Topics, p \in Players :
            notes'[t][p] <= notes[t][p] /\ Writing(p, t)' \subseteq Writing(p, t)
  PROVE  NotesPromised'
<1> SUFFICES ASSUME NEW t \in Topics, NEW p \in Players
             PROVE  notes'[t][p] + Cardinality(Writing(p, t)') < MaxNotes + Cardinality(Handlers)
  BY DEF NotesPromised
<1>1. Cardinality(Writing(p, t)') <= Cardinality(Writing(p, t))
  BY WritingFinite, FS_Subset
<1>2. notes[t][p] + Cardinality(Writing(p, t)) < MaxNotes + Cardinality(Handlers)
  BY DEF NotesPromised
<1>3. notes[t][p] \in Nat /\ notes'[t][p] \in Nat /\ notes'[t][p] <= notes[t][p]
  BY DEF TypeOK
<1> HIDE DEF Writing
<1> QED BY <1>1, <1>2, <1>3, WritingFinite, WritingFinitePrime, BoardAssumption

LEMMA InitNotesPromised == Init => NotesPromised
<1> SUFFICES ASSUME Init, NEW t \in Topics, NEW p \in Players
             PROVE  notes[t][p] + Cardinality(Writing(p, t)) < MaxNotes + Cardinality(Handlers)
  BY DEF NotesPromised
<1>1. Writing(p, t) = {} /\ notes[t][p] = 0
  BY DEF Init, Writing, Idle
<1>2. Cardinality(Writing(p, t)) = 0
  BY <1>1, FS_EmptySet
<1> QED BY <1>1, <1>2, WritingFinite, BoardAssumption

LEMMA AddNotePromised ==
  ASSUME TypeOK, NotesPromised, NEW h \in Handlers, NEW q \in Authors, NEW u \in Topics,
         AddNote(h, q, u)
  PROVE  NotesPromised'
<1> SUFFICES ASSUME NEW t \in Topics, NEW p \in Players
             PROVE  notes'[t][p] + Cardinality(Writing(p, t)') < MaxNotes + Cardinality(Handlers)
  BY DEF NotesPromised
<1>0. notes'[t][p] = notes[t][p] /\ notes[t][p] \in Nat
  BY DEF AddNote, TypeOK
<1>1. CASE p = q /\ t = u
  <2>1. notes[t][p] < MaxNotes
    BY <1>1 DEF AddNote
  <2>2. /\ Cardinality(Writing(p, t)') \in Nat /\ Cardinality(Handlers) \in Nat
        /\ Cardinality(Writing(p, t)') <= Cardinality(Handlers)
    BY WritingFinite, WritingFinitePrime
  <2> QED BY <1>0, <2>1, <2>2, BoardAssumption
<1>2. CASE ~(p = q /\ t = u)
  <2>1. Writing(p, t)' = Writing(p, t)
    BY <1>2 DEF AddNote, Writing, TypeOK
  <2> QED BY <1>0, <2>1 DEF NotesPromised
<1> QED BY <1>1, <1>2

LEMMA CreateNotePromised ==
  ASSUME TypeOK, NotesPromised, NEW h \in Handlers, CreateNote(h)
  PROVE  NotesPromised'
<1> SUFFICES ASSUME NEW t \in Topics, NEW p \in Players
             PROVE  notes'[t][p] + Cardinality(Writing(p, t)') < MaxNotes + Cardinality(Handlers)
  BY DEF NotesPromised
<1>0. notes[t][p] + Cardinality(Writing(p, t)) < MaxNotes + Cardinality(Handlers)
  BY DEF NotesPromised
<1>1. req[h].topic \in Topics /\ req[h].who \in Players /\ notes[t][p] \in Nat
  BY DEF CreateNote, TypeOK, Request
<1>2. CASE p = req[h].who /\ t = req[h].topic
  <2>1. h \in Writing(p, t) /\ Writing(p, t)' = Writing(p, t) \ {h}
    BY <1>2 DEF CreateNote, Writing, TypeOK, Idle
  <2>2. Cardinality(Writing(p, t)') = Cardinality(Writing(p, t)) - 1
    BY <2>1, WritingFinite, FS_RemoveElement
  <2>3. notes'[t][p] = notes[t][p] + 1
    BY <1>1, <1>2 DEF CreateNote, TypeOK
  <2> QED BY <1>0, <1>1, <2>2, <2>3, WritingFinite, WritingFinitePrime, BoardAssumption
<1>3. CASE ~(p = req[h].who /\ t = req[h].topic)
  <2>1. Writing(p, t)' = Writing(p, t)
    BY <1>3 DEF CreateNote, Writing, TypeOK, Idle
  <2>2. notes'[t][p] = notes[t][p]
    BY <1>1, <1>3 DEF CreateNote, TypeOK
  <2> QED BY <1>0, <2>1, <2>2
<1> QED BY <1>2, <1>3

LEMMA StepNotesPromised == TypeOK /\ TypeOK' /\ NotesPromised /\ [Next]_vars => NotesPromised'
<1> SUFFICES ASSUME TypeOK, TypeOK', NotesPromised, [Next]_vars PROVE NotesPromised'
  OBVIOUS
<1>1. ASSUME UNCHANGED <<notes, req>> PROVE NotesPromised'
  BY <1>1 DEF NotesPromised, Writing
<1>2. ASSUME NEW h \in Handlers, NEW p \in Players, NEW t \in Topics, CastVote(h, p, t)
      PROVE  NotesPromised'
  BY <1>2, NoMoreNotes DEF CastVote, Writing, TypeOK
<1>3. ASSUME NEW h \in Handlers, CastWrite(h) \/ Fail(h) PROVE NotesPromised'
  <2>1. notes' = notes /\ req' = [req EXCEPT ![h] = Idle]
    BY <1>3 DEF CastWrite, Fail
  <2>2. \A u \in Topics, p \in Players : notes'[u][p] <= notes[u][p]
    BY <2>1 DEF TypeOK
  <2>3. \A u \in Topics, p \in Players : Writing(p, u)' \subseteq Writing(p, u)
    BY <2>1 DEF Writing, Idle, TypeOK
  <2> QED BY <2>2, <2>3, NoMoreNotes
<1>4. ASSUME NEW t \in Topics, DeleteTopic(t) PROVE NotesPromised'
  <2>1. \A u \in Topics, p \in Players : notes'[u][p] <= notes[u][p]
    BY <1>4 DEF DeleteTopic, TypeOK
  <2>2. \A u \in Topics, p \in Players : Writing(p, u)' = Writing(p, u)
    BY <1>4 DEF DeleteTopic, Writing
  <2> QED BY <2>1, <2>2, NoMoreNotes
<1>5. ASSUME NEW t \in Topics, NEW p \in Authors, DeleteNote(p, t) PROVE NotesPromised'
  <2>1. \A u \in Topics, q \in Players : notes'[u][q] <= notes[u][q]
    BY <1>5, BoardAssumption DEF DeleteNote, TypeOK
  <2>2. \A u \in Topics, q \in Players : Writing(q, u)' = Writing(q, u)
    BY <1>5 DEF DeleteNote, Writing
  <2> QED BY <2>1, <2>2, NoMoreNotes
<1> QED
  BY <1>1, <1>2, <1>3, <1>4, <1>5, AddNotePromised, CreateNotePromised
  DEF Next, RevealTopic, FinalizeTopic, ResetTopic, ClearVote, FocusTopic, Observe,
      ReadRoom, ReadMe, ReadTopics, ReadVotes, ReadNotes, vars

\* Nobody leaves more notes on a topic than the limit and the requests served side
\* by side, less one, allow.
THEOREM NotesAlwaysNearlyLimited == Spec => []NotesNearlyLimited
<1>1. TypeOK /\ NotesPromised => NotesNearlyLimited
  <2> SUFFICES ASSUME TypeOK, NotesPromised, NEW t \in Topics, NEW p \in Players
               PROVE  notes[t][p] < MaxNotes + Cardinality(Handlers)
    BY DEF NotesNearlyLimited
  <2>1. /\ notes[t][p] \in Nat
        /\ notes[t][p] + Cardinality(Writing(p, t)) < MaxNotes + Cardinality(Handlers)
    BY DEF TypeOK, NotesPromised
  <2> QED BY <2>1, WritingFinite, BoardAssumption
<1> QED
  BY <1>1, InitTypeOK, StepTypeOK, InitNotesPromised, StepNotesPromised, PTL DEF Spec

-----------------------------------------------------------------------------
\* Induction and folds

LEMMA LeastNumber ==
  ASSUME NEW S \in SUBSET Nat, S # {}
  PROVE  \E m \in S : \A n \in S : m <= n
  <1>1. PICK m \in S : \A n \in S : ~(<<n, m>> \in OpToRel(<, Nat))
    BY NatLessThanWellFounded, WFMin
  <1>2. \A n \in S : ~(n < m)
    BY <1>1 DEF OpToRel
  <1>3. ASSUME NEW n \in S PROVE m <= n
    <2>1. m \in Nat /\ n \in Nat
      OBVIOUS
    <2> QED
      BY <1>2, <2>1
  <1> QED
    BY <1>3

\* A set of numbers up to n that has 0, and with each number the next, has them all.
LEMMA Climb ==
  ASSUME NEW n \in Nat, NEW B \in SUBSET (0 .. n), 0 \in B,
         \A k \in 1 .. n : k - 1 \in B => k \in B
  PROVE  B = 0 .. n
  <1>1. SUFFICES ASSUME (0 .. n) \ B # {} PROVE FALSE
    OBVIOUS
  <1> DEFINE Rest == (0 .. n) \ B
  <1>2. Rest \in SUBSET Nat /\ Rest # {}
    BY <1>1
  <1>3. PICK m \in Rest : \A k \in Rest : m <= k
    <2> HIDE DEF Rest
    <2> QED BY <1>2, LeastNumber
  <1>4. m \in 1 .. n
    OBVIOUS
  <1>5. m - 1 \in 0 .. n /\ m - 1 < m
    BY <1>4
  <1> QED
    BY <1>3, <1>4, <1>5

LEMMA LastIsMax == ASSUME NEW k \in Nat, NEW s \in SUBSET (1 .. k), k \in s PROVE Max(s) = k
  <1>1. \A x \in s : (\A y \in s : x >= y) <=> x = k
    OBVIOUS
  <1> QED BY <1>1 DEF Max

LEMMA MaxOfSome ==
  ASSUME NEW n \in Nat, NEW s \in SUBSET (1 .. n), s # {}
  PROVE  Max(s) \in s /\ \A y \in s : Max(s) >= y
  <1> DEFINE Mirror == {n - x : x \in s}
  <1>1. Mirror \in SUBSET Nat /\ Mirror # {}
    <2>1. \A x \in s : n - x \in Nat
      OBVIOUS
    <2> QED BY <2>1
  <1>2. PICK m \in Mirror : \A k \in Mirror : m <= k
    <2> HIDE DEF Mirror
    <2> QED BY <1>1, LeastNumber
  <1>3. PICK x \in s : m = n - x
    OBVIOUS
  <1>4. \A y \in s : x >= y
    <2> SUFFICES ASSUME NEW y \in s PROVE x >= y
      OBVIOUS
    <2>1. m <= n - y
      BY <1>2
    <2> QED BY <1>3, <2>1
  <1> QED BY <1>4 DEF Max

\* What a fold over n places does at each, starting from b, and what it is.
Doing(S, n) == [S \X (1 .. n) -> S]
FoldsOf(S, n, b, G) ==
  {g \in [SUBSET (1 .. n) -> S] :
     \A s \in SUBSET (1 .. n) :
        g[s] = IF s = {} THEN b ELSE G[<<g[s \ {Max(s)}], Max(s)>>]}

\* A fold over the places of a list is defined.
LEMMA FoldIsDefined ==
  ASSUME NEW n \in Nat, NEW S, NEW b \in S, NEW G \in Doing(S, n)
  PROVE  FoldsOf(S, n, b, G) # {}
  <1> USE DEF Doing
  <1> DEFINE Folds(k) ==
               {g \in [SUBSET (1 .. k) -> S] :
                  \A s \in SUBSET (1 .. k) :
                     g[s] = IF s = {} THEN b ELSE G[<<g[s \ {Max(s)}], Max(s)>>]}
             B == {k \in 0 .. n : Folds(k) # {}}
  <1>1. 0 \in B
    <2>1. [s \in SUBSET (1 .. 0) |-> b] \in Folds(0)
      <3>1. \A s \in SUBSET (1 .. 0) : s = {}
        OBVIOUS
      <3> QED BY <3>1
    <2> HIDE DEF Folds
    <2> QED BY <2>1
  <1>2. ASSUME NEW k \in 1 .. n, k - 1 \in B PROVE k \in B
    <2>1. PICK g : g \in Folds(k - 1)
      BY <1>2
    <2> DEFINE h == [s \in SUBSET (1 .. k) |->
                       IF k \in s THEN G[<<g[s \ {k}], k>>] ELSE g[s]]
    <2>2. \A s \in SUBSET (1 .. k) : s \ {k} \in SUBSET (1 .. k - 1)
      OBVIOUS
    <2>3. g \in [SUBSET (1 .. k - 1) -> S]
      BY <2>1
    <2>4. \A s \in SUBSET (1 .. k - 1) :
             g[s] = IF s = {} THEN b ELSE G[<<g[s \ {Max(s)}], Max(s)>>]
      BY <2>1
    <2> HIDE DEF Folds
    <2>5. h \in [SUBSET (1 .. k) -> S]
      <3> SUFFICES ASSUME NEW s \in SUBSET (1 .. k)
                   PROVE  (IF k \in s THEN G[<<g[s \ {k}], k>>] ELSE g[s]) \in S
        OBVIOUS
      <3>1. CASE k \in s
        <4>1. g[s \ {k}] \in S
          BY <2>2, <2>3
        <4>2. <<g[s \ {k}], k>> \in S \X (1 .. n)
          BY <4>1
        <4> QED BY <3>1, <4>2
      <3>2. CASE k \notin s
        BY <3>2, <2>2, <2>3
      <3> QED BY <3>1, <3>2
    <2>6. ASSUME NEW s \in SUBSET (1 .. k)
          PROVE  h[s] = IF s = {} THEN b ELSE G[<<h[s \ {Max(s)}], Max(s)>>]
      <3>1. CASE k \in s
        <4>1. Max(s) = k /\ s # {}
          BY <3>1, LastIsMax
        <4>2. s \ {k} \in SUBSET (1 .. k) /\ k \notin s \ {k}
          OBVIOUS
        <4>3. h[s \ {k}] = g[s \ {k}]
          BY <4>2
        <4>4. h[s] = G[<<g[s \ {k}], k>>]
          BY <3>1
        <4> QED BY <4>1, <4>3, <4>4
      <3>2. CASE k \notin s
        <4>1. s \in SUBSET (1 .. k - 1)
          BY <3>2, <2>2
        <4>2. s \ {Max(s)} \in SUBSET (1 .. k) /\ k \notin s \ {Max(s)}
          BY <3>2
        <4>3. h[s \ {Max(s)}] = g[s \ {Max(s)}]
          BY <4>2
        <4>4. h[s] = g[s]
          BY <3>2
        <4> QED BY <4>1, <4>3, <4>4, <2>4
      <3> QED BY <3>1, <3>2
    <2>7. h \in Folds(k)
      BY <2>5, <2>6 DEF Folds
    <2> QED BY <2>7
  <1>3. B = 0 .. n
    <2>1. B \in SUBSET (0 .. n)
      OBVIOUS
    <2> HIDE DEF B
    <2> QED BY <1>1, <1>2, <2>1, Climb
  <1>4. PICK g : g \in Folds(n)
    <2>1. n \in 0 .. n
      OBVIOUS
    <2>2. n \in B
      <3> HIDE DEF B
      <3> QED BY <1>3, <2>1
    <2> HIDE DEF Folds
    <2> QED BY <2>2
  <1>5. g \in [SUBSET (1 .. n) -> S]
    BY <1>4
  <1>6. \A s \in SUBSET (1 .. n) :
           g[s] = IF s = {} THEN b ELSE G[<<g[s \ {Max(s)}], Max(s)>>]
    BY <1>4
  <1> QED BY <1>5, <1>6 DEF FoldsOf

\* iter folds what G does, as far as that is defined.
Follows(iter, S, n, b, G) ==
  \A s \in SUBSET (1 .. n) :
     /\ s = {} => iter[s] = b
     /\ s # {} /\ iter[s \ {Max(s)}] \in S => iter[s] = G[<<iter[s \ {Max(s)}], Max(s)>>]

\* What there is after each place, up to r in the end.
Steps(r, S, n, b, G) ==
  {out \in [0 .. n -> S] :
     /\ out[0] = b
     /\ \A k \in 1 .. n : out[k] = G[<<out[k - 1], k>>]
     /\ out[n] = r}

LEMMA FoldSteps ==
  ASSUME NEW n \in Nat, NEW S, NEW b \in S, NEW G \in Doing(S, n), NEW iter,
         Follows(iter, S, n, b, G)
  PROVE  Steps(iter[1 .. n], S, n, b, G) # {}
  <1> DEFINE out == [k \in 0 .. n |-> iter[1 .. k]]
             B == {k \in 0 .. n : out[k] \in S}
  <1>1. out[0] = b
    <2>1. 1 .. 0 = {} /\ 1 .. 0 \in SUBSET (1 .. n) /\ 0 \in 0 .. n
      OBVIOUS
    <2> QED BY <2>1 DEF Follows
  <1>2. ASSUME NEW k \in 1 .. n, k - 1 \in B PROVE k \in B /\ out[k] = G[<<out[k - 1], k>>]
    <2>1. 1 .. k \in SUBSET (1 .. n) /\ k \in 1 .. k /\ (1 .. k) \ {k} = 1 .. k - 1
      OBVIOUS
    <2>2. k \in 0 .. n /\ k - 1 \in 0 .. n /\ k \in Nat
      OBVIOUS
    <2>3. Max(1 .. k) = k
      BY <2>1, <2>2, LastIsMax
    <2>4. iter[1 .. k - 1] \in S /\ out[k - 1] = iter[1 .. k - 1] /\ out[k] = iter[1 .. k]
      BY <1>2, <2>1, <2>2
    <2>5. iter[1 .. k] = G[<<iter[1 .. k - 1], k>>]
      BY <2>1, <2>3, <2>4 DEF Follows
    <2>6. G[<<out[k - 1], k>>] \in S
      BY <2>4 DEF Doing
    <2> QED BY <2>2, <2>4, <2>5, <2>6
  <1>3. B = 0 .. n
    <2>1. 0 \in B /\ B \in SUBSET (0 .. n)
      BY <1>1
    <2> HIDE DEF B
    <2> QED BY <1>2, <2>1, Climb
  <1>4. \A k \in 0 .. n : out[k] \in S
    BY <1>3
  <1>5. out \in [0 .. n -> S]
    BY <1>4
  <1>6. \A k \in 1 .. n : k - 1 \in 0 .. n
    OBVIOUS
  <1>7. \A k \in 1 .. n : out[k] = G[<<out[k - 1], k>>]
    <2> HIDE DEF out, B
    <2> QED BY <1>2, <1>3, <1>6
  <1>8. iter[1 .. n] = out[n]
    OBVIOUS
  <1> HIDE DEF out
  <1> QED BY <1>1, <1>5, <1>7, <1>8 DEF Steps

-----------------------------------------------------------------------------
\* Decks and rosters

Once(out) == \A i, j \in DOMAIN out : Folded[out[i]] = Folded[out[j]] => i = j
Kept(out) == {Folded[out[i]] : i \in DOMAIN out}
Typed(list, k) == {Folded[l] : l \in {list[i] : i \in 1 .. k} \ {Blank}}

LEMMA ListedTyped ==
  ASSUME NEW out \in Seq(Labels), NEW l \in Labels
  PROVE  Listed(out, l) \in Seq(Labels)
  BY DEF Listed

\* What Tidy has after each label of the list.
LEMMA TidySteps ==
  ASSUME NEW list \in Seq(Labels)
  PROVE  \E out \in [0 .. Len(list) -> Seq(Labels)] :
            /\ out[0] = <<>>
            /\ \A k \in 1 .. Len(list) : out[k] = Listed(out[k - 1], list[k])
            /\ Tidy(list) = out[Len(list)]
  <1> DEFINE n == Len(list)
             S == Seq(Labels)
             b == <<>>
             G == [p \in S \X (1 .. n) |-> Listed(p[1], list[p[2]])]
             iter == CHOOSE iter : iter = [s \in SUBSET DOMAIN list |->
                       IF s = {} THEN <<>>
                       ELSE Listed(iter[s \ {Max(s)}], list[Max(s)])]
  <1>1. n \in Nat /\ DOMAIN list = 1 .. n /\ b \in S /\ \A k \in 1 .. n : list[k] \in Labels
    OBVIOUS
  <1>2. G \in Doing(S, n)
    BY <1>1, ListedTyped DEF Doing
  <1>3. \A s \in SUBSET (1 .. n) : s # {} => Max(s) \in 1 .. n
    BY <1>1, MaxOfSome
  <1>4. ASSUME NEW x \in S, NEW k \in 1 .. n PROVE G[<<x, k>>] = Listed(x, list[k])
    OBVIOUS
  <1>5. PICK g \in FoldsOf(S, n, b, G) : TRUE
    <2> HIDE DEF n, G, S, b
    <2> QED BY <1>1, <1>2, FoldIsDefined
  <1>6. g = [s \in SUBSET DOMAIN list |->
                IF s = {} THEN <<>> ELSE Listed(g[s \ {Max(s)}], list[Max(s)])]
    <2>1. ASSUME NEW s \in SUBSET (1 .. n), s # {} PROVE g[s \ {Max(s)}] \in S
      BY <1>5 DEF FoldsOf
    <2> HIDE DEF G, S
    <2> QED BY <1>1, <1>3, <1>4, <1>5, <2>1 DEF FoldsOf
  <1>7. iter = [s \in SUBSET DOMAIN list |->
                  IF s = {} THEN <<>> ELSE Listed(iter[s \ {Max(s)}], list[Max(s)])]
    BY <1>6
  <1>8. Tidy(list) = iter[DOMAIN list]
    BY DEF Tidy, FoldLeft, MapThenFoldSet
  <1> HIDE DEF iter, G
  <1>9. Follows(iter, S, n, b, G)
    BY <1>1, <1>3, <1>4, <1>7 DEF Follows
  <1>10. PICK out \in Steps(iter[1 .. n], S, n, b, G) : TRUE
    <2> HIDE DEF n, S, b
    <2> QED BY <1>1, <1>2, <1>9, FoldSteps
  <1>11. \A k \in 1 .. n : out[k - 1] \in S
    BY <1>1, <1>10 DEF Steps
  <1>12. \A k \in 1 .. n : out[k] = Listed(out[k - 1], list[k])
    BY <1>4, <1>10, <1>11 DEF Steps
  <1> QED BY <1>1, <1>8, <1>10, <1>12 DEF Steps

LEMMA ListedRight ==
  ASSUME NEW out \in Seq(Labels \ {Blank}), NEW l \in Labels, Once(out)
  PROVE  /\ Listed(out, l) \in Seq(Labels \ {Blank})
         /\ Once(Listed(out, l))
         /\ Kept(Listed(out, l)) = Kept(out) \cup {Folded[x] : x \in {l} \ {Blank}}
  <1>1. CASE l = Blank
    BY <1>1 DEF Listed
  <1>2. CASE l # Blank /\ \E i \in DOMAIN out : Folded[out[i]] = Folded[l]
    <2>1. Listed(out, l) = out
      BY <1>2 DEF Listed
    <2>2. Folded[l] \in Kept(out) /\ {l} \ {Blank} = {l}
      BY <1>2 DEF Kept
    <2>3. {Folded[x] : x \in {l}} = {Folded[l]}
      OBVIOUS
    <2> QED BY <2>1, <2>2, <2>3
  <1>3. CASE l # Blank /\ \A i \in DOMAIN out : Folded[out[i]] # Folded[l]
    <2>1. Listed(out, l) = Append(out, l)
      BY <1>3 DEF Listed
    <2>2. /\ DOMAIN out = 1 .. Len(out)
          /\ DOMAIN Append(out, l) = 1 .. Len(out) + 1
          /\ Append(out, l)[Len(out) + 1] = l
          /\ \A i \in 1 .. Len(out) : Append(out, l)[i] = out[i]
          /\ 1 .. Len(out) + 1 = (1 .. Len(out)) \cup {Len(out) + 1}
          /\ Len(out) + 1 \notin 1 .. Len(out)
      OBVIOUS
    <2>3. Append(out, l) \in Seq(Labels \ {Blank})
      BY <1>3
    <2>4. Once(Append(out, l))
      <3> DEFINE new == Append(out, l)
      <3> SUFFICES ASSUME NEW i \in DOMAIN new, NEW j \in DOMAIN new,
                          Folded[new[i]] = Folded[new[j]]
                   PROVE  i = j
        BY DEF Once
      <3>1. CASE i \in 1 .. Len(out) /\ j \in 1 .. Len(out)
        <4>1. Folded[out[i]] = Folded[out[j]]
          BY <3>1, <2>2
        <4> HIDE DEF new
        <4> QED BY <3>1, <4>1, <2>2 DEF Once
      <3>2. CASE i = Len(out) + 1 /\ j \in 1 .. Len(out)
        BY <3>2, <2>2, <1>3
      <3>3. CASE j = Len(out) + 1 /\ i \in 1 .. Len(out)
        BY <3>3, <2>2, <1>3
      <3> QED BY <3>1, <3>2, <3>3, <2>2
    <2>5. Kept(Append(out, l)) = Kept(out) \cup {Folded[l]}
      <3>1. \A i \in 1 .. Len(out) : Folded[Append(out, l)[i]] = Folded[out[i]]
        BY <2>2
      <3>2. Folded[Append(out, l)[Len(out) + 1]] = Folded[l]
        BY <2>2
      <3> QED BY <2>2, <3>1, <3>2 DEF Kept
    <2>6. {Folded[x] : x \in {l} \ {Blank}} = {Folded[l]}
      BY <1>3
    <2> QED BY <2>1, <2>3, <2>4, <2>5, <2>6
  <1> QED BY <1>1, <1>2, <1>3

\* Tidy keeps of everything typed one label, and nothing else.
LEMMA TidyRight ==
  ASSUME NEW list \in Seq(Labels)
  PROVE  /\ Tidy(list) \in Seq(Labels \ {Blank})
         /\ Once(Tidy(list))
         /\ Kept(Tidy(list)) = Typed(list, Len(list))
  <1> DEFINE n == Len(list)
  <1>1. n \in Nat /\ \A i \in 1 .. n : list[i] \in Labels
    OBVIOUS
  <1>2. PICK out \in [0 .. n -> Seq(Labels)] :
           /\ out[0] = <<>>
           /\ \A k \in 1 .. n : out[k] = Listed(out[k - 1], list[k])
           /\ Tidy(list) = out[n]
    BY TidySteps
  <1> DEFINE Good(k) == /\ out[k] \in Seq(Labels \ {Blank})
                        /\ Once(out[k])
                        /\ Kept(out[k]) = Typed(list, k)
             B == {k \in 0 .. n : Good(k)}
  <1>3. Good(0)
    BY <1>2 DEF Once, Kept, Typed
  <1>4. ASSUME NEW k \in 1 .. n, Good(k - 1) PROVE Good(k)
    <2>1. /\ out[k] = Listed(out[k - 1], list[k]) /\ list[k] \in Labels
          /\ 1 .. k = (1 .. k - 1) \cup {k}
      BY <1>1, <1>2
    <2>2. Typed(list, k) = Typed(list, k - 1) \cup {Folded[x] : x \in {list[k]} \ {Blank}}
      BY <2>1 DEF Typed
    <2> QED BY <1>4, <2>1, <2>2, ListedRight
  <1>5. B = 0 .. n
    <2>1. 0 \in B
      BY <1>1, <1>3
    <2>2. ASSUME NEW k \in 1 .. n, k - 1 \in B PROVE k \in B
      <3>1. Good(k - 1) /\ k \in 0 .. n
        BY <2>2
      <3> HIDE DEF Good
      <3> QED BY <1>4, <3>1
    <2>3. B \in SUBSET (0 .. n)
      OBVIOUS
    <2> HIDE DEF B, n
    <2> QED BY <1>1, <2>1, <2>2, <2>3, Climb
  <1>6. Good(n)
    BY <1>1, <1>5
  <1> QED BY <1>2, <1>6

\* A list in which nothing is twice is as long as what is on it is many.
LEMMA OnceCounts ==
  ASSUME NEW out \in Seq(Labels), Once(out)
  PROVE  IsFiniteSet(Kept(out)) /\ Cardinality(Kept(out)) = Len(out)
  <1> DEFINE n == Len(out)
             f == [i \in 1 .. n |-> Folded[out[i]]]
  <1>1. n \in Nat /\ DOMAIN out = 1 .. n
    OBVIOUS
  <1>2. f \in Bijection(1 .. n, Kept(out))
    BY <1>1 DEF Bijection, Injection, Surjection, IsInjective, Once, Kept
  <1>3. IsFiniteSet(1 .. n) /\ Cardinality(1 .. n) = n
    BY <1>1, FS_Interval
  <1>4. ExistsBijection(1 .. n, Kept(out))
    BY <1>2 DEF ExistsBijection
  <1> HIDE DEF n
  <1> QED BY <1>3, <1>4, FS_Bijection DEF n

LEMMA TwoExtremes ==
  ASSUME NEW a \in Int, NEW b \in Int
  PROVE  /\ Max({a, b}) = IF a <= b THEN b ELSE a
         /\ Min({a, b}) = IF a <= b THEN a ELSE b
  <1>1. \A x \in {a, b} : (\A y \in {a, b} : x >= y) <=> x = IF a <= b THEN b ELSE a
    OBVIOUS
  <1>2. \A x \in {a, b} : (\A y \in {a, b} : x <= y) <=> x = IF a <= b THEN a ELSE b
    OBVIOUS
  <1> QED BY <1>1, <1>2 DEF Max, Min

LEMMA BoundedIsList ==
  ASSUME NEW S, NEW n \in Nat, NEW list \in BoundedSeq(S, n)
  PROVE  list \in Seq(S)
  <1>1. PICK m \in 0 .. n : list \in [1 .. m -> S]
    BY DEF BoundedSeq, SeqOf
  <1> QED BY <1>1

\* A deck: what is refused, and what is kept.
LEMMA DeckTidy ==
  ASSUME NEW list \in Seq(Labels)
  PROVE  LET deck == NormaliseDeck(list)
             typed == Typed(list, Len(list))
         IN /\ deck = Refused \/ deck = Default \/ (Once(deck) /\ Kept(deck) = typed)
            /\ deck = Refused <=> typed # {} /\ Cardinality(typed) \notin MinDeck .. MaxDeck
  <1> DEFINE out == Tidy(list)
             typed == Typed(list, Len(list))
  <1>1. out \in Seq(Labels \ {Blank}) /\ Once(out) /\ Kept(out) = typed
    BY TidyRight
  <1>2. out \in Seq(Labels)
    BY <1>1
  <1>3. IsFiniteSet(typed) /\ Cardinality(typed) = Len(out)
    BY <1>1, <1>2, OnceCounts
  <1>4. typed = {} <=> out = <<>>
    <2>1. Len(out) = 0 <=> out = <<>>
      BY <1>2
    <2> QED BY <1>3, <2>1, FS_EmptySet
  <1>5. out # Refused /\ Default # Refused
    <2>1. \A s \in Seq(Labels \ {Blank}) : s # <<Blank>>
      <3> SUFFICES ASSUME NEW s \in Seq(Labels \ {Blank}), s = <<Blank>> PROVE FALSE
        OBVIOUS
      <3>1. Len(s) = 1 /\ s[1] = Blank
        OBVIOUS
      <3>2. s[1] \in Labels \ {Blank}
        BY <3>1
      <3> QED BY <3>1, <3>2
    <2> QED BY <1>1, <2>1, CardsAssumption DEF Refused
  <1>6. Len(out) \in Nat /\ MinDeck \in Nat /\ MaxDeck \in Nat
    BY <1>2, CardsAssumption
  <1> HIDE DEF out, typed
  <1>7. NormaliseDeck(list) = IF out = <<>> THEN Default
           ELSE IF Len(out) < MinDeck \/ Len(out) > MaxDeck THEN Refused ELSE out
    BY DEF NormaliseDeck, out
  <1>8. CASE out = <<>>
    BY <1>4, <1>5, <1>7, <1>8 DEF typed
  <1>9. CASE out # <<>> /\ (Len(out) < MinDeck \/ Len(out) > MaxDeck)
    BY <1>3, <1>4, <1>6, <1>7, <1>9 DEF typed
  <1>10. CASE out # <<>> /\ ~(Len(out) < MinDeck \/ Len(out) > MaxDeck)
    BY <1>1, <1>3, <1>4, <1>5, <1>6, <1>7, <1>10 DEF typed
  <1> QED BY <1>8, <1>9, <1>10

\* A roster: the names that are kept and the headcount.
LEMMA RosterTidy ==
  ASSUME NEW list \in Seq(Labels), NEW size \in 0 .. MaxPlayers
  PROVE  LET roster == NormaliseRoster(size, list)
             names == roster.names
             typed == Typed(list, Len(list))
         IN /\ Once(names) /\ Kept(names) \subseteq typed
            /\ Len(names) = Min({Cardinality(typed), MaxPlayers})
            /\ roster.size \in Max({size, Len(names)}) .. MaxPlayers
  <1> DEFINE tidy == Tidy(list)
             typed == Typed(list, Len(list))
             m == Min({Len(tidy), MaxPlayers})
             kept == SubSeq(tidy, 1, m)
             roster == NormaliseRoster(size, list)
  <1>1. tidy \in Seq(Labels) /\ Once(tidy) /\ Kept(tidy) = typed
    BY TidyRight
  <1>2. Cardinality(typed) = Len(tidy)
    BY <1>1, OnceCounts
  <1>3. MaxPlayers \in Nat /\ Len(tidy) \in Nat /\ DOMAIN tidy = 1 .. Len(tidy)
    BY <1>1, CardsAssumption
  <1>4. m \in 0 .. MaxPlayers /\ m <= Len(tidy)
    <2>1. m = IF Len(tidy) <= MaxPlayers THEN Len(tidy) ELSE MaxPlayers
      <3>1. Len(tidy) \in Int /\ MaxPlayers \in Int
        BY <1>3
      <3> HIDE DEF tidy
      <3> QED BY <3>1, TwoExtremes
    <2> HIDE DEF m, tidy
    <2> QED BY <1>3, <2>1
  <1> HIDE DEF tidy, typed, m
  <1>5. Len(kept) = m /\ DOMAIN kept = 1 .. m /\ \A i \in 1 .. m : kept[i] = tidy[i]
    BY <1>1, <1>3, <1>4
  <1>6. roster = [size |-> Max({Len(kept), size}), names |-> kept]
    BY DEF NormaliseRoster, tidy, m
  <1> HIDE DEF kept, roster
  <1>7. \A i \in 1 .. m : i \in DOMAIN tidy
    BY <1>3, <1>4
  <1>8. Once(kept) /\ Kept(kept) \subseteq typed
    BY <1>1, <1>5, <1>7 DEF Once, Kept
  <1>9. Max({m, size}) = Max({size, m}) /\ Max({m, size}) \in Nat /\ Max({m, size}) <= MaxPlayers
    BY <1>3, <1>4, TwoExtremes
  <1>10. Max({m, size}) \in Max({size, m}) .. MaxPlayers
    BY <1>3, <1>9
  <1>11. roster.names = kept /\ roster.size = Max({m, size})
    BY <1>5, <1>6
  <1> QED BY <1>2, <1>5, <1>8, <1>10, <1>11 DEF m, typed, roster

\* A deck or a roster made of any list holds no label twice, in whatever case, and
\* leaves out none that fits (normaliseDeck and normaliseRoster).
THEOREM ListsAlwaysTidy == Spec => []ListsTidy
  <1>1. AllListsTidy
    <2> SUFFICES ASSUME NEW list \in BoundedSeq(Labels, Length) PROVE
          LET deck == NormaliseDeck(list)
              names(size) == NormaliseRoster(size, list).names
              typed == Typed(list, Len(list))
          IN /\ \A size \in 0 .. MaxPlayers :
                   /\ Once(names(size)) /\ Kept(names(size)) \subseteq typed
                   /\ Len(names(size)) = Min({Cardinality(typed), MaxPlayers})
                   /\ NormaliseRoster(size, list).size
                        \in Max({size, Len(names(size))}) .. MaxPlayers
             /\ deck = Refused \/ deck = Default \/ (Once(deck) /\ Kept(deck) = typed)
             /\ deck = Refused <=> typed # {} /\ Cardinality(typed) \notin MinDeck .. MaxDeck
      <3>1. ASSUME NEW list \in BoundedSeq(Labels, Length)
            PROVE  Typed(list, Len(list)) = {Folded[l] : l \in ToSet(list) \ {Blank}}
        <4>1. list \in Seq(Labels)
          BY BoundedIsList, CardsAssumption
        <4>2. DOMAIN list = 1 .. Len(list)
          BY <4>1
        <4> QED BY <4>2 DEF Typed, ToSet
      <3> QED BY <3>1 DEF AllListsTidy, Once, Kept
    <2>1. list \in Seq(Labels)
      BY BoundedIsList, CardsAssumption
    <2> QED BY <2>1, DeckTidy, RosterTidy
  <1>2. ListsTidy
    BY <1>1 DEF ListsTidy
  <1> QED BY <1>2, PTL

-----------------------------------------------------------------------------
\* Statistics

Numbers == {l \in Labels : Numeric(l)}

LEMMA NumbersCount == \A l \in Labels : l \in Numbers <=> Value[l] \in Int
  BY CardsAssumption DEF Numbers, Numeric

LEMMA DownClosed ==
  ASSUME NEW n \in Nat, NEW D \in SUBSET (1 .. n),
         \A i \in D : \A j \in 1 .. n : j < i => j \in D
  PROVE  Cardinality(D) \in 0 .. n /\ D = 1 .. Cardinality(D)
  <1>1. \E m \in 0 .. n : D = 1 .. m
    <2>1. CASE D = 1 .. n
      BY <2>1
    <2>2. CASE D # 1 .. n
      <3> DEFINE Out == (1 .. n) \ D
      <3>1. Out \in SUBSET Nat /\ Out # {}
        <4>1. \E k \in 1 .. n : k \notin D
          BY <2>2
        <4> QED BY <4>1
      <3>2. PICK m \in Out : \A k \in Out : m <= k
        <4> HIDE DEF Out
        <4> QED BY <3>1, LeastNumber
      <3>3. m \in 1 .. n /\ m - 1 \in 0 .. n /\ m \notin D
        OBVIOUS
      <3>4. ASSUME NEW k \in 1 .. n PROVE k \in D <=> k < m
        <4>1. CASE k < m
          BY <3>2, <3>3, <4>1
        <4>2. CASE k = m
          BY <3>3, <4>2
        <4>3. CASE m < k
          BY <3>3, <4>3
        <4> QED BY <3>3, <4>1, <4>2, <4>3
      <3>5. D = 1 .. m - 1
        <4>1. \A k : k \in 1 .. m - 1 <=> k \in 1 .. n /\ k < m
          BY <3>3
        <4> QED BY <3>4, <4>1
      <3> QED BY <3>3, <3>5
    <2> QED BY <2>1, <2>2
  <1>2. PICK m \in 0 .. n : D = 1 .. m
    BY <1>1
  <1>3. Cardinality(1 .. m) = m
    BY <1>2, FS_Interval
  <1> QED BY <1>2, <1>3

LEMMA InsertedTyped ==
  ASSUME NEW s \in Seq(Labels), NEW c \in Labels
  PROVE  Inserted(s, c) \in Seq(Labels)
  <1> DEFINE D == {i \in DOMAIN s : Value[s[i]] <= Value[c]}
             k == Cardinality(D)
  <1>1. Len(s) \in Nat /\ DOMAIN s = 1 .. Len(s)
    OBVIOUS
  <1>2. k \in Nat /\ k <= Len(s)
    <2>1. IsFiniteSet(1 .. Len(s)) /\ Cardinality(1 .. Len(s)) = Len(s)
      BY <1>1, FS_Interval
    <2>2. D \in SUBSET (1 .. Len(s))
      BY <1>1
    <2> HIDE DEF D
    <2> QED BY <2>1, <2>2, FS_Subset, FS_CardinalityType
  <1> HIDE DEF k
  <1>3. SubSeq(s, 1, k) \in Seq(Labels) /\ SubSeq(s, k + 1, Len(s)) \in Seq(Labels)
    BY <1>1, <1>2
  <1>4. SubSeq(s, 1, k) \o <<c>> \o SubSeq(s, k + 1, Len(s)) \in Seq(Labels)
    BY <1>3
  <1>5. Inserted(s, c) = IF Numeric(c)
                         THEN SubSeq(s, 1, k) \o <<c>> \o SubSeq(s, k + 1, Len(s)) ELSE s
    BY DEF Inserted, k
  <1> QED BY <1>4, <1>5

\* What Sorted has after each card.
LEMMA SortedSteps ==
  ASSUME NEW list \in Seq(Labels)
  PROVE  \E out \in [0 .. Len(list) -> Seq(Labels)] :
            /\ out[0] = <<>>
            /\ \A k \in 1 .. Len(list) : out[k] = Inserted(out[k - 1], list[k])
            /\ Sorted(list) = out[Len(list)]
  <1> DEFINE n == Len(list)
             S == Seq(Labels)
             b == <<>>
             G == [p \in S \X (1 .. n) |-> Inserted(p[1], list[p[2]])]
             iter == CHOOSE iter : iter = [s \in SUBSET DOMAIN list |->
                       IF s = {} THEN <<>>
                       ELSE Inserted(iter[s \ {Max(s)}], list[Max(s)])]
  <1>1. n \in Nat /\ DOMAIN list = 1 .. n /\ b \in S /\ \A k \in 1 .. n : list[k] \in Labels
    OBVIOUS
  <1>2. G \in Doing(S, n)
    BY <1>1, InsertedTyped DEF Doing
  <1>3. \A s \in SUBSET (1 .. n) : s # {} => Max(s) \in 1 .. n
    BY <1>1, MaxOfSome
  <1>4. ASSUME NEW x \in S, NEW k \in 1 .. n PROVE G[<<x, k>>] = Inserted(x, list[k])
    OBVIOUS
  <1>5. PICK g \in FoldsOf(S, n, b, G) : TRUE
    <2> HIDE DEF n, G, S, b
    <2> QED BY <1>1, <1>2, FoldIsDefined
  <1>6. g = [s \in SUBSET DOMAIN list |->
                IF s = {} THEN <<>> ELSE Inserted(g[s \ {Max(s)}], list[Max(s)])]
    <2>1. ASSUME NEW s \in SUBSET (1 .. n), s # {} PROVE g[s \ {Max(s)}] \in S
      BY <1>5 DEF FoldsOf
    <2> HIDE DEF G, S
    <2> QED BY <1>1, <1>3, <1>4, <1>5, <2>1 DEF FoldsOf
  <1>7. iter = [s \in SUBSET DOMAIN list |->
                  IF s = {} THEN <<>> ELSE Inserted(iter[s \ {Max(s)}], list[Max(s)])]
    BY <1>6
  <1>8. Sorted(list) = iter[DOMAIN list]
    BY DEF Sorted, FoldLeft, MapThenFoldSet
  <1> HIDE DEF iter, G
  <1>9. Follows(iter, S, n, b, G)
    BY <1>1, <1>3, <1>4, <1>7 DEF Follows
  <1>10. PICK out \in Steps(iter[1 .. n], S, n, b, G) : TRUE
    <2> HIDE DEF n, S, b
    <2> QED BY <1>1, <1>2, <1>9, FoldSteps
  <1>11. \A k \in 1 .. n : out[k - 1] \in S
    BY <1>1, <1>10 DEF Steps
  <1>12. \A k \in 1 .. n : out[k] = Inserted(out[k - 1], list[k])
    BY <1>4, <1>10, <1>11 DEF Steps
  <1> QED BY <1>1, <1>8, <1>10, <1>12 DEF Steps

\* What Total has after each card.
LEMMA TotalSteps ==
  ASSUME NEW list \in Seq(Numbers)
  PROVE  \E out \in [0 .. Len(list) -> Int] :
            /\ out[0] = 0
            /\ \A k \in 1 .. Len(list) : out[k] = out[k - 1] + Value[list[k]]
            /\ Total(list) = out[Len(list)]
  <1> DEFINE n == Len(list)
             S == Int
             b == 0
             G == [p \in S \X (1 .. n) |-> p[1] + Value[list[p[2]]]]
             iter == CHOOSE iter : iter = [s \in SUBSET DOMAIN list |->
                       IF s = {} THEN 0
                       ELSE iter[s \ {Max(s)}] + Value[list[Max(s)]]]
  <1>1. n \in Nat /\ DOMAIN list = 1 .. n /\ b \in S /\ \A k \in 1 .. n : list[k] \in Numbers
    OBVIOUS
  <1>2. G \in Doing(S, n)
    <2>1. \A x \in S, k \in 1 .. n : x + Value[list[k]] \in S
      <3>1. \A k \in 1 .. n : Value[list[k]] \in Int
        BY <1>1, NumbersCount DEF Numbers
      <3> QED BY <3>1
    <2> QED BY <2>1 DEF Doing
  <1>3. \A s \in SUBSET (1 .. n) : s # {} => Max(s) \in 1 .. n
    BY <1>1, MaxOfSome
  <1>4. ASSUME NEW x \in S, NEW k \in 1 .. n PROVE G[<<x, k>>] = x + Value[list[k]]
    OBVIOUS
  <1>5. PICK g \in FoldsOf(S, n, b, G) : TRUE
    <2> HIDE DEF n, G, S, b
    <2> QED BY <1>1, <1>2, FoldIsDefined
  <1>6. g = [s \in SUBSET DOMAIN list |->
                IF s = {} THEN 0 ELSE g[s \ {Max(s)}] + Value[list[Max(s)]]]
    <2>1. ASSUME NEW s \in SUBSET (1 .. n), s # {} PROVE g[s \ {Max(s)}] \in S
      BY <1>5 DEF FoldsOf
    <2> HIDE DEF G, S
    <2> QED BY <1>1, <1>3, <1>4, <1>5, <2>1 DEF FoldsOf
  <1>7. iter = [s \in SUBSET DOMAIN list |->
                  IF s = {} THEN 0 ELSE iter[s \ {Max(s)}] + Value[list[Max(s)]]]
    BY <1>6
  <1>8. Total(list) = iter[DOMAIN list]
    BY DEF Total, FoldLeft, MapThenFoldSet
  <1> HIDE DEF iter, G
  <1>9. Follows(iter, S, n, b, G)
    BY <1>1, <1>3, <1>4, <1>7 DEF Follows
  <1>10. PICK out \in Steps(iter[1 .. n], S, n, b, G) : TRUE
    <2> HIDE DEF n, S, b
    <2> QED BY <1>1, <1>2, <1>9, FoldSteps
  <1>11. \A k \in 1 .. n : out[k - 1] \in S
    BY <1>1, <1>10 DEF Steps
  <1>12. \A k \in 1 .. n : out[k] = out[k - 1] + Value[list[k]]
    BY <1>4, <1>10, <1>11 DEF Steps
  <1> QED BY <1>1, <1>8, <1>10, <1>12 DEF Steps

\* The nearer card of two.
Chosen(best, c, v, slip) == IF Nearer(best, c, v, slip) THEN c ELSE best

\* The nearest card so far, after each card of the deck.
LEMMA NearestSteps ==
  ASSUME NEW list \in Seq(Labels), NEW v, NEW slip
  PROVE  \E out \in [0 .. Len(list) -> Labels] :
            /\ out[0] = Blank
            /\ \A k \in 1 .. Len(list) : out[k] = Chosen(out[k - 1], list[k], v, slip)
            /\ NearestCard(list, v, slip) = out[Len(list)]
  <1> DEFINE n == Len(list)
             S == Labels
             b == Blank
             G == [p \in S \X (1 .. n) |-> Chosen(p[1], list[p[2]], v, slip)]
             iter == CHOOSE iter : iter = [s \in SUBSET DOMAIN list |->
                       IF s = {} THEN Blank
                       ELSE Chosen(iter[s \ {Max(s)}], list[Max(s)], v, slip)]
  <1>1. n \in Nat /\ DOMAIN list = 1 .. n /\ b \in S /\ \A k \in 1 .. n : list[k] \in Labels
    BY CardsAssumption
  <1>2. G \in Doing(S, n)
    BY <1>1 DEF Doing, Chosen
  <1>3. \A s \in SUBSET (1 .. n) : s # {} => Max(s) \in 1 .. n
    BY <1>1, MaxOfSome
  <1>4. ASSUME NEW x \in S, NEW k \in 1 .. n PROVE G[<<x, k>>] = Chosen(x, list[k], v, slip)
    OBVIOUS
  <1>5. PICK g \in FoldsOf(S, n, b, G) : TRUE
    <2> HIDE DEF n, G, S, b
    <2> QED BY <1>1, <1>2, FoldIsDefined
  <1>6. g = [s \in SUBSET DOMAIN list |->
                IF s = {} THEN Blank ELSE Chosen(g[s \ {Max(s)}], list[Max(s)], v, slip)]
    <2>1. ASSUME NEW s \in SUBSET (1 .. n), s # {} PROVE g[s \ {Max(s)}] \in S
      BY <1>5 DEF FoldsOf
    <2> HIDE DEF G, S
    <2> QED BY <1>1, <1>3, <1>4, <1>5, <2>1 DEF FoldsOf
  <1>7. iter = [s \in SUBSET DOMAIN list |->
                  IF s = {} THEN Blank ELSE Chosen(iter[s \ {Max(s)}], list[Max(s)], v, slip)]
    BY <1>6
  <1>8. NearestCard(list, v, slip) = iter[DOMAIN list]
    BY DEF NearestCard, Chosen, FoldLeft, MapThenFoldSet
  <1> HIDE DEF iter, G
  <1>9. Follows(iter, S, n, b, G)
    BY <1>1, <1>3, <1>4, <1>7 DEF Follows
  <1>10. PICK out \in Steps(iter[1 .. n], S, n, b, G) : TRUE
    <2> HIDE DEF n, S, b
    <2> QED BY <1>1, <1>2, <1>9, FoldSteps
  <1>11. \A k \in 1 .. n : out[k - 1] \in S
    BY <1>1, <1>10 DEF Steps
  <1>12. \A k \in 1 .. n : out[k] = Chosen(out[k - 1], list[k], v, slip)
    BY <1>4, <1>10, <1>11 DEF Steps
  <1> QED BY <1>1, <1>8, <1>10, <1>12 DEF Steps

-----------------------------------------------------------------------------
\* Sorting

Ordered(s) == \A i, j \in DOMAIN s : i <= j => Value[s[i]] <= Value[s[j]]
NumbersAmong(votes, k) == {i \in 1 .. k : Numeric(votes[i])}

\* The places p[i], one for one those of N, say where the card s[i] was before.
Shuffled(p, s, votes, N) ==
  /\ p \in [1 .. Len(s) -> N]
  /\ \A i, j \in 1 .. Len(s) : p[i] = p[j] => i = j
  /\ \A x \in N : \E i \in 1 .. Len(s) : p[i] = x
  /\ \A i \in 1 .. Len(s) : s[i] = votes[p[i]]

\* t is s with c after its first m cards.
Inserts(s, c, m, t) ==
  /\ t \in Seq(Numbers) /\ Len(t) = Len(s) + 1
  /\ \A i \in 1 .. m : t[i] = s[i]
  /\ t[m + 1] = c
  /\ \A i \in m + 1 .. Len(s) : t[i + 1] = s[i]

LEMMA InsertedRight ==
  ASSUME NEW s \in Seq(Numbers), NEW c \in Numbers, Ordered(s)
  PROVE  \E m \in 0 .. Len(s) :
            /\ Inserts(s, c, m, Inserted(s, c))
            /\ \A i \in 1 .. m : Value[s[i]] <= Value[c]
            /\ \A i \in m + 1 .. Len(s) : Value[c] < Value[s[i]]
  <1> DEFINE n == Len(s)
             D == {i \in DOMAIN s : Value[s[i]] <= Value[c]}
             m == Cardinality(D)
             t == SubSeq(s, 1, m) \o <<c>> \o SubSeq(s, m + 1, n)
  <1>1. n \in Nat /\ DOMAIN s = 1 .. n
    OBVIOUS
  <1>2. Value[c] \in Int /\ \A i \in 1 .. n : Value[s[i]] \in Int
    <2>1. \A i \in 1 .. n : s[i] \in Numbers
      OBVIOUS
    <2> QED BY <2>1, NumbersCount DEF Numbers
  <1>3. m \in 0 .. n /\ D = 1 .. m
    <2>1. D \in SUBSET (1 .. n)
      BY <1>1
    <2>2. ASSUME NEW i \in D, NEW j \in 1 .. n, j < i PROVE j \in D
      <3>1. Value[s[j]] <= Value[s[i]] /\ Value[s[i]] <= Value[c] /\ i \in 1 .. n
        BY <1>1, <2>2 DEF Ordered
      <3> QED BY <1>1, <1>2, <3>1
    <2> HIDE DEF D, n
    <2> QED BY <1>1, <2>1, <2>2, DownClosed
  <1>4. /\ \A i \in 1 .. m : Value[s[i]] <= Value[c]
        /\ \A i \in m + 1 .. n : Value[c] < Value[s[i]]
    <2>1. \A i \in 1 .. n : i \in 1 .. m <=> Value[s[i]] <= Value[c]
      BY <1>1, <1>3
    <2> HIDE DEF m, n
    <2>2. ASSUME NEW i \in 1 .. m PROVE Value[s[i]] <= Value[c]
      BY <1>1, <1>3, <2>1
    <2>3. ASSUME NEW i \in m + 1 .. n PROVE Value[c] < Value[s[i]]
      <3>1. i \in 1 .. n /\ i \notin 1 .. m
        BY <1>1, <1>3
      <3> QED BY <1>2, <2>1, <3>1
    <2> QED BY <2>2, <2>3
  <1>5. Inserted(s, c) = t
    BY DEF Inserted, Numbers
  <1> HIDE DEF m
  <1>6. /\ SubSeq(s, 1, m) \in Seq(Numbers) /\ Len(SubSeq(s, 1, m)) = m
        /\ \A i \in 1 .. m : SubSeq(s, 1, m)[i] = s[i]
    BY <1>1, <1>3
  <1>7. /\ SubSeq(s, m + 1, n) \in Seq(Numbers) /\ Len(SubSeq(s, m + 1, n)) = n - m
        /\ \A i \in 1 .. n - m : SubSeq(s, m + 1, n)[i] = s[m + i]
    <2>1. m + 1 \in Int /\ n \in Int /\ \A i \in m + 1 .. n : s[i] \in Numbers
      BY <1>1, <1>3
    <2>2. /\ SubSeq(s, m + 1, n) \in Seq(Numbers)
          /\ Len(SubSeq(s, m + 1, n)) = IF m + 1 <= n THEN n - (m + 1) + 1 ELSE 0
          /\ \A i \in 1 .. n - (m + 1) + 1 : SubSeq(s, m + 1, n)[i] = s[m + 1 + i - 1]
      <3> HIDE DEF n
      <3> QED BY <2>1, SubSeqProperties
    <2>3. n - (m + 1) + 1 = n - m /\ (m + 1 <= n \/ n - m = 0)
      BY <1>1, <1>3
    <2>4. \A i \in 1 .. n - m : m + 1 + i - 1 = m + i
      BY <1>3
    <2> HIDE DEF n
    <2> QED BY <1>1, <1>3, <2>2, <2>3, <2>4
  <1>8. Inserts(s, c, m, t)
    <2> DEFINE a == SubSeq(s, 1, m)
               b == SubSeq(s, m + 1, n)
    <2> HIDE DEF a, b
    <2>1. a \in Seq(Numbers) /\ b \in Seq(Numbers) /\ Len(a) = m /\ Len(b) = n - m
      BY <1>6, <1>7 DEF a, b
    <2>2. t = (a \o <<c>>) \o b
      BY DEF a, b
    <2> DEFINE ac == a \o <<c>>
    <2>3. <<c>> \in Seq(Numbers) /\ Len(<<c>>) = 1 /\ <<c>>[1] = c
      OBVIOUS
    <2>4. /\ ac \in Seq(Numbers) /\ Len(ac) = m + 1 /\ ac[m + 1] = c
          /\ \A i \in 1 .. m : ac[i] = a[i]
      BY <1>3, <2>1, <2>3, ConcatProperties
    <2> HIDE DEF ac, t, n
    <2>5. /\ t \in Seq(Numbers) /\ Len(t) = (m + 1) + (n - m)
          /\ \A i \in 1 .. (m + 1) + (n - m) : t[i] = IF i <= m + 1 THEN ac[i] ELSE b[i - (m + 1)]
      <3>1. t = ac \o b
        BY <2>2 DEF ac
      <3>2. /\ ac \o b \in Seq(Numbers) /\ Len(ac \o b) = Len(ac) + Len(b)
            /\ \A i \in 1 .. Len(ac) + Len(b) :
                  (ac \o b)[i] = IF i <= Len(ac) THEN ac[i] ELSE b[i - Len(ac)]
        BY <2>1, <2>4, ConcatProperties
      <3> QED BY <2>1, <2>4, <3>1, <3>2
    <2>6. /\ (m + 1) + (n - m) = n + 1 /\ m + 1 \in 1 .. n + 1
          /\ \A i \in 1 .. m : i \in 1 .. n + 1 /\ i <= m + 1
      BY <1>1, <1>3
    <2>7. /\ t \in Seq(Numbers) /\ Len(t) = n + 1 /\ t[m + 1] = c
          /\ \A i \in 1 .. m : t[i] = a[i]
      BY <2>4, <2>5, <2>6, <1>3
    <2>8. ASSUME NEW i \in m + 1 .. n PROVE t[i + 1] = b[i - m]
      <3>1. i + 1 \in 1 .. n + 1 /\ ~(i + 1 <= m + 1) /\ (i + 1) - (m + 1) = i - m
        BY <1>1, <1>3
      <3> QED BY <2>5, <2>6, <3>1
    <2>9. ASSUME NEW i \in m + 1 .. n PROVE b[i - m] = s[i]
      <3>1. i - m \in 1 .. n - m /\ m + (i - m) = i
        BY <1>1, <1>3
      <3> QED BY <1>7, <3>1 DEF b
    <2>10. \A i \in 1 .. m : a[i] = s[i]
      BY <1>6 DEF a
    <2> QED BY <2>7, <2>8, <2>9, <2>10 DEF Inserts, n
  <1> QED BY <1>3, <1>4, <1>5, <1>8

LEMMA OrderKept ==
  ASSUME NEW s \in Seq(Numbers), NEW c \in Numbers, NEW t, NEW m \in 0 .. Len(s),
         Ordered(s), Inserts(s, c, m, t),
         \A i \in 1 .. m : Value[s[i]] <= Value[c],
         \A i \in m + 1 .. Len(s) : Value[c] < Value[s[i]]
  PROVE  Ordered(t)
  <1> DEFINE n == Len(s)
  <1>1. /\ n \in Nat /\ DOMAIN s = 1 .. n /\ DOMAIN t = 1 .. n + 1
        /\ \A i \in 1 .. n : s[i] \in Numbers
    BY DEF Inserts
  <1>2. Value[c] \in Int /\ \A i \in 1 .. n : Value[s[i]] \in Int
    BY <1>1, NumbersCount DEF Numbers
  <1>3. ASSUME NEW i \in 1 .. n + 1
        PROVE  \/ i \in 1 .. m /\ i \in 1 .. n /\ t[i] = s[i]
               \/ i = m + 1 /\ t[i] = c
               \/ i - 1 \in m + 1 .. n /\ i - 1 \in 1 .. n /\ t[i] = s[i - 1]
    <2>1. CASE i <= m
      BY <1>1, <2>1 DEF Inserts
    <2>2. CASE i = m + 1
      BY <2>2 DEF Inserts
    <2>3. CASE i > m + 1
      <3>1. i - 1 \in m + 1 .. n /\ (i - 1) + 1 = i /\ i - 1 \in 1 .. n
        BY <1>1, <2>3
      <3> QED BY <3>1 DEF Inserts
    <2> QED BY <1>1, <2>1, <2>2, <2>3
  <1>4. SUFFICES ASSUME NEW i \in 1 .. n + 1, NEW j \in 1 .. n + 1, i <= j
                 PROVE  Value[t[i]] <= Value[t[j]]
    BY <1>1 DEF Ordered
  <1>5. \A k, l \in 1 .. n : k <= l => Value[s[k]] <= Value[s[l]]
    BY <1>1 DEF Ordered
  <1>6. CASE i \in 1 .. m
    <2>1. i \in 1 .. n /\ t[i] = s[i] /\ Value[s[i]] \in Int /\ Value[s[i]] <= Value[c]
      BY <1>1, <1>2, <1>6 DEF Inserts
    <2>2. CASE j \in 1 .. n /\ t[j] = s[j]
      BY <1>4, <1>5, <2>1, <2>2
    <2>3. CASE t[j] = c
      BY <2>1, <2>3
    <2>4. CASE j - 1 \in m + 1 .. n /\ j - 1 \in 1 .. n /\ t[j] = s[j - 1]
      <3>1. i <= j - 1
        BY <1>6, <2>4
      <3> QED BY <1>5, <2>1, <2>4, <3>1
    <2> QED BY <1>3, <2>2, <2>3, <2>4
  <1>7. CASE i = m + 1
    <2>1. t[i] = c
      BY <1>7 DEF Inserts
    <2>2. (j = m + 1 /\ t[j] = c) \/ (j - 1 \in m + 1 .. n /\ j - 1 \in 1 .. n /\ t[j] = s[j - 1])
      <3>1. ~(j \in 1 .. m)
        BY <1>4, <1>7
      <3> QED BY <1>3, <3>1
    <2> QED BY <1>1, <1>2, <2>1, <2>2
  <1>8. CASE i > m + 1
    <2>1. /\ i - 1 \in 1 .. n /\ t[i] = s[i - 1]
          /\ j - 1 \in 1 .. n /\ t[j] = s[j - 1] /\ i - 1 <= j - 1
      BY <1>1, <1>3, <1>4, <1>8
    <2> QED BY <1>5, <2>1
  <1> QED BY <1>1, <1>6, <1>7, <1>8

LEMMA ShuffleKept ==
  ASSUME NEW s \in Seq(Numbers), NEW c \in Numbers, NEW t, NEW m \in 0 .. Len(s),
         NEW votes, NEW N, NEW k, k \notin N, votes[k] = c,
         Inserts(s, c, m, t), NEW p, Shuffled(p, s, votes, N)
  PROVE  \E q : Shuffled(q, t, votes, N \cup {k})
  <1> DEFINE n == Len(s)
             q == [i \in 1 .. n + 1 |->
                     IF i <= m THEN p[i] ELSE IF i = m + 1 THEN k ELSE p[i - 1]]
  <1>1. n \in Nat /\ Len(t) = n + 1
    BY DEF Inserts
  <1>2. ASSUME NEW i \in 1 .. n + 1
        PROVE  \/ i \in 1 .. m /\ i \in 1 .. n /\ t[i] = s[i] /\ q[i] = p[i]
               \/ i = m + 1 /\ t[i] = c /\ q[i] = k
               \/ i > m + 1 /\ i - 1 \in 1 .. n /\ t[i] = s[i - 1] /\ q[i] = p[i - 1]
    <2>1. CASE i <= m
      BY <1>1, <2>1 DEF Inserts
    <2>2. CASE i = m + 1
      BY <1>1, <2>2 DEF Inserts
    <2>3. CASE i > m + 1
      <3>1. i - 1 \in m + 1 .. n /\ (i - 1) + 1 = i /\ i - 1 \in 1 .. n
        BY <1>1, <2>3
      <3>2. t[i] = s[i - 1]
        BY <3>1 DEF Inserts
      <3> QED BY <1>1, <2>3, <3>1, <3>2
    <2> QED BY <1>1, <2>1, <2>2, <2>3
  <1>3. \A i \in 1 .. n : p[i] \in N /\ s[i] = votes[p[i]]
    BY DEF Shuffled
  <1> DEFINE M == N \cup {k}
  <1>4. q \in [1 .. n + 1 -> M]
    <2>1. \A i \in 1 .. n + 1 : q[i] \in M
      <3> HIDE DEF q, n
      <3> QED BY <1>2, <1>3
    <2> QED BY <2>1
  <1> HIDE DEF q
  <1>5. \A i \in 1 .. n + 1 : t[i] = votes[q[i]]
    <2> HIDE DEF n
    <2> QED BY <1>2, <1>3
  <1>6. ASSUME NEW i \in 1 .. n + 1, NEW j \in 1 .. n + 1, q[i] = q[j] PROVE i = j
    <2>1. \A x, y \in 1 .. n : p[x] = p[y] => x = y
      BY DEF Shuffled
    <2>2. CASE i \in 1 .. m
      <3>1. i \in 1 .. n /\ q[i] = p[i]
        BY <1>1, <1>2, <2>2
      <3>2. q[j] # k
        BY <1>3, <1>6, <3>1
      <3>3. j \in 1 .. m \/ j > m + 1
        BY <1>2, <3>2
      <3>4. (j \in 1 .. m /\ j \in 1 .. n /\ q[j] = p[j])
            \/ (j > m + 1 /\ j - 1 \in 1 .. n /\ q[j] = p[j - 1])
        BY <1>2, <3>2
      <3> QED BY <1>1, <1>6, <2>1, <2>2, <3>1, <3>4
    <2> QED BY <1>1, <1>2, <1>3, <1>6, <2>1
  <1>7. ASSUME NEW x \in M PROVE \E i \in 1 .. n + 1 : q[i] = x
    <2>1. CASE x = k
      <3>1. m + 1 \in 1 .. n + 1 /\ q[m + 1] = k
        BY <1>1, <1>2
      <3> QED BY <2>1, <3>1
    <2>2. CASE x \in N
      <3>1. PICK i \in 1 .. n : p[i] = x
        BY <2>2 DEF Shuffled
      <3>2. CASE i <= m
        <4>1. i \in 1 .. n + 1 /\ q[i] = p[i]
          BY <1>1, <1>2, <3>2
        <4> QED BY <3>1, <4>1
      <3>3. CASE i > m
        <4>1. i + 1 \in 1 .. n + 1 /\ i + 1 > m + 1 /\ (i + 1) - 1 = i
          BY <1>1, <3>3
        <4>2. q[i + 1] = p[i]
          BY <1>1, <4>1 DEF q
        <4> QED BY <3>1, <4>1, <4>2
      <3> QED BY <1>1, <3>2, <3>3
    <2> QED BY <2>1, <2>2
  <1>8. Shuffled(q, t, votes, M)
    BY <1>1, <1>4, <1>5, <1>6, <1>7 DEF Shuffled
  <1> QED BY <1>8

\* Sorted has every card that is a number, in order.
LEMMA SortedRight ==
  ASSUME NEW votes \in Seq(Labels)
  PROVE  /\ Sorted(votes) \in Seq(Numbers) /\ Ordered(Sorted(votes))
         /\ \E p : Shuffled(p, Sorted(votes), votes, NumbersAmong(votes, Len(votes)))
  <1> DEFINE n == Len(votes)
  <1>1. n \in Nat /\ \A i \in 1 .. n : votes[i] \in Labels
    OBVIOUS
  <1>2. PICK out \in [0 .. n -> Seq(Labels)] :
           /\ out[0] = <<>>
           /\ \A k \in 1 .. n : out[k] = Inserted(out[k - 1], votes[k])
           /\ Sorted(votes) = out[n]
    BY SortedSteps
  <1> DEFINE Good(k) == /\ out[k] \in Seq(Numbers)
                        /\ Ordered(out[k])
                        /\ \E p : Shuffled(p, out[k], votes, NumbersAmong(votes, k))
             B == {k \in 0 .. n : Good(k)}
  <1>3. Good(0)
    <2>1. out[0] = <<>> /\ <<>> \in Seq(Numbers) /\ Len(<<>>) = 0 /\ DOMAIN <<>> = {}
          /\ 1 .. 0 = {}
      BY <1>2
    <2>2. NumbersAmong(votes, 0) = {}
      BY DEF NumbersAmong
    <2>3. Shuffled([i \in {} |-> 0], <<>>, votes, {})
      BY <2>1 DEF Shuffled
    <2> QED BY <2>1, <2>2, <2>3 DEF Ordered
  <1>4. ASSUME NEW k \in 1 .. n, Good(k - 1) PROVE Good(k)
    <2>1. /\ out[k] = Inserted(out[k - 1], votes[k]) /\ votes[k] \in Labels
          /\ 1 .. k = (1 .. k - 1) \cup {k} /\ k \notin 1 .. k - 1
      BY <1>1, <1>2
    <2>2. CASE ~Numeric(votes[k])
      <3>1. out[k] = out[k - 1]
        BY <2>1, <2>2 DEF Inserted
      <3>2. NumbersAmong(votes, k) = NumbersAmong(votes, k - 1)
        BY <2>1, <2>2 DEF NumbersAmong
      <3> QED BY <1>4, <3>1, <3>2
    <2>3. CASE Numeric(votes[k])
      <3>1. votes[k] \in Numbers
        BY <2>1, <2>3 DEF Numbers
      <3>2. /\ NumbersAmong(votes, k) = NumbersAmong(votes, k - 1) \cup {k}
            /\ k \notin NumbersAmong(votes, k - 1)
        BY <2>1, <2>3 DEF NumbersAmong
      <3>3. PICK p : Shuffled(p, out[k - 1], votes, NumbersAmong(votes, k - 1))
        BY <1>4
      <3>4. PICK m \in 0 .. Len(out[k - 1]) :
               /\ Inserts(out[k - 1], votes[k], m, out[k])
               /\ \A i \in 1 .. m : Value[out[k - 1][i]] <= Value[votes[k]]
               /\ \A i \in m + 1 .. Len(out[k - 1]) : Value[votes[k]] < Value[out[k - 1][i]]
        BY <1>4, <2>1, <3>1, InsertedRight
      <3>5. Ordered(out[k])
        BY <1>4, <3>1, <3>4, OrderKept
      <3>6. \E q : Shuffled(q, out[k], votes, NumbersAmong(votes, k))
        <4> DEFINE N == NumbersAmong(votes, k - 1)
                   s == out[k - 1]
        <4>1. /\ s \in Seq(Numbers) /\ k \notin N /\ m \in 0 .. Len(s)
              /\ Inserts(s, votes[k], m, out[k]) /\ Shuffled(p, s, votes, N)
          BY <1>4, <3>2, <3>3, <3>4
        <4> HIDE DEF N, s
        <4>2. \E q : Shuffled(q, out[k], votes, N \cup {k})
          BY <3>1, <4>1, ShuffleKept
        <4> QED BY <3>2, <4>2 DEF N
      <3>7. out[k] \in Seq(Numbers)
        BY <3>4 DEF Inserts
      <3> QED BY <3>5, <3>6, <3>7
    <2> QED BY <2>2, <2>3
  <1>5. B = 0 .. n
    <2>1. 0 \in B /\ B \in SUBSET (0 .. n)
      BY <1>1, <1>3
    <2>2. ASSUME NEW k \in 1 .. n, k - 1 \in B PROVE k \in B
      <3>1. Good(k - 1) /\ k \in 0 .. n
        BY <2>2
      <3> HIDE DEF Good
      <3> QED BY <1>4, <3>1
    <2> HIDE DEF B, n
    <2> QED BY <1>1, <2>1, <2>2, Climb
  <1>6. Good(n)
    <2>1. n \in B
      <3> HIDE DEF B
      <3> QED BY <1>1, <1>5
    <2> QED BY <2>1
  <1> QED BY <1>2, <1>6

-----------------------------------------------------------------------------
\* Averages

\* A number is within half a hundredth of what it is rounded to, slip or not.
LEMMA RoundedRight ==
  ASSUME NEW a \in Int, NEW b \in Nat \ {0}, NEW slip \in BOOLEAN
  PROVE  /\ Rounded(a, b, slip) \in Int
         /\ 2 * (b * Rounded(a, b, slip) - a) <= b * Hundredth
         /\ 2 * (a - b * Rounded(a, b, slip)) <= b * Hundredth
  <1> DEFINE d == b * Hundredth
             e == IF slip THEN 1 ELSE 0
             K(x) == (2 * x + d - e) \div (2 * d)
  <1>1. d \in Nat \ {0} /\ e \in 0 .. 1 /\ Hundredth \in Nat /\ b \in Nat
    BY CardsAssumption
  <1>2. Rounded(a, b, slip) = IF a < 0 THEN -(K(-a) * Hundredth) ELSE K(a) * Hundredth
    BY DEF Rounded
  <1>3. ASSUME NEW x \in Int
        PROVE  K(x) \in Int /\ 2 * (d * K(x) - x) <= d /\ 2 * (x - d * K(x)) <= d
    <2> DEFINE y == 2 * x + d - e
               f == 2 * d
               k == y \div f
    <2>1. y \in Int /\ f \in Nat \ {0}
      BY <1>1
    <2>2. k \in Int /\ f * k <= y /\ y < f * k + f
      <3> HIDE DEF y, f
      <3> QED BY <2>1
    <2> HIDE DEF k
    <2>3. d * k \in Int /\ f * k = 2 * (d * k)
      <3> HIDE DEF d
      <3> QED BY <1>1, <2>2
    <2>4. 2 * (d * k - x) <= d /\ 2 * (x - d * k) <= d
      <3> DEFINE m == d * k
      <3>1. m \in Int /\ 2 * m <= 2 * x + d - e /\ 2 * x + d - e < 2 * m + 2 * d
        BY <2>2, <2>3
      <3> HIDE DEF m, d, e
      <3> QED BY <1>1, <3>1 DEF m
    <2> QED BY <2>2, <2>4 DEF k
  <1> HIDE DEF K
  <1>4. ASSUME NEW k \in Int PROVE k * Hundredth \in Int /\ b * (k * Hundredth) = d * k
    BY <1>1
  <1>5. CASE a < 0
    <2> DEFINE k == K(-a)
    <2>0. -a \in Int
      OBVIOUS
    <2>1. k \in Int /\ 2 * (d * k - (-a)) <= d /\ 2 * (-a - d * k) <= d
      <3> HIDE DEF d
      <3> QED BY <1>3, <2>0
    <2>2. Rounded(a, b, slip) = -(k * Hundredth)
      BY <1>2, <1>5
    <2> HIDE DEF k
    <2>3. k * Hundredth \in Int /\ b * (k * Hundredth) = d * k
      BY <1>4, <2>1
    <2>4. b * (-(k * Hundredth)) = -(b * (k * Hundredth))
      BY <1>1, <2>1
    <2>5. d * k \in Int
      BY <1>1, <2>1
    <2> HIDE DEF d
    <2>6. /\ -(k * Hundredth) \in Int /\ b * (-(k * Hundredth)) = -(d * k)
          /\ 2 * (-(d * k) - a) <= d /\ 2 * (a - -(d * k)) <= d
      BY <1>1, <2>1, <2>3, <2>4, <2>5
    <2> QED BY <2>2, <2>6 DEF d
  <1>6. CASE ~(a < 0)
    <2> DEFINE k == K(a)
    <2>1. k \in Int /\ 2 * (d * k - a) <= d /\ 2 * (a - d * k) <= d
      BY <1>3
    <2>2. Rounded(a, b, slip) = k * Hundredth
      BY <1>2, <1>6
    <2> HIDE DEF k
    <2>3. k * Hundredth \in Int /\ b * (k * Hundredth) = d * k
      BY <1>4, <2>1
    <2> QED BY <2>1, <2>2, <2>3
  <1> QED BY <1>5, <1>6

\* The average of cards that are worth the same.
LEMMA SameRight ==
  ASSUME NEW n \in Nat \ {0}, NEW v \in Int, NEW slip \in BOOLEAN
  PROVE  2 * Distance(Rounded(n * v, n, slip), v) <= Hundredth
  <1> DEFINE R == Rounded(n * v, n, slip)
  <1>1. n * v \in Int /\ Hundredth \in Nat
    BY CardsAssumption
  <1>2. R \in Int /\ 2 * (n * R - n * v) <= n * Hundredth /\ 2 * (n * v - n * R) <= n * Hundredth
    BY <1>1, RoundedRight
  <1> HIDE DEF R
  <1>3. ASSUME NEW x \in Int, n * x <= 0 PROVE x <= 0
    <2>1. x > 0 => n * x > 0
      OBVIOUS
    <2>2. n * x \in Int
      OBVIOUS
    <2> QED BY <1>3, <2>1, <2>2
  <1>4. n * (2 * (R - v) - Hundredth) <= 0 /\ n * (2 * (v - R) - Hundredth) <= 0
    <2>1. /\ n * (2 * (R - v) - Hundredth) = 2 * (n * R - n * v) - n * Hundredth
          /\ n * (2 * (v - R) - Hundredth) = 2 * (n * v - n * R) - n * Hundredth
      BY <1>1, <1>2
    <2>2. n * R \in Int /\ n * Hundredth \in Int
      BY <1>1, <1>2
    <2> QED BY <1>1, <1>2, <2>1, <2>2
  <1>5. 2 * (R - v) - Hundredth <= 0 /\ 2 * (v - R) - Hundredth <= 0
    BY <1>1, <1>2, <1>3, <1>4
  <1> QED BY <1>1, <1>2, <1>5 DEF Distance, R

\* One number to a hundredth.
LEMMA OneRight ==
  ASSUME NEW a \in Int, NEW slip \in BOOLEAN
  PROVE  /\ Rounded(a, 1, slip) \in Int
         /\ 2 * Rounded(a, 1, slip) <= 2 * a + Hundredth
         /\ 2 * a - Hundredth <= 2 * Rounded(a, 1, slip)
  <1>1. Hundredth \in Nat /\ 1 \in Nat \ {0}
    BY CardsAssumption
  <1>2. /\ Rounded(a, 1, slip) \in Int
        /\ 2 * (1 * Rounded(a, 1, slip) - a) <= 1 * Hundredth
        /\ 2 * (a - 1 * Rounded(a, 1, slip)) <= 1 * Hundredth
    BY <1>1, RoundedRight
  <1> QED BY <1>1, <1>2

\* The middle of two.
LEMMA MidRight ==
  ASSUME NEW a \in Int, NEW b \in Int, a <= b, NEW slip \in BOOLEAN
  PROVE  /\ Rounded(a + b, 2, slip) \in Int
         /\ 2 * Rounded(a + b, 2, slip) <= 2 * b + Hundredth
         /\ 2 * a - Hundredth <= 2 * Rounded(a + b, 2, slip)
  <1>1. Hundredth \in Nat /\ 2 \in Nat \ {0} /\ a + b \in Int
    BY CardsAssumption
  <1>2. /\ Rounded(a + b, 2, slip) \in Int
        /\ 2 * (2 * Rounded(a + b, 2, slip) - (a + b)) <= 2 * Hundredth
        /\ 2 * ((a + b) - 2 * Rounded(a + b, 2, slip)) <= 2 * Hundredth
    BY <1>1, RoundedRight
  <1> QED BY <1>1, <1>2

LEMMA TotalRight ==
  ASSUME NEW s \in Seq(Numbers)
  PROVE  /\ Total(s) \in Int
         /\ \A v \in Int : (\A i \in 1 .. Len(s) : Value[s[i]] = v) => Total(s) = Len(s) * v
  <1> DEFINE n == Len(s)
  <1>1. n \in Nat
    OBVIOUS
  <1>2. PICK out \in [0 .. n -> Int] :
           /\ out[0] = 0
           /\ \A k \in 1 .. n : out[k] = out[k - 1] + Value[s[k]]
           /\ Total(s) = out[n]
    BY TotalSteps
  <1>3. ASSUME NEW v \in Int, \A i \in 1 .. n : Value[s[i]] = v
        PROVE  out[n] = n * v
    <2> DEFINE B == {k \in 0 .. n : out[k] = k * v}
    <2>1. 0 \in B /\ B \in SUBSET (0 .. n)
      BY <1>1, <1>2
    <2>2. ASSUME NEW k \in 1 .. n, k - 1 \in B PROVE k \in B
      <3>1. out[k - 1] = (k - 1) * v
        BY <2>2
      <3>2. out[k] = out[k - 1] + v
        <4> HIDE DEF n
        <4> QED BY <1>2, <1>3
      <3>3. (k - 1) * v + v = k * v /\ k \in 0 .. n
        OBVIOUS
      <3> QED BY <3>1, <3>2, <3>3
    <2>3. B = 0 .. n
      <3> HIDE DEF B, n
      <3> QED BY <1>1, <2>1, <2>2, Climb
    <2>4. n \in B
      <3> HIDE DEF B
      <3> QED BY <1>1, <2>3
    <2> QED BY <2>4
  <1>4. out[n] \in Int
    BY <1>1, <1>2
  <1> QED BY <1>2, <1>3, <1>4

-----------------------------------------------------------------------------
\* The deck

\* best is the nearest to v of the first k cards of the deck, the higher one of two
\* unless it is a slip, or Blank if none is a number.
Nearest(best, deck, v, k, slip) ==
  /\ NumbersAmong(deck, k) = {} => best = Blank
  /\ NumbersAmong(deck, k) # {} => \E i \in NumbersAmong(deck, k) : best = deck[i]
  /\ \A i \in NumbersAmong(deck, k) :
        /\ Distance(Value[best], v) <= Distance(Value[deck[i]], v)
        /\ ~slip /\ Distance(Value[best], v) = Distance(Value[deck[i]], v)
              => Value[best] >= Value[deck[i]]

LEMMA NearestRight ==
  ASSUME NEW deck \in Seq(Labels), NEW v \in Int, NEW slip \in BOOLEAN
  PROVE  Nearest(NearestCard(deck, v, slip), deck, v, Len(deck), slip)
  <1> DEFINE n == Len(deck)
  <1>1. n \in Nat /\ \A i \in 1 .. n : deck[i] \in Labels
    OBVIOUS
  <1>2. PICK out \in [0 .. n -> Labels] :
           /\ out[0] = Blank
           /\ \A k \in 1 .. n : out[k] = IF Nearer(out[k - 1], deck[k], v, slip)
                                         THEN deck[k] ELSE out[k - 1]
           /\ NearestCard(deck, v, slip) = out[n]
    BY NearestSteps DEF Chosen
  <1>3. \A k \in 0 .. n : \A i \in NumbersAmong(deck, k) :
           deck[i] \in Numbers /\ Value[deck[i]] \in Int /\ deck[i] # Blank
    <2> SUFFICES ASSUME NEW k \in 0 .. n, NEW i \in NumbersAmong(deck, k)
                 PROVE  deck[i] \in Numbers /\ Value[deck[i]] \in Int /\ deck[i] # Blank
      OBVIOUS
    <2>1. i \in 1 .. n /\ Numeric(deck[i])
      BY <1>1 DEF NumbersAmong
    <2>2. deck[i] \in Numbers
      BY <1>1, <2>1 DEF Numbers
    <2> QED BY <2>1, <2>2, NumbersCount, CardsAssumption DEF Numbers, Numeric
  <1> DEFINE B == {k \in 0 .. n : Nearest(out[k], deck, v, k, slip)}
  <1>4. 0 \in B
    <2>1. NumbersAmong(deck, 0) = {}
      BY DEF NumbersAmong
    <2> QED BY <1>1, <1>2, <2>1 DEF Nearest
  <1>5. ASSUME NEW k \in 1 .. n, k - 1 \in B PROVE k \in B
    <2> DEFINE N == NumbersAmong(deck, k - 1)
               c == deck[k]
               best == out[k - 1]
    <2>1. /\ k \in 0 .. n /\ k - 1 \in 0 .. n /\ 1 .. k = (1 .. k - 1) \cup {k}
          /\ c \in Labels /\ best \in Labels /\ Nearest(best, deck, v, k - 1, slip)
          /\ out[k] = IF Nearer(best, c, v, slip) THEN c ELSE best
      BY <1>1, <1>2, <1>5
    <2>2. CASE ~Numeric(c)
      <3>1. NumbersAmong(deck, k) = N
        BY <2>1, <2>2 DEF NumbersAmong
      <3>2. out[k] = best
        BY <2>1, <2>2 DEF Nearer
      <3> QED BY <2>1, <3>1, <3>2 DEF Nearest
    <2>3. CASE Numeric(c)
      <3>1. NumbersAmong(deck, k) = N \cup {k} /\ k \in NumbersAmong(deck, k)
        BY <2>1, <2>3 DEF NumbersAmong
      <3>2. c \in Numbers /\ Value[c] \in Int
        BY <1>3, <2>1, <3>1
      <3>3. CASE best = Blank
        <4>1. N = {}
          BY <1>3, <2>1, <3>3 DEF Nearest
        <4>2. out[k] = c
          BY <2>1, <2>3, <3>3 DEF Nearer
        <4>3. NumbersAmong(deck, k) = {k}
          BY <3>1, <4>1
        <4>4. Distance(Value[c], v) \in Nat
          BY <3>2 DEF Distance
        <4> QED BY <2>1, <3>2, <4>2, <4>3, <4>4, SMTT(30) DEF Nearest
      <3>4. CASE best # Blank
        <4>1. PICK b \in N : best = deck[b]
          BY <2>1, <3>4 DEF Nearest
        <4>2. Value[best] \in Int
          BY <1>3, <2>1, <4>1
        <4> DEFINE D(x) == Distance(Value[x], v)
        <4>3. /\ D(best) \in Nat /\ D(c) \in Nat
              /\ \A i \in N : D(deck[i]) \in Nat /\ Value[deck[i]] \in Int
          <5>1. \A i \in N : Value[deck[i]] \in Int
            BY <1>3, <2>1
          <5>2. \A x \in Int : Distance(x, v) \in Nat
            BY DEF Distance
          <5> HIDE DEF N, c, best
          <5> QED BY <3>2, <4>2, <5>1, <5>2
        <4>4. \A i \in N : D(best) <= D(deck[i])
                           /\ (~slip /\ D(best) = D(deck[i]) => Value[best] >= Value[deck[i]])
          BY <2>1 DEF Nearest
        <4>5. /\ Nearer(best, c, v, slip) => D(c) <= D(best)
              /\ D(c) < D(best) => Nearer(best, c, v, slip)
              /\ ~slip /\ D(c) = D(best) => (Nearer(best, c, v, slip) <=> Value[c] > Value[best])
          BY <2>3, <3>4, <4>3 DEF Nearer
        <4> HIDE DEF D
        <4>6. CASE Nearer(best, c, v, slip)
          <5>1. out[k] = c
            BY <2>1, <4>6
          <5>2. \A i \in N : D(c) <= D(deck[i])
                             /\ (~slip /\ D(c) = D(deck[i]) => Value[c] >= Value[deck[i]])
            BY <3>2, <4>2, <4>3, <4>4, <4>5, <4>6, SMTT(30)
          <5>3. D(c) <= D(c) /\ Value[c] >= Value[c]
            BY <3>2, <4>3
          <5> QED BY <2>1, <3>1, <5>1, <5>2, <5>3 DEF Nearest, D
        <4>7. CASE ~Nearer(best, c, v, slip)
          <5>1. out[k] = best
            BY <2>1, <4>7
          <5>2. D(best) <= D(c) /\ (~slip /\ D(best) = D(c) => Value[best] >= Value[c])
            BY <3>2, <4>2, <4>3, <4>5, <4>7
          <5>3. NumbersAmong(deck, k) # {} /\ b \in NumbersAmong(deck, k)
            BY <3>1
          <5> QED BY <2>1, <3>1, <4>1, <4>4, <5>1, <5>2, <5>3 DEF Nearest, D
        <4> QED BY <4>6, <4>7
      <3> QED BY <3>3, <3>4
    <2> QED BY <2>2, <2>3
  <1>6. B = 0 .. n
    <2> HIDE DEF B, n
    <2>1. B \in SUBSET (0 .. n)
      BY DEF B
    <2> QED BY <1>1, <1>4, <1>5, <2>1, Climb
  <1>7. n \in B
    <2> HIDE DEF B
    <2> QED BY <1>1, <1>6
  <1> QED BY <1>2, <1>7

LEMMA MinOfSome ==
  ASSUME NEW s \in SUBSET Nat, s # {}
  PROVE  Min(s) \in s
  <1>1. PICK x \in s : \A y \in s : x <= y
    BY LeastNumber
  <1> QED BY <1>1 DEF Min

\* Two cards of a deck are fewer steps apart than it has cards; a card is at one place.
LEMMA SpreadRight ==
  ASSUME NEW deck \in Decks, NEW a, NEW b
  PROVE  /\ DeckDistance(deck, a, b) < Len(deck)
         /\ a = b => DeckDistance(deck, a, b) = 0
  <1> DEFINE n == Len(deck)
             P == {i \in DOMAIN deck : deck[i] = a}
             Q == {i \in DOMAIN deck : deck[i] = b}
  <1>1. n \in Nat /\ n > 0 /\ DOMAIN deck = 1 .. n
    BY CardsAssumption
  <1>2. P \in SUBSET (1 .. n) /\ Q \in SUBSET (1 .. n) /\ P \in SUBSET Nat
    BY <1>1
  <1>3. DeckDistance(deck, a, b) = IF P = {} \/ Q = {} THEN 0 ELSE Distance(Min(P), Max(Q))
    BY DEF DeckDistance
  <1>4. CASE P = {} \/ Q = {}
    BY <1>1, <1>3, <1>4
  <1>5. CASE P # {} /\ Q # {}
    <2>1. Min(P) \in P /\ Max(Q) \in Q
      <3> HIDE DEF P, Q, n
      <3> QED BY <1>1, <1>2, <1>5, MinOfSome, MaxOfSome
    <2>2. Min(P) \in 1 .. n /\ Max(Q) \in 1 .. n
      BY <1>2, <2>1
    <2>3. Distance(Min(P), Max(Q)) < n
      <3> HIDE DEF P, Q, n
      <3> QED BY <1>1, <2>2 DEF Distance
    <2>4. ASSUME a = b PROVE Min(P) = Max(Q)
      <3>1. deck[Min(P)] = a /\ deck[Max(Q)] = a
        BY <2>1, <2>4
      <3> QED BY <1>1, <2>2, <3>1, CardsAssumption
    <2>5. ASSUME a = b PROVE Distance(Min(P), Max(Q)) = 0
      <3> HIDE DEF P, Q, n
      <3> QED BY <2>2, <2>4, <2>5 DEF Distance
    <2> QED BY <1>3, <1>5, <2>3, <2>5
  <1> QED BY <1>4, <1>5

-----------------------------------------------------------------------------
\* Rounds

LEMMA SameNumber ==
  ASSUME NEW s \in Seq(Numbers), NEW votes, NEW N, NEW p, Shuffled(p, s, votes, N)
  PROVE  IsFiniteSet(N) /\ Cardinality(N) = Len(s)
  <1> DEFINE n == Len(s)
  <1>1. n \in Nat
    OBVIOUS
  <1>2. p \in Bijection(1 .. n, N)
    BY DEF Shuffled, Bijection, Injection, Surjection, IsInjective
  <1>3. IsFiniteSet(1 .. n) /\ Cardinality(1 .. n) = n
    BY <1>1, FS_Interval, SMTT(30)
  <1>4. ExistsBijection(1 .. n, N)
    BY <1>2 DEF ExistsBijection
  <1> HIDE DEF n
  <1> QED BY <1>3, <1>4, FS_Bijection DEF n

\* As many cards of the round as there are places whose cards all are in L.
LEMMA AsMany ==
  ASSUME NEW s \in Seq(Numbers), NEW votes, NEW N, NEW p, Shuffled(p, s, votes, N),
         NEW L \in SUBSET N, NEW a \in Nat, NEW b \in Nat, a .. b \subseteq 1 .. Len(s),
         a <= b + 1, \A i \in a .. b : p[i] \in L
  PROVE  Cardinality(L) \in Nat /\ b - a + 1 <= Cardinality(L)
  <1> DEFINE f == [i \in a .. b |-> p[i]]
  <1>1. f \in Injection(a .. b, L)
    BY DEF Shuffled, Injection, IsInjective
  <1>2. IsFiniteSet(L) /\ Cardinality(L) \in Nat
    <2>1. IsFiniteSet(N)
      BY SameNumber
    <2> QED BY <2>1, FS_Subset, FS_CardinalityType
  <1>3. Cardinality(a .. b) = b - a + 1
    <2>1. Cardinality(a .. b) = IF a > b THEN 0 ELSE b - a + 1
      BY FS_Interval
    <2> QED BY <2>1
  <1> HIDE DEF f
  <1>4. Cardinality(a .. b) <= Cardinality(L)
    BY <1>1, <1>2, FS_Injection
  <1> QED BY <1>2, <1>3, <1>4

LEMMA ValuesTyped ==
  ASSUME NEW s \in Seq(Numbers)
  PROVE  Len(s) \in Nat /\ DOMAIN s = 1 .. Len(s)
         /\ \A i \in 1 .. Len(s) : s[i] \in Numbers /\ Value[s[i]] \in Int
  <1>1. \A i \in 1 .. Len(s) : s[i] \in Numbers
    OBVIOUS
  <1> QED BY <1>1, NumbersCount DEF Numbers

\* The lower half of the cards is below the median, the upper half above, up to half
\* a hundredth.
LEMMA MedianRight ==
  ASSUME NEW s \in Seq(Numbers), Ordered(s), s # <<>>, NEW slip \in BOOLEAN
  PROVE  LET n == Len(s)
             M == MedianOf(s, slip) IN
         /\ M \in Int
         /\ \A i \in 1 .. (n + 1) \div 2 : 2 * Value[s[i]] <= 2 * M + Hundredth
         /\ \A i \in n \div 2 + 1 .. n : 2 * M - Hundredth <= 2 * Value[s[i]]
         /\ \A v \in Int : (\A i \in 1 .. n : Value[s[i]] = v) => 2 * Distance(M, v) <= Hundredth
  <1> DEFINE n == Len(s)
             W(i) == Value[s[i]]
             M == MedianOf(s, slip)
  <1>1. n \in Nat /\ n > 0 /\ Hundredth \in Nat
    BY CardsAssumption
  <1>2. \A i \in 1 .. n : W(i) \in Int
    BY ValuesTyped
  <1>3. \A i, j \in 1 .. n : i <= j => W(i) <= W(j)
    BY DEF Ordered
  <1>4. M = IF n % 2 = 1 THEN Rounded(W(n \div 2 + 1), 1, slip)
            ELSE Rounded(W(n \div 2) + W(n \div 2 + 1), 2, slip)
    BY DEF MedianOf
  <1> HIDE DEF n, W, M
  <1>5. SUFFICES \E a, b \in 1 .. n :
                    /\ (n + 1) \div 2 = a /\ n \div 2 + 1 = b /\ a <= b /\ M \in Int
                    /\ 2 * M <= 2 * W(b) + Hundredth /\ 2 * W(a) - Hundredth <= 2 * M
    <2>1. PICK a \in 1 .. n, b \in 1 .. n :
             /\ (n + 1) \div 2 = a /\ n \div 2 + 1 = b /\ a <= b /\ M \in Int
             /\ 2 * M <= 2 * W(b) + Hundredth /\ 2 * W(a) - Hundredth <= 2 * M
      BY <1>5
    <2>2. \A i \in 1 .. a : 2 * W(i) <= 2 * M + Hundredth
      <3> SUFFICES ASSUME NEW i \in 1 .. a PROVE 2 * W(i) <= 2 * M + Hundredth
        OBVIOUS
      <3>1. i \in 1 .. n /\ W(i) <= W(a)
        BY <1>1, <1>3
      <3>2. W(i) \in Int /\ W(a) \in Int
        BY <1>2, <3>1
      <3> QED BY <1>1, <2>1, <3>1, <3>2
    <2>3. \A i \in b .. n : 2 * M - Hundredth <= 2 * W(i)
      <3> SUFFICES ASSUME NEW i \in b .. n PROVE 2 * M - Hundredth <= 2 * W(i)
        OBVIOUS
      <3>1. i \in 1 .. n /\ W(b) <= W(i)
        BY <1>1, <1>3
      <3>2. W(i) \in Int /\ W(b) \in Int
        BY <1>2, <3>1
      <3> QED BY <1>1, <2>1, <3>1, <3>2
    <2>4. ASSUME NEW v \in Int, \A i \in 1 .. n : W(i) = v PROVE 2 * Distance(M, v) <= Hundredth
      <3>1. W(a) = v /\ W(b) = v
        BY <2>4
      <3> QED BY <1>1, <2>1, <3>1 DEF Distance
    <2> QED BY <2>1, <2>2, <2>3, <2>4 DEF n, W, M
  <1>6. CASE n % 2 = 1
    <2> DEFINE m == n \div 2 + 1
    <2>1. m \in 1 .. n /\ (n + 1) \div 2 = m /\ m <= m
      BY <1>1, <1>6
    <2>2. M = Rounded(W(m), 1, slip)
      BY <1>4, <1>6
    <2> HIDE DEF m
    <2>3. W(m) \in Int
      BY <1>2, <2>1
    <2>4. M \in Int /\ 2 * M <= 2 * W(m) + Hundredth /\ 2 * W(m) - Hundredth <= 2 * M
      BY <2>2, <2>3, OneRight
    <2> QED BY <2>1, <2>4 DEF m
  <1>7. CASE n % 2 # 1
    <2> DEFINE m == n \div 2
    <2>1. m \in 1 .. n /\ m + 1 \in 1 .. n /\ (n + 1) \div 2 = m /\ m <= m + 1
      BY <1>1, <1>7
    <2>2. M = Rounded(W(m) + W(m + 1), 2, slip)
      BY <1>4, <1>7
    <2> HIDE DEF m
    <2>3. W(m) \in Int /\ W(m + 1) \in Int /\ W(m) <= W(m + 1)
      BY <1>2, <1>3, <2>1
    <2>4. M \in Int /\ 2 * M <= 2 * W(m + 1) + Hundredth /\ 2 * W(m) - Hundredth <= 2 * M
      BY <2>2, <2>3, MidRight
    <2> QED BY <2>1, <2>4 DEF m
  <1> QED BY <1>6, <1>7

\* There is one kind of card on the table when all agree.
LEMMA AgreeRight ==
  ASSUME NEW votes \in Seq(Labels)
  PROVE  Cardinality(ToSet(votes)) = 1
           <=> votes # <<>> /\ \A i, j \in DOMAIN votes : votes[i] = votes[j]
  <1> DEFINE n == Len(votes)
             S == ToSet(votes)
  <1>1. n \in Nat /\ DOMAIN votes = 1 .. n
    OBVIOUS
  <1>2. S = {votes[i] : i \in 1 .. n}
    BY <1>1 DEF ToSet
  <1>3. IsFiniteSet(S)
    <2>1. votes \in Surjection(1 .. n, S)
      BY <1>1, <1>2 DEF Surjection
    <2>2. IsFiniteSet(1 .. n)
      BY <1>1, FS_Interval
    <2> HIDE DEF S, n
    <2> QED BY <2>1, <2>2, FS_Surjection
  <1>4. Cardinality(S) = 1 <=> \E x : S = {x}
    BY <1>3, FS_Singleton
  <1>5. ASSUME NEW x, S = {x}
        PROVE  votes # <<>> /\ \A i, j \in DOMAIN votes : votes[i] = votes[j]
    <2>1. \A i \in 1 .. n : votes[i] = x
      BY <1>2, <1>5
    <2>2. 1 .. n # {}
      BY <1>2, <1>5
    <2> QED BY <1>1, <2>1, <2>2
  <1>6. ASSUME votes # <<>>, \A i, j \in DOMAIN votes : votes[i] = votes[j]
        PROVE  S = {votes[1]}
    <2>1. 1 \in 1 .. n
      BY <1>1, <1>6
    <2> QED BY <1>1, <1>2, <1>6, <2>1
  <1> QED BY <1>4, <1>5, <1>6

\* What is said of a round of which n cards are numbers, s in order.
LEMMA Summarized ==
  ASSUME NEW votes \in Seq(Labels), NEW deck \in Decks, NEW slip
  PROVE  LET s == Sorted(votes)
             n == Len(s)
             st == Summarize(votes, deck, slip)
         IN /\ st.consensus <=> Cardinality(ToSet(votes)) = 1
            /\ n = 0 => st.average = NoNumber
            /\ n > 0 => /\ st.min = s[1] /\ st.max = s[n]
                        /\ st.average = Rounded(Total(s), n, slip.mean)
                        /\ st.median = MedianOf(s, slip.median)
                        /\ st.suggested = NearestCard(deck, st.average, slip.nearest)
                        /\ st.spread = DeckDistance(deck, s[1], s[n])
  <1> DEFINE s == Sorted(votes)
             n == Len(s)
             average == Rounded(Total(s), n, slip.mean)
             consensus == Cardinality(ToSet(votes)) = 1
             none == [consensus |-> consensus, min |-> Blank, max |-> Blank,
                      average |-> NoNumber, median |-> NoNumber, suggested |-> Blank,
                      spread |-> 0]
             some == [consensus |-> consensus, min |-> s[1], max |-> s[n],
                      average |-> average, median |-> MedianOf(s, slip.median),
                      suggested |-> NearestCard(deck, average, slip.nearest),
                      spread |-> DeckDistance(deck, s[1], s[n])]
  <1>1. Summarize(votes, deck, slip) = IF n = 0 THEN none ELSE some
    BY DEF Summarize
  <1>2. /\ none.consensus = consensus /\ none.average = NoNumber
        /\ some.consensus = consensus /\ some.min = s[1] /\ some.max = s[n]
        /\ some.average = average /\ some.median = MedianOf(s, slip.median)
        /\ some.suggested = NearestCard(deck, average, slip.nearest)
        /\ some.spread = DeckDistance(deck, s[1], s[n])
    <2> HIDE DEF s, n, average, consensus
    <2> QED OBVIOUS
  <1>3. ~(n = 0 /\ n > 0)
    OBVIOUS
  <1> HIDE DEF none, some
  <1> QED BY <1>1, <1>2, <1>3

\* The statistics of any round are what they are said to be (domain/stats.go).
THEOREM SummariesAlwaysRight == Spec => []SummaryRight
  <1>1. ASSUME NEW deck \in Decks, NEW votes \in BoundedSeq(Labels \ {Blank}, Length),
               NEW slip \in Slips(deck)
        PROVE  LET st == Summarize(votes, deck, slip)
                   N == {i \in DOMAIN votes : Numeric(votes[i])}
                   V(i) == Value[votes[i]]
                   n == Cardinality(N)
                   Near(c) == Distance(Value[c], st.average)
               IN /\ st.consensus <=> votes # <<>> /\ \A i, j \in DOMAIN votes : votes[i] = votes[j]
                  /\ st.average = NoNumber <=> N = {}
                  /\ N # {} =>
                       /\ \A i \in N : Value[st.min] <= V(i) /\ V(i) <= Value[st.max]
                       /\ 2 * Cardinality({i \in N : 2 * V(i) <= 2 * st.median + Hundredth}) >= n
                       /\ 2 * Cardinality({i \in N : 2 * V(i) >= 2 * st.median - Hundredth}) >= n
                       /\ st.consensus => /\ 2 * Distance(st.average, Value[votes[1]]) <= Hundredth
                                          /\ 2 * Distance(st.median, Value[votes[1]]) <= Hundredth
                       /\ \A c \in {d \in ToSet(deck) : Numeric(d)} :
                             /\ st.suggested \in ToSet(deck) /\ Numeric(st.suggested)
                             /\ Near(st.suggested) <= Near(c)
                             /\ Quarters(deck) /\ Near(st.suggested) = Near(c)
                                   => Value[st.suggested] >= Value[c]
                       /\ st.spread < Len(deck)
                       /\ st.min = st.max => st.spread = 0
    <2> DEFINE st == Summarize(votes, deck, slip)
               N == {i \in DOMAIN votes : Numeric(votes[i])}
               V(i) == Value[votes[i]]
               s == Sorted(votes)
               n == Len(s)
    <2>0. /\ slip.mean \in BOOLEAN /\ slip.median \in BOOLEAN /\ slip.nearest \in BOOLEAN
          /\ Quarters(deck) => ~slip.nearest
      BY DEF Slips
    <2>1. /\ votes \in Seq(Labels) /\ deck \in Seq(Labels) /\ Len(votes) \in Nat
          /\ DOMAIN votes = 1 .. Len(votes)
      <3>1. votes \in Seq(Labels \ {Blank})
        BY BoundedIsList, CardsAssumption
      <3> QED BY <3>1, CardsAssumption
    <2>2. N = NumbersAmong(votes, Len(votes))
      BY <2>1 DEF NumbersAmong
    <2>3. s \in Seq(Numbers) /\ Ordered(s)
      BY <2>1, SortedRight
    <2>4. PICK p : Shuffled(p, s, votes, N)
      BY <2>1, <2>2, SortedRight
    <2>5. /\ n \in Nat /\ DOMAIN s = 1 .. n
          /\ \A i \in 1 .. n : s[i] \in Numbers /\ Value[s[i]] \in Int
      <3> HIDE DEF s
      <3> QED BY <2>3, ValuesTyped
    <2>6. IsFiniteSet(N) /\ Cardinality(N) = n /\ (N = {} <=> n = 0)
      <3> HIDE DEF s, N
      <3> QED BY <2>3, <2>4, SameNumber, FS_EmptySet
    <2>7. /\ st.consensus <=> Cardinality(ToSet(votes)) = 1
          /\ n = 0 => st.average = NoNumber
          /\ n > 0 => /\ st.min = s[1] /\ st.max = s[n]
                      /\ st.average = Rounded(Total(s), n, slip.mean)
                      /\ st.median = MedianOf(s, slip.median)
                      /\ st.suggested = NearestCard(deck, st.average, slip.nearest)
                      /\ st.spread = DeckDistance(deck, s[1], s[n])
      BY <2>1, Summarized
    <2>8. /\ \A i \in 1 .. n : p[i] \in N /\ Value[s[i]] = V(p[i])
          /\ \A x \in N : \E i \in 1 .. n : p[i] = x
      BY <2>4 DEF Shuffled
    <2> HIDE DEF st, s, n, N
    <2>9. st.consensus <=> votes # <<>> /\ \A i, j \in DOMAIN votes : votes[i] = votes[j]
      BY <2>1, <2>7, AgreeRight
    <2>10. n > 0 => st.average \in Int
      <3> SUFFICES ASSUME n > 0 PROVE st.average \in Int
        OBVIOUS
      <3>1. n \in Nat \ {0} /\ Total(s) \in Int
        BY <2>3, <2>5, TotalRight
      <3> QED BY <2>0, <2>7, <3>1, RoundedRight
    <2>11. st.average = NoNumber <=> N = {}
      BY <2>5, <2>6, <2>7, <2>10, CardsAssumption
    <2>12. ASSUME N # {}
           PROVE  /\ \A i \in N : Value[st.min] <= V(i) /\ V(i) <= Value[st.max]
                  /\ 2 * Cardinality({i \in N : 2 * V(i) <= 2 * st.median + Hundredth}) >= n
                  /\ 2 * Cardinality({i \in N : 2 * V(i) >= 2 * st.median - Hundredth}) >= n
                  /\ st.consensus => /\ 2 * Distance(st.average, Value[votes[1]]) <= Hundredth
                                     /\ 2 * Distance(st.median, Value[votes[1]]) <= Hundredth
                  /\ \A c \in {d \in ToSet(deck) : Numeric(d)} :
                        /\ st.suggested \in ToSet(deck) /\ Numeric(st.suggested)
                        /\ Distance(Value[st.suggested], st.average)
                             <= Distance(Value[c], st.average)
                        /\ Quarters(deck) /\ Distance(Value[st.suggested], st.average)
                             = Distance(Value[c], st.average)
                             => Value[st.suggested] >= Value[c]
                  /\ st.spread < Len(deck)
                  /\ st.min = st.max => st.spread = 0
      <3>1. n > 0 /\ s # <<>>
        BY <2>3, <2>5, <2>6, <2>12 DEF n
      <3>2. ASSUME NEW i \in N PROVE Value[st.min] <= V(i) /\ V(i) <= Value[st.max]
        <4>1. PICK j \in 1 .. n : p[j] = i
          BY <2>8
        <4>2. V(i) = Value[s[j]]
          BY <2>8, <4>1
        <4>3. 1 \in 1 .. n /\ n \in 1 .. n /\ 1 <= j /\ j <= n
          BY <2>5, <3>1
        <4> QED BY <2>3, <2>5, <2>7, <3>1, <4>2, <4>3 DEF Ordered
      <3>3. /\ st.median \in Int
            /\ \A i \in 1 .. (n + 1) \div 2 : 2 * Value[s[i]] <= 2 * st.median + Hundredth
            /\ \A i \in n \div 2 + 1 .. n : 2 * st.median - Hundredth <= 2 * Value[s[i]]
            /\ \A v \in Int : (\A i \in 1 .. n : Value[s[i]] = v)
                              => 2 * Distance(st.median, v) <= Hundredth
        BY <2>0, <2>3, <2>7, <3>1, MedianRight DEF n
      <3>4. 2 * Cardinality({i \in N : 2 * V(i) <= 2 * st.median + Hundredth}) >= n
        <4> DEFINE L == {i \in N : 2 * V(i) <= 2 * st.median + Hundredth}
                   b == (n + 1) \div 2
        <4>1. b \in Nat /\ 1 .. b \subseteq 1 .. n /\ 1 <= b + 1 /\ 2 * b >= n
          BY <2>5
        <4>2. \A i \in 1 .. b : p[i] \in L
          BY <2>8, <3>3, <4>1
        <4>3. L \in SUBSET N
          OBVIOUS
        <4> HIDE DEF L, b
        <4>4. Cardinality(L) \in Nat /\ b - 1 + 1 <= Cardinality(L)
          BY <2>3, <2>4, <4>1, <4>2, <4>3, AsMany DEF n
        <4>5. 2 * Cardinality(L) >= n
          BY <2>5, <4>1, <4>4
        <4> QED BY <4>5 DEF L
      <3>5. 2 * Cardinality({i \in N : 2 * V(i) >= 2 * st.median - Hundredth}) >= n
        <4> DEFINE L == {i \in N : 2 * V(i) >= 2 * st.median - Hundredth}
                   a == n \div 2 + 1
        <4>1. a \in Nat /\ a .. n \subseteq 1 .. n /\ a <= n + 1 /\ 2 * (n - a + 1) >= n
          BY <2>5
        <4>2. \A i \in a .. n : p[i] \in L
          <5>1. ASSUME NEW i \in a .. n PROVE p[i] \in N /\ 2 * V(p[i]) >= 2 * st.median - Hundredth
            <6>1. i \in 1 .. n /\ 2 * st.median - Hundredth <= 2 * Value[s[i]]
              BY <3>3, <4>1
            <6>2. p[i] \in N /\ Value[s[i]] = V(p[i]) /\ Value[s[i]] \in Int /\ Hundredth \in Nat
              BY <2>5, <2>8, <6>1, CardsAssumption
            <6> QED BY <3>3, <6>1, <6>2
          <5> QED BY <5>1
        <4>3. L \in SUBSET N
          OBVIOUS
        <4> HIDE DEF L, a
        <4>4. Cardinality(L) \in Nat /\ n - a + 1 <= Cardinality(L)
          BY <2>3, <2>4, <2>5, <4>1, <4>2, <4>3, AsMany DEF n
        <4>5. 2 * Cardinality(L) >= n
          BY <2>5, <4>1, <4>4
        <4> QED BY <4>5 DEF L
      <3>6. ASSUME st.consensus
            PROVE  /\ 2 * Distance(st.average, Value[votes[1]]) <= Hundredth
                   /\ 2 * Distance(st.median, Value[votes[1]]) <= Hundredth
        <4> DEFINE v == Value[votes[1]]
        <4>1. \A i \in DOMAIN votes : votes[i] = votes[1]
          <5>1. votes # <<>> /\ \A i, j \in DOMAIN votes : votes[i] = votes[j]
            BY <2>9, <3>6
          <5>2. 1 \in DOMAIN votes
            BY <2>1, <5>1
          <5> QED BY <5>1, <5>2
        <4>2. \A i \in 1 .. n : Value[s[i]] = v
          BY <2>8, <4>1 DEF N
        <4>3. v \in Int
          <5>1. 1 \in 1 .. n
            BY <2>5, <3>1
          <5> QED BY <2>5, <4>2, <5>1
        <4> HIDE DEF v
        <4>4. 2 * Distance(st.median, v) <= Hundredth
          BY <3>3, <4>2, <4>3
        <4>5. Total(s) = n * v
          BY <2>3, <4>2, <4>3, TotalRight DEF n
        <4>6. 2 * Distance(st.average, v) <= Hundredth
          <5>1. st.average = Rounded(n * v, n, slip.mean) /\ n \in Nat \ {0}
            BY <2>5, <2>7, <3>1, <4>5
          <5> QED BY <2>0, <4>3, <5>1, SameRight
        <4> QED BY <4>4, <4>6 DEF v
      <3>7. ASSUME NEW c \in {d \in ToSet(deck) : Numeric(d)}
            PROVE  /\ st.suggested \in ToSet(deck) /\ Numeric(st.suggested)
                   /\ Distance(Value[st.suggested], st.average)
                        <= Distance(Value[c], st.average)
                   /\ Quarters(deck) /\ Distance(Value[st.suggested], st.average)
                        = Distance(Value[c], st.average)
                        => Value[st.suggested] >= Value[c]
        <4> DEFINE best == st.suggested
                   m == Len(deck)
        <4>1. DOMAIN deck = 1 .. m
          BY <2>1
        <4>2. Nearest(best, deck, st.average, m, slip.nearest)
          BY <2>0, <2>1, <2>7, <2>10, <3>1, NearestRight
        <4>3. PICK i \in NumbersAmong(deck, m) : deck[i] = c
          BY <4>1 DEF NumbersAmong, ToSet
        <4>4. PICK j \in NumbersAmong(deck, m) : best = deck[j]
          BY <4>2, <4>3 DEF Nearest
        <4>5. best \in ToSet(deck) /\ Numeric(best)
          BY <4>1, <4>4 DEF NumbersAmong, ToSet
        <4> QED BY <2>0, <4>2, <4>3, <4>5 DEF Nearest
      <3>8. st.spread < Len(deck) /\ (st.min = st.max => st.spread = 0)
        BY <2>7, <3>1, SpreadRight
      <3> QED BY <3>2, <3>4, <3>5, <3>6, <3>7, <3>8
    <2> QED BY <2>6, <2>9, <2>11, <2>12 DEF st, N
  <1>2. AllSummariesRight
    BY <1>1 DEF AllSummariesRight
  <1>3. SummaryRight
    BY <1>2 DEF SummaryRight
  <1> QED BY <1>3, PTL

=============================================================================
