---------------------------- MODULE PlanningPoker ----------------------------
(***************************************************************************)
(* What an estimeet room promises its members about a voting round, with   *)
(* every request a single move of the game: the rules a player has in      *)
(* mind, without rows, statuses, snapshots or statements.  A topic is face *)
(* up or it is not; it has a result or it has none.                        *)
(*                                                                         *)
(* Rounds, with its requests served one at a time, implements this module  *)
(* (RoundsRefinement).                                                     *)
(***************************************************************************)
EXTENDS Naturals

CONSTANTS Players, Host, Topics, Escapes, NoCard, Decks, NoTopic

VARIABLES
  mode,        \* "sync": one topic at a time; "async": all of them at once
  autoReveal,  \* the last vote turns the cards
  deck,        \* the cards of the next vote
  current,     \* the topic a synchronous room is on
  role,        \* "new", "player", "observer" or "gone"
  online,      \* who is connected
  backlog,     \* the topics on the board
  table,       \* the cards on the table
  up,          \* the topics whose cards are face up
  result       \* the agreed estimate of each topic

settings == <<mode, autoReveal, deck>>
people   == <<role, online>>
board    == <<backlog, table, up, result>>
vars     == <<mode, autoReveal, deck, current, role, online, backlog, table,
              up, result>>

Members == {p \in Players : role[p] \in {"player", "observer"}}

\* Whose cards the reveal waits for: the players, in a synchronous room those
\* who are connected.
Awaited ==
  {p \in Players : role[p] = "player" /\ (mode = "sync" => p \in online)}

Complete(cards) == Awaited # {} /\ \A p \in Awaited : cards[p] # NoCard

NoCards == [p \in Players |-> NoCard]

Init ==
  /\ mode \in {"sync", "async"}
  /\ autoReveal \in BOOLEAN
  /\ deck \in Decks
  /\ current \in Topics \cup {NoTopic}
  /\ role \in [Players -> {"new", "player", "observer"}]
  /\ role[Host] # "new"
  /\ online \in SUBSET Members
  /\ backlog = Topics
  /\ table = [t \in Topics |-> NoCards]
  /\ up = {}
  /\ result = [t \in Topics |-> NoCard]

-----------------------------------------------------------------------------
\* A player lays a card on a face-down topic; the last one turns the cards.
Vote(p, t, c) ==
  /\ role[p] = "player" /\ t \in backlog \ up /\ c \in deck
  /\ mode = "sync" => current = t
  /\ table' = [table EXCEPT ![t][p] = c]
  /\ up' = IF autoReveal /\ Complete(table'[t]) THEN up \cup {t} ELSE up
  /\ UNCHANGED <<settings, current, people, backlog, result>>

TakeBack(p, t) ==
  /\ p \in Members /\ t \in backlog \ up
  /\ table' = [table EXCEPT ![t][p] = NoCard]
  /\ UNCHANGED <<settings, current, people, backlog, up, result>>

Reveal(t) ==
  /\ t \in backlog
  /\ up' = up \cup {t}
  /\ UNCHANGED <<settings, current, people, backlog, table, result>>

VoteAgain(t) ==
  /\ t \in backlog
  /\ table' = [table EXCEPT ![t] = NoCards]
  /\ up' = up \ {t}
  /\ result' = [result EXCEPT ![t] = NoCard]
  /\ UNCHANGED <<settings, current, people, backlog>>

\* An agreed estimate needs the cards face up, and is never an escape card.
Agree(t, c) ==
  /\ t \in backlog \cap up /\ c \in deck \ Escapes
  /\ result' = [result EXCEPT ![t] = c]
  /\ UNCHANGED <<settings, current, people, backlog, table, up>>

-----------------------------------------------------------------------------
\* Where a room goes when its topic is dropped: the first topic without a
\* result, else the last one left, else nowhere.
Successor(t, left) ==
  LET open == {u \in left : result[u] = NoCard} IN
  \/ t \in open /\ \A u \in open : t <= u
  \/ open = {} /\ t \in left /\ \A u \in left : u <= t
  \/ left = {} /\ t = NoTopic

Drop(t) ==
  /\ t \in backlog
  /\ backlog' = backlog \ {t}
  /\ table' = [table EXCEPT ![t] = NoCards]
  /\ up' = up \ {t}
  /\ result' = [result EXCEPT ![t] = NoCard]
  /\ \/ current = t /\ \E u \in Topics \cup {NoTopic} :
                          Successor(u, backlog') /\ current' = u
     \/ current # t /\ UNCHANGED current
  /\ UNCHANGED <<settings, people>>

\* The host leads the room; the others may once the cards are up.
MayLead(p) == p = Host \/ (p \in Members /\ current \in backlog \cap up)

\* To the topic before, the one after, or any other.
Lead(p, t) ==
  /\ mode = "sync" /\ MayLead(p) /\ t \in backlog
  /\ current' = t
  /\ UNCHANGED <<settings, people, board>>

-----------------------------------------------------------------------------
ChangeSettings ==
  /\ autoReveal' \in BOOLEAN /\ deck' \in Decks
  /\ UNCHANGED <<mode, current, people, board>>

Sit(p) ==
  /\ role[p] = "new"
  /\ \E r \in {"player", "observer"} : role' = [role EXCEPT ![p] = r]
  /\ UNCHANGED <<settings, current, online, board>>

SwitchRole(p) ==
  /\ p \in Members
  /\ \E r \in {"player", "observer"} : role' = [role EXCEPT ![p] = r]
  /\ UNCHANGED <<settings, current, online, board>>

\* Somebody who is removed takes their cards along.
Remove(p) ==
  /\ p \in Members \ {Host}
  /\ role' = [role EXCEPT ![p] = "gone"]
  /\ table' = [t \in Topics |-> [table[t] EXCEPT ![p] = NoCard]]
  /\ UNCHANGED <<settings, current, online, backlog, up, result>>

ComeAndGo ==
  /\ online' \in SUBSET Players
  /\ UNCHANGED <<settings, current, role, board>>

Next ==
  \/ \E p \in Players, t \in Topics, c \in UNION Decks : Vote(p, t, c)
  \/ \E p \in Players, t \in Topics : TakeBack(p, t) \/ Lead(p, t)
  \/ \E t \in Topics : Reveal(t) \/ VoteAgain(t) \/ Drop(t)
  \/ \E t \in Topics, c \in UNION Decks : Agree(t, c)
  \/ \E p \in Players : Sit(p) \/ SwitchRole(p) \/ Remove(p)
  \/ ChangeSettings
  \/ ComeAndGo

Spec == Init /\ [][Next]_vars

=============================================================================
