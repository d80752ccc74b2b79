-------------------------- MODULE RoundsRefinement --------------------------
(***************************************************************************)
(* Rounds, with its requests served one at a time (Serial), plays          *)
(* PlanningPoker.                                                          *)
(*                                                                         *)
(* A request is a move of the game at its first write.  A vote that turns  *)
(* the cards writes twice or three times, so from its upsert on the topic  *)
(* counts as face up when the vote is the last one; a topic that is        *)
(* deleted while the room is on it leaves the room pointing at a row that  *)
(* is gone until the room is moved along, so from the DELETE on the room   *)
(* counts as being where it is about to go.                                *)
(***************************************************************************)
EXTENDS Rounds

\* There is a last topic (MaxTopicsPerRoom).
ASSUME BacklogAssumption == IsFiniteSet(Topics)

\* A vote that has been stored and whose request still has writes to come.
Counting(t) ==
  \E h \in Handlers : /\ req[h].op = "cast" /\ req[h].t = t /\ req[h].auto
                      /\ req[h].pc \in {"mark", "list", "tally", "flip"}

Leaving ==
  \E h \in Handlers : req[h].op = "delete" /\ req[h].pc \in {"pick", "point"}

Roles ==
  [p \in Players |-> IF seat[p] # "seated" THEN seat[p]
                     ELSE IF p \in watching THEN "observer" ELSE "player"]

Turned == {t \in live : FaceUp(t) \/ (Counting(t) /\ AllVoted(t))}

Agreed ==
  [t \in Topics |-> IF topic[t].status = "estimated" THEN topic[t].final
                    ELSE NoCard]

Destination ==
  IF Leaving THEN CHOOSE t \in live \cup {NoTopic} : IsFirstUnestimated(t)
  ELSE current

Game == INSTANCE PlanningPoker
          WITH current <- Destination, role <- Roles, backlog <- live,
               table <- votes, up <- Turned, result <- Agreed

\* Served one at a time, the statements of every request add up to one move of
\* the game, and to no other change: a vote, its status write and its
\* auto-reveal are one vote of PlanningPoker, and deleting the current topic
\* and picking the next one are one move too.
PlaysPlanningPoker == Game!Spec

=============================================================================
