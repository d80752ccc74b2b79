------------------------------ MODULE MCBoard -------------------------------
\* An instance of Board for TLC: players and handlers are model values, and what is
\* on the cards are strings, so that a card can be told from its number.
EXTENDS Board

CONSTANTS ann, bob, cat, t1, h1, h2

\* "L" and "l" are one label in two cases, and two cards are worth the same.  The
\* numbers are thousandths: one is negative, one lies between two hundredths, and of
\* the decks two are made of quarters and one has cards of which float64 does not know
\* the middle.
MCLabels == {"", "-1", "0.1", "0.2", "0.125", "1", "1.0", "L", "l", "?"}
MCFolded == [l \in MCLabels |-> IF l = "L" THEN "l" ELSE l]
MCValue ==
    [l \in MCLabels |-> CASE l = "-1" -> -1000 [] l = "0.1" -> 100 [] l = "0.2" -> 200
                          [] l = "0.125" -> 125 [] l \in {"1", "1.0"} -> 1000
                          [] OTHER -> NoNumber]
MCDefault == <<"1", "0.1", "?">>
MCDecks == {<<"-1", "1", "?">>, <<"1.0", "l", "-1">>, <<"0.1", "0.2", "1">>}
Alike == Permutations({h1, h2})
=============================================================================
