------------------------------- MODULE Cards --------------------------------
(***************************************************************************)
(* What the room computes from cards and lists that people typed: the deck  *)
(* and the roster a host sets, and the statistics of a round.               *)
(*                                                                          *)
(* Numbers are exact here and float64 in the code.  What the code makes of   *)
(* them differs where two of them are equal that float64 need not find      *)
(* equal: halfway between two hundredths, and halfway between two cards.    *)
(* There it may go either way, unless both are exact in float64.  Numbers   *)
(* that are infinite, or that float64 cannot tell apart, are left out, and  *)
(* so is the number of cards of each kind.                                  *)
(***************************************************************************)
EXTENDS Integers, SequencesExt

CONSTANTS
    Labels,      \* what can be typed, cleaned
    Blank,       \* nothing but white space
    Folded,      \* a label in lower case
    Value,       \* the number on a card, in some unit, or NoNumber
    Hundredth,   \* 0.01 in that unit
    NoNumber,    \* a card that is not a number, or no number at all
    Default,     \* DefaultDeck
    MinDeck, MaxDeck,  \* MinDeckSize, MaxDeckSize
    MaxPlayers,  \* MaxPlayersPerRoom
    Decks,       \* bound: decks that are tried
    Length       \* bound: how long lists and rounds are that are tried

ASSUME CardsAssumption ==
    /\ Blank \in Labels
    /\ Folded \in [Labels -> Labels]
    /\ Value \in [Labels -> Int \cup {NoNumber}]
    /\ Value[Blank] = NoNumber /\ NoNumber \notin Int
    /\ Hundredth \in Nat \ {0}
    /\ Default \in Seq(Labels \ {Blank})
    /\ {MinDeck, MaxDeck, MaxPlayers, Length} \subseteq Nat
    \* As normaliseDeck leaves a deck.
    /\ Decks \subseteq Seq(Labels) \ {<<>>}
    /\ \A deck \in Decks : \A i, j \in DOMAIN deck : deck[i] = deck[j] => i = j

Refused == <<Blank>>  \* no deck, no roster: ErrInvalid

-----------------------------------------------------------------------------
\* Decks and rosters

\* Faulty variant of Listed: compares labels as they are typed.
ListedToTheLetter(out, l) ==
    IF l = Blank \/ \E i \in DOMAIN out : out[i] = l THEN out ELSE Append(out, l)

\* out with l, unless that is blank or on it already, up to case.
Listed(out, l) ==
    IF l = Blank \/ \E i \in DOMAIN out : Folded[out[i]] = Folded[l]
    THEN out ELSE Append(out, l)

Tidy(list) == FoldLeft(Listed, <<>>, list)

NormaliseDeck(list) ==
    LET out == Tidy(list)
    IN IF out = <<>> THEN Default
       ELSE IF Len(out) < MinDeck \/ Len(out) > MaxDeck THEN Refused ELSE out

\* The names that are kept, and the headcount: never fewer than the names.
NormaliseRoster(size, names) ==
    LET tidy == Tidy(names)
        kept == SubSeq(tidy, 1, Min({Len(tidy), MaxPlayers}))
    IN IF size \notin 0 .. MaxPlayers THEN [size |-> 0, names |-> Refused]
       ELSE [size |-> Max({Len(kept), size}), names |-> kept]

-----------------------------------------------------------------------------
\* Statistics

Numeric(c) == Value[c] # NoNumber

\* a / b to a hundredth, halves away from 0, or towards it on a slip.
Rounded(a, b, slip) ==
    LET d == b * Hundredth
        Steps(x) == (2 * x + d - (IF slip THEN 1 ELSE 0)) \div (2 * d)
    IN IF a < 0 THEN -(Steps(-a) * Hundredth) ELSE Steps(a) * Hundredth

\* c in its place among the cards of s, after those of the same value.
Inserted(s, c) ==
    LET k == Cardinality({i \in DOMAIN s : Value[s[i]] <= Value[c]})
    IN IF Numeric(c) THEN SubSeq(s, 1, k) \o <<c>> \o SubSeq(s, k + 1, Len(s)) ELSE s

\* The cards that are numbers, by value; cards of one value keep their order.
Sorted(cards) == FoldLeft(Inserted, <<>>, cards)

Total(cards) == FoldLeft(LAMBDA sum, c : sum + Value[c], 0, cards)

MedianOf(s, slip) ==
    LET n == Len(s)
    IN IF n % 2 = 1 THEN Rounded(Value[s[n \div 2 + 1]], 1, slip)
       ELSE Rounded(Value[s[n \div 2]] + Value[s[n \div 2 + 1]], 2, slip)

Distance(a, b) == IF a < b THEN b - a ELSE a - b

\* Faulty variant of Nearer: takes the first of two.
NearerFirst(best, c, v, slip) ==
    /\ Numeric(c)
    /\ best = Blank \/ Distance(Value[c], v) < Distance(Value[best], v)

\* c is nearer to v than best, or as near and higher; on a slip, as near and lower.
Nearer(best, c, v, slip) ==
    /\ Numeric(c)
    /\ \/ best = Blank
       \/ Distance(Value[c], v) < Distance(Value[best], v)
       \/ /\ Distance(Value[c], v) = Distance(Value[best], v)
          /\ IF slip THEN Value[c] < Value[best] ELSE Value[c] > Value[best]

\* The card of the deck that is nearest to v; Blank when none is a number.
NearestCard(deck, v, slip) ==
    FoldLeft(LAMBDA best, c : IF Nearer(best, c, v, slip) THEN c ELSE best, Blank, deck)

\* Cards that are whole quarters: halfway between two of them float64 is exact.
Quarters(deck) == \A i \in DOMAIN deck : Numeric(deck[i]) => Value[deck[i]] % (25 * Hundredth) = 0

\* Where float64 may go the other way.
Slips(deck) ==
    {slip \in [mean : BOOLEAN, median : BOOLEAN, nearest : BOOLEAN] :
        slip.nearest => ~Quarters(deck)}

\* Steps in the deck between two cards; 0 when one has been taken out of it.
DeckDistance(deck, a, b) ==
    LET Places(c) == {i \in DOMAIN deck : deck[i] = c}
    IN IF Places(a) = {} \/ Places(b) = {} THEN 0
       ELSE Distance(Min(Places(a)), Max(Places(b)))

\* votes is the cards of a round in the order they were played.
Summarize(votes, deck, slip) ==
    LET sorted == Sorted(votes)
        n == Len(sorted)
        average == Rounded(Total(sorted), n, slip.mean)
        consensus == Cardinality(ToSet(votes)) = 1
    IN IF n = 0
       THEN [consensus |-> consensus, min |-> Blank, max |-> Blank, average |-> NoNumber,
             median |-> NoNumber, suggested |-> Blank, spread |-> 0]
       ELSE [consensus |-> consensus, min |-> sorted[1], max |-> sorted[n],
             average |-> average, median |-> MedianOf(sorted, slip.median),
             suggested |-> NearestCard(deck, average, slip.nearest),
             spread |-> DeckDistance(deck, sorted[1], sorted[n])]

-----------------------------------------------------------------------------
\* Properties

\* A deck or a roster holds no label twice, in whatever case, and leaves out none
\* that was typed and fits; a deck is never too small or too large, and a headcount
\* is neither less than the names nor more than a room holds (normaliseDeck and
\* normaliseRoster).
AllListsTidy ==
    \A list \in BoundedSeq(Labels, Length) :
        LET deck == NormaliseDeck(list)
            Roster(size) == NormaliseRoster(size, list)
            typed == {Folded[l] : l \in ToSet(list) \ {Blank}}
            Once(out) == \A i, j \in DOMAIN out : Folded[out[i]] = Folded[out[j]] => i = j
            Kept(out) == {Folded[out[i]] : i \in DOMAIN out}
        IN /\ \A size \in 0 .. MaxPlayers :
                LET names == Roster(size).names
                IN /\ Once(names) /\ Kept(names) \subseteq typed
                   /\ Len(names) = Min({Cardinality(typed), MaxPlayers})
                   /\ Roster(size).size \in Max({size, Len(names)}) .. MaxPlayers
           /\ deck = Refused \/ deck = Default \/ (Once(deck) /\ Kept(deck) = typed)
           /\ deck = Refused <=> typed # {} /\ Cardinality(typed) \notin MinDeck .. MaxDeck

\* The statistics of any round, from their definitions, whichever way float64 goes:
\* the extremes bound every card; half of the cards lie on each side of the median,
\* up to half a hundredth; no card of the deck is nearer to the average than the one
\* suggested, and, among quarters, none as near is higher; a round in which all agree
\* says so, has that card for its average and median, up to half a hundredth, and no
\* spread (domain/stats.go).
AllSummariesRight ==
    \A deck \in Decks, votes \in BoundedSeq(Labels \ {Blank}, Length) :
        \A slip \in Slips(deck) :
            LET st == Summarize(votes, deck, slip)
                N == {i \in DOMAIN votes : Numeric(votes[i])}
                V(i) == Value[votes[i]]
                n == Cardinality(N)
                Near(c) == Distance(Value[c], st.average)
            IN /\ st.consensus <=>
                    votes # <<>> /\ \A i, j \in DOMAIN votes : votes[i] = votes[j]
               /\ st.average = NoNumber <=> N = {}
               /\ N # {} =>
                    /\ \A i \in N : Value[st.min] <= V(i) /\ V(i) <= Value[st.max]
                    /\ 2 * Cardinality({i \in N : 2 * V(i) <= 2 * st.median + Hundredth}) >= n
                    /\ 2 * Cardinality({i \in N : 2 * V(i) >= 2 * st.median - Hundredth}) >= n
                    /\ st.consensus =>
                          /\ 2 * Distance(st.average, Value[votes[1]]) <= Hundredth
                          /\ 2 * Distance(st.median, Value[votes[1]]) <= Hundredth
                    /\ \A c \in {d \in ToSet(deck) : Numeric(d)} :
                          /\ st.suggested \in ToSet(deck) /\ Numeric(st.suggested)
                          /\ Near(st.suggested) <= Near(c)
                          /\ Quarters(deck) /\ Near(st.suggested) = Near(c)
                                => Value[st.suggested] >= Value[c]
                    /\ st.spread < Len(deck)
                    /\ st.min = st.max => st.spread = 0
=============================================================================
