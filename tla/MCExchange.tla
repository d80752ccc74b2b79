----------------------------- MODULE MCExchange -----------------------------
\* An instance of Exchange for TLC: handlers, votes, cards and labels are model values.
EXTENDS Exchange, TLC

CONSTANTS h1, h2, v1, five, xl, unknown, none, bug

Alike == Permutations({h1, h2})
=============================================================================
