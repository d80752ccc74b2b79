------------------------------ MODULE MCRounds ------------------------------
\* Instances of Rounds for TLC with requests served side by side.
EXTENDS Rounds, TLC

CONSTANTS ann, bob, five, coffee, h1, h2

\* Handlers are interchangeable; used in runs that check no liveness.
Interchangeable == Permutations(Handlers)
=============================================================================
