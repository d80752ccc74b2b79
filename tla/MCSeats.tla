------------------------------ MODULE MCSeats -------------------------------
\* An instance of Seats for TLC: people, names and handlers are model values.
EXTENDS Seats

CONSTANTS host, ann, bob, cat, n1, n2, h1, h2
=============================================================================
