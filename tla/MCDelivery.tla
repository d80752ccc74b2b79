----------------------------- MODULE MCDelivery -----------------------------
\* An instance of Delivery for TLC.
EXTENDS Delivery

CONSTANTS ann, bob, h1, c1, c2

\* Ann, the host, has one connection, Bob has all the others.
OwnerValue == [c \in Conns |-> IF c = c1 THEN ann ELSE bob]
=============================================================================
