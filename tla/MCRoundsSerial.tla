--------------------------- MODULE MCRoundsSerial ---------------------------
\* One handler, requests served one at a time.
EXTENDS RoundsRefinement, TLC

CONSTANTS ann, bob, five, coffee, h1
=============================================================================
