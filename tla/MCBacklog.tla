----------------------------- MODULE MCBacklog ------------------------------
\* An instance of Backlog for TLC.
EXTENDS Backlog, TLC

CONSTANTS t1, t2, t3, k1, k2, h1, h2

\* The tracker lists two items, in either order, or one of them twice.
TrackerLists == {<<k1, k2>>, <<k2, k1>>, <<k1, k1>>, <<k2, k2>>}

Interchangeable == Permutations(Ids) \cup Permutations(Handlers) \cup Permutations(Keys)
=============================================================================
