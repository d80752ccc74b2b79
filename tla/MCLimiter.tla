----------------------------- MODULE MCLimiter -----------------------------
\* An instance of Limiter for TLC: the handlers are interchangeable.
EXTENDS Limiter, TLC

Symmetry == Permutations(Handlers)

=============================================================================
