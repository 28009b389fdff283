--------------------------- MODULE MCSessionStore ---------------------------
EXTENDS SessionStore, TLC

CONSTANTS t1, t2, t3

\* The timer threads are interchangeable.
Symmetry == Permutations({t1, t2, t3})

=============================================================================
