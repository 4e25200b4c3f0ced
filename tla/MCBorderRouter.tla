--------------------------- MODULE MCBorderRouter ----------------------------
EXTENDS BorderRouter
Lines39 == [k \in 0..NumNbrs |-> 39 * k]
Longest == [k \in 1..NumRoutes |-> 102]
=============================================================================
