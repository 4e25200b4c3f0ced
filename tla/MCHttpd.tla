------------------------------ MODULE MCHttpd -------------------------------
EXTENDS Httpd, TLC
Lines39 == [k \in 0..NumNbrs |-> 39 * k]
Longest == [k \in 1..NumRoutes |-> 102]
Peers == Permutations(Connections)
=============================================================================
