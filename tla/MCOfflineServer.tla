-------------------------- MODULE MCOfflineServer --------------------------
\* A host spelled as both lists have it, one that only the start-up guard takes
\* for loopback, and one that others can reach.
EXTENDS OfflineServer, TLC

ThreeHosts == {"127.0.0.1", "LOCALHOST", "0.0.0.0"}
Loopback == {"127.0.0.1", "::1", "[::1]", "localhost"}
LowerCase == [h \in ThreeHosts \union Loopback |-> IF h = "LOCALHOST" THEN "localhost" ELSE h]

Symmetry == Permutations(Callers)
=============================================================================
