----------------------------- MODULE MCSessions -----------------------------
\* Two logins and three refresh tokens behind the two paths that matter here.
EXTENDS Sessions, TLC

TwoPaths == {<<"mcp">>, <<"health">>}
SameCase == [s \in {"mcp", "health"} |-> s]

ScopeSets == SUBSET Scopes

Symmetry == Permutations(Users) \union Permutations(Families) \union Permutations(Tokens)
=============================================================================
