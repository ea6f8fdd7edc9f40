-------------------------- MODULE MCRefreshTokens --------------------------
\* Two logins of two users and up to five tokens.
EXTENDS RefreshTokens, TLC

Symmetry == Permutations(Tokens) \union Permutations(Families) \union Permutations(Users)
=============================================================================
