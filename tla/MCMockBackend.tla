--------------------------- MODULE MCMockBackend ---------------------------
EXTENDS MockBackend, TLC

UserSymmetry == Permutations(Users)
DataSymmetry == Permutations(Users) \union Permutations(ResultValues)
=============================================================================
