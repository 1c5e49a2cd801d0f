------------------------------ MODULE MCSqlfs ------------------------------
EXTENDS Sqlfs, TLC

CONSTANTS a, b

MCNames == {a, b}
NameSymmetry == Permutations(MCNames)
=============================================================================
