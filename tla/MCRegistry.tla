---------------------------- MODULE MCRegistry ------------------------------
EXTENDS Registry, TLC

MCSymmetry == Permutations(Clients) \cup Permutations(Signatures)
=============================================================================
