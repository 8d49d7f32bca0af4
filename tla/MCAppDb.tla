------------------------------ MODULE MCAppDb -------------------------------
EXTENDS AppDb, TLC

MCSymmetry == Permutations(Procs)
=============================================================================
