-------------------------- MODULE MCStreamMigrations --------------------------
EXTENDS StreamMigrations, TLC

MCSymmetry == Permutations(Runs) \cup Permutations(Events)
=============================================================================
