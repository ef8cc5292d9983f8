---------------------------- MODULE MCStatusLog -----------------------------
EXTENDS StatusLog, TLC

Symmetry == Permutations(Writers)

=============================================================================
