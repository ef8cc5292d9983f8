---------------------------- MODULE MCExtraction ----------------------------
EXTENDS Extraction, TLC

Symmetry == Permutations(Threads)

=============================================================================
