------------------------------ MODULE MCIngest ------------------------------
EXTENDS Ingest, TLC

Symmetry == Permutations(CeleryThreads)

=============================================================================
