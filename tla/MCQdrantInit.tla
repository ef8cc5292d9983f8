---------------------------- MODULE MCQdrantInit ----------------------------
EXTENDS QdrantInit

=============================================================================
