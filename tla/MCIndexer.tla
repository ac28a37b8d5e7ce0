------------------------------ MODULE MCIndexer ------------------------------
EXTENDS Indexer
==============================================================================
