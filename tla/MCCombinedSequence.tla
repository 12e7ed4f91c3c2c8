------------------------- MODULE MCCombinedSequence -------------------------
EXTENDS CombinedSequence
=============================================================================
