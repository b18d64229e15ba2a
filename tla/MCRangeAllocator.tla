--------------------------- MODULE MCRangeAllocator ---------------------------
EXTENDS RangeAllocator
=============================================================================
