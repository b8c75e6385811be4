---------------------------- MODULE MCMemoryCache ----------------------------
EXTENDS MemoryCache
CONSTANTS r1, r2, w
=============================================================================
