---------------------------- MODULE MCInterrupts ----------------------------
EXTENDS InterruptRecord
CONSTANTS f1, f2, set, reset, other
MCFlagOf == [u \in Updates |-> f1]
=============================================================================
