---------------------------- MODULE MCQLockSleep ----------------------------
EXTENDS QLockSleep
=============================================================================
