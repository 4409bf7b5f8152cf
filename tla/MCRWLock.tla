------------------------------ MODULE MCRWLock ------------------------------
EXTENDS RWLock
=============================================================================
