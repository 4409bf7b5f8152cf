----------------------------- MODULE MCRendez ------------------------------
EXTENDS Rendez
=============================================================================
