------------------------------- MODULE MCAan --------------------------------
EXTENDS Aan
=============================================================================
