------------------------------- MODULE MCFgrp -------------------------------
EXTENDS Fgrp

CONSTANT p1     \* the Proc of procinit0
=============================================================================
