------------------------------ MODULE MCSteps ------------------------------
EXTENDS TaskSteps, DispatchRefines
CONSTANTS c1, i1, a1, p1
=============================================================================
