------------------------------ MODULE MCFleet ------------------------------
EXTENDS Fleet
CONSTANTS c1, i1, a1, p1, o1
=============================================================================
