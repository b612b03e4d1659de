---------------------------- MODULE MCRestart ----------------------------
EXTENDS Restart
CONSTANTS c1, m1, h1, i1, a1, p1
=============================================================================
