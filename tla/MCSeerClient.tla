---------------------------- MODULE MCSeerClient ----------------------------
EXTENDS SeerClient, TLC
CONSTANTS r1, r2
Symmetry == Permutations(Requests)
=============================================================================
