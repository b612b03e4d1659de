----------------------------- MODULE MCDispatch -----------------------------
EXTENDS DispatchInv, TLC
CONSTANTS c1, c2, m1, h1, h2, i1, i2, a1, a2, p1, p2
Symmetry == Permutations(Calls) \cup Permutations(Handlers)
            \cup Permutations(Invs) \cup Permutations(Agvs) \cup Permutations(Cps)
=============================================================================
