----------------------------- MODULE MCConsole -----------------------------
EXTENDS Console, TLC
CONSTANTS w1, w2, cp1, t1, t2, k1, a1
Rank == [w \in Places |-> IF w = w1 THEN 1 ELSE 2]
PalletLists == {<<t1, t2>>, <<t2, t2>>}
ServedLists == {<<"FETCH_MATERIAL_TO_CP">>}
SetUp == ({w1, w2, cp1} \X {t1, a1}) \cup ({cp1} \X Businesses) \cup {<<k1, t1>>}
Symmetry == Permutations(Slots) \cup Permutations(Calls)
            \cup Permutations(Users) \cup Permutations(Editors)
=============================================================================
