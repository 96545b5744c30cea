------------------------------- MODULE MCMenu -------------------------------
EXTENDS Menu, TLC

MCPatches == {[NoPatch EXCEPT !.name = n] : n \in CategoryNames}
        \cup {[NoPatch EXCEPT !.sku = s] : s \in Skus}
        \cup {[NoPatch EXCEPT !.low = b] : b \in BOOLEAN}

Symmetry == Permutations(Categories) \cup Permutations(CategoryNames)
       \cup Permutations(Skus) \cup Permutations(MenuCalls)
=============================================================================
