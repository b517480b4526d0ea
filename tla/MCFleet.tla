------------------------------ MODULE MCFleet ------------------------------
\* Two replicas, two open requests, prompts sharing a prefix.
EXTENDS Fleet

CONSTANTS a, b

MCPrompts  == {<<1, 2>>, <<1, 2, 3>>, <<1, 4>>}
MCCapacity == [r \in {a, b} |-> 3]
MCSymmetry == Permutations(Handles)
=============================================================================
