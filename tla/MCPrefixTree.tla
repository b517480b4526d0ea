---------------------------- MODULE MCPrefixTree ----------------------------
\* A small tree for TLC: prompts that diverge inside an edge, at a node and at
\* the root, one that ends inside an edge, and the empty one.
EXTENDS PrefixTree

CONSTANTS a, b

MCPrompts == {<<>>, <<1, 2>>, <<1, 2, 3, 4>>, <<1, 2, 3, 5>>, <<6>>}

\* b is not bounded, and a so tightly that the longest prompts never fit.
MCCapacity == [r \in {a} |-> 3]
=============================================================================
