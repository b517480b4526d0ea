-------------------------- MODULE MCConsistentHash --------------------------
\* Three replicas with two virtual nodes each, apart, interleaved, colliding
\* with one another and with themselves; keys before, between and past them.
EXTENDS ConsistentHash

CONSTANTS a, b, c

MCLexical == [r \in Replicas |-> CASE r = a -> 1 [] r = b -> 2 [] r = c -> 3]
At(p)     == [x \in Replicas \X {0, 1} |-> p[2 * (lexical[x[1]] - 1) + x[2] + 1]]
MCPositions ==
  {At(p) : p \in {<<0, 1, 2, 3, 4, 5>>, <<0, 3, 1, 4, 2, 5>>, <<1, 1, 1, 3, 3, 3>>,
                  <<4, 0, 4, 0, 2, 2>>, <<5, 2, 3, 3, 1, 5>>}}
MCSymmetry == Permutations(Keys)
=============================================================================
