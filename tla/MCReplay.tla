----------------------------- MODULE MCReplay -----------------------------
\* One or two replicas that hold some of the prompts at a time.
EXTENDS Replay, TLC

CONSTANTS a, b

\* Five tokens in all: capacities of three and of four force evictions.
MCPrompts  == {<<1, 2>>, <<1, 2, 3, 4>>, <<5>>}
MCDistinct == {<<1, 2>>, <<3, 4>>, <<5, 6>>, <<7, 8>>}
Every(n)   == [r \in replica_ids |-> n]
Blind      == [r \in {} |-> 0]
MCCapacity == Every(4)
MCBeliefs  == {Every(3), Every(4), Blind}
MCExact    == {Every(4)}

\* Replicas differ in nothing but their names.
MCSymmetry == Permutations({a, b})

\* Bound: a trace with another router's request in it, of which little is
\* promised, is followed for two requests.
MCShort == others = 0 \/ served <= 2
=============================================================================
