----------------------------- MODULE PrefixTree -----------------------------
(***************************************************************************)
(* One PrefixTree object of radix.py: the calls made on it, in any order,  *)
(* at times that never go back.                                            *)
(*                                                                         *)
(* insert() ends in the while loop of _enforce_capacity.  The loop is      *)
(* taken one _evict_one at a time: while `enforcing' names a replica no    *)
(* other call starts, as the code runs insert() to its end.                *)
(***************************************************************************)
EXTENDS RadixTree

CONSTANTS
  Replicas,            \* replica ids
  Token,
  Prompts,             \* the token sequences that calls are made with
  KERNEL_TILE_TOKENS,
  prefix_match_unit,
  capacity_tokens,     \* a partial function from replicas to their KV capacity
  None,                \* not a replica
  MaxNow               \* bound on the clock

\* What the constructor lets through (the ceiling of a backend is left out).
validate_match_unit(unit) == unit \in Nat \ {0} /\ unit % KERNEL_TILE_TOKENS = 0

ASSUME UnitAssumption ==
  KERNEL_TILE_TOKENS \in Nat \ {0} /\ validate_match_unit(prefix_match_unit)

ASSUME PromptsAssumption == Prompts \subseteq Seq(Token)

ASSUME CapacityAssumption ==
  /\ DOMAIN capacity_tokens \subseteq Replicas
  /\ \A r \in DOMAIN capacity_tokens : capacity_tokens[r] \in Nat

ASSUME NoneAssumption == None \notin Replicas

ASSUME ClockAssumption == MaxNow \in Nat

VARIABLES tree, now, enforcing
vars == <<tree, now, enforcing>>

Init ==
  /\ tree = EmptyTree
  /\ now = 0
  /\ enforcing = None

\* The time a call is made with: time.monotonic(), or a trace's arrival time.
Advance == now' \in now .. (now + 1) /\ now' <= MaxNow

\* The empty sequence is nobody's prefix, and returns at once.
Insert(tokens, r) ==
  /\ enforcing = None
  /\ Advance
  /\ tree' = IF tokens = <<>> THEN tree ELSE InsertPath(tree, tokens, r, now')
  /\ enforcing' = IF tokens # <<>> /\ OverCapacity(tree', r, capacity_tokens) THEN r ELSE None

\* An iteration of the loop; it breaks when there is nothing to evict.
EvictOne ==
  /\ enforcing # None
  /\ IF Victims(tree, enforcing) = {}
     THEN tree' = tree /\ enforcing' = None
     ELSE /\ \E victim \in Victims(tree, enforcing) : tree' = Evicted(tree, enforcing, victim)
          /\ enforcing' = IF OverCapacity(tree', enforcing, capacity_tokens)
                          THEN enforcing ELSE None
  /\ UNCHANGED now

Touch(tokens, r) ==
  /\ enforcing = None
  /\ Advance
  /\ tree' = Touched(tree, tokens, r, now')
  /\ UNCHANGED enforcing

RemoveReplica(r) ==
  /\ enforcing = None
  /\ tree' = Forgotten(tree, r)
  /\ UNCHANGED <<now, enforcing>>

Next ==
  \/ \E tokens \in Prompts, r \in Replicas : Insert(tokens, r)
  \/ EvictOne
  \/ \E tokens \in Prompts, r \in Replicas : Touch(tokens, r)
  \/ \E r \in Replicas : RemoveReplica(r)

Spec     == Init /\ [][Next]_vars
\* Nothing preempts the loop of a synchronous method.
FairSpec == Spec /\ WF_vars(EvictOne)

----------------------------------------------------------------------------
\* The tree is well formed: nodes are prompts' prefixes, the root belongs to
\* nobody, and times are times already past (__init__, Node).
TypeOK ==
  /\ DOMAIN tree = {"residents", "tokens_used"}
  /\ <<>> \in Nodes(tree) /\ tree.residents[<<>>] = NoResidents
  /\ \A n \in Nodes(tree) :
       /\ \E p \in Prompts \cup {<<>>} : IsPrefix(n, p)
       /\ tree.residents[n] \in [DOMAIN tree.residents[n] -> 0 .. now]
       /\ DOMAIN tree.residents[n] \subseteq Replicas
  /\ tree.tokens_used \in [DOMAIN tree.tokens_used -> Int]
  /\ DOMAIN tree.tokens_used \subseteq Replicas
  /\ now \in 0 .. MaxNow
  /\ enforcing \in Replicas \cup {None}

\* A replica resident at a node is resident at every node above it: no split,
\* eviction or removal ever leaves a hole in the path (insert's "holding a
\* prefix means holding every shorter prefix of it").
ResidencyInherited ==
  \A n, m \in Nodes(tree) : \A r \in Replicas :
    n # <<>> /\ IsPrefix(n, m) /\ Holds(tree, m, r) => Holds(tree, n, r)

\* Children of a node differ in their first token, the key of the children
\* dictionary: an edge that diverges is split, never doubled (_split, insert).
ChildKeysUnique ==
  \A n \in Nodes(tree) : \A c, d \in Children(tree, n) :
    c[Len(n) + 1] = d[Len(n) + 1] => c = d

\* A longer prefix is never fresher than a shorter one: so the oldest tail is
\* the oldest of all that the replica holds, and eviction is LRU (_evict_one
\* looks at tails only; touch stops at the last fully matched node).
RecencyInherited ==
  \A n, m \in Nodes(tree) : \A r \in Replicas :
    /\ n # <<>> /\ IsPrefix(n, m)
    /\ Holds(tree, n, r) /\ Holds(tree, m, r)
    => tree.residents[n][r] >= tree.residents[m][r]

\* tokens_used counts every held token position once, however the tree has
\* been split since it was inserted (insert, _split, _evict_one).
AccountingExact ==
  \A r \in Replicas : Used(tree, r) = Cardinality(Held(tree, r))

\* Between calls no replica is believed to hold more than its capacity
\* (_enforce_capacity).
WithinCapacity ==
  enforcing = None => \A r \in DOMAIN capacity_tokens : Used(tree, r) <= capacity_tokens[r]

\* match() reports the longest prefix the replica holds, in whole blocks, also
\* when the walk ends inside an edge (match).
MatchIsLongestHeld ==
  \A p \in Prompts, r \in Replicas :
    MatchFor(tree, p, r, prefix_match_unit) =
      Usable(Max({0} \cup {i \in 1 .. Len(p) : SubSeq(p, 1, i) \in Held(tree, r)}),
             prefix_match_unit)

\* A node is there for a prompt that ends at it or for prompts that part at it:
\* although nothing ever deletes one, there are fewer than two for each distinct
\* prompt, however often prompts are split, evicted and stored again (_split,
\* insert, _evict_one).
NodesAreNeeded ==
  \A n \in Nodes(tree) \ {<<>>} : n \in Prompts \/ Cardinality(Children(tree, n)) > 1

\* The eviction loop comes to an end (_enforce_capacity).
LoopEnds == enforcing # None ~> enforcing = None

----------------------------------------------------------------------------
\* What a replica holds, prefix by prefix, with the time of last use: that of
\* the node whose edge the prefix ends on.
RecencyOf(r) ==
  [q \in Held(tree, r) |->
     LET below == {n \in Nodes(tree) : IsPrefix(q, n) /\ Holds(tree, n, r)}
     IN  tree.residents[CHOOSE n \in below : \A m \in below : Len(n) <= Len(m)][r]]

Promise == INSTANCE PrefixCache WITH recency <- [r \in Replicas |-> RecencyOf(r)]

\* The tree keeps the promise of a least-recently-used prefix cache: splits are
\* invisible, one replica's calls change nothing for another, and what leaves
\* is the oldest there is, only when over capacity (PrefixTree).
KeepsPromise == Promise!Spec
=============================================================================
