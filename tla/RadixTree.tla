----------------------------- MODULE RadixTree -----------------------------
(***************************************************************************)
(* The edge-compressed prefix tree of radix.py as a value, and the work    *)
(* each of its methods does on it.                                         *)
(*                                                                         *)
(* A node is named by the tokens from the root to it, so that the root is  *)
(* <<>>, `depth' is Len and `edge' is the part of a name beyond its        *)
(* parent's.  A tree is a record of                                        *)
(*    residents    for every node, a partial function from replicas to the *)
(*                 time of last access; its DOMAIN is the set of nodes     *)
(*    tokens_used  a partial function from replicas to token counts        *)
(* Nodes are never deleted: eviction and removal only clear residency.     *)
(***************************************************************************)
EXTENDS Integers, FiniteSets, SequencesExt

NoResidents == [r \in {} |-> 0]

Put(f, k, v) == [x \in DOMAIN f \cup {k} |-> IF x = k THEN v ELSE f[x]]
Drop(f, k)   == [x \in DOMAIN f \ {k} |-> f[x]]

\* dict.setdefault: a key that is there keeps its value.
SetDefault(f, k, v) == IF k \in DOMAIN f THEN f ELSE Put(f, k, v)

EmptyTree == [residents |-> [n \in {<<>>} |-> NoResidents], tokens_used |-> NoResidents]

Nodes(t)     == DOMAIN t.residents
Holds(t, n, r) == r \in DOMAIN t.residents[n]
Used(t, r)   == IF r \in DOMAIN t.tokens_used THEN t.tokens_used[r] ELSE 0

\* node.children: the nodes below n with no node in between.
Children(t, n) ==
  {c \in Nodes(t) : /\ IsStrictPrefix(n, c)
                    /\ \A m \in Nodes(t) : IsStrictPrefix(n, m) => ~IsStrictPrefix(m, c)}

IsTailFor(t, n, r) == \A c \in Children(t, n) : ~Holds(t, c, r)

----------------------------------------------------------------------------
\* Walking the tree along `tokens'.

\* The nodes the walk reaches, and the last of them.
Walk(t, tokens)    == {n \in Nodes(t) : IsPrefix(n, tokens)}
Deepest(t, tokens) ==
  CHOOSE n \in Walk(t, tokens) : \A m \in Walk(t, tokens) : Len(m) <= Len(n)

\* The child, if there is one, on whose edge the walk stops part-way.
MidEdge(t, tokens) ==
  LET n == Deepest(t, tokens)
  IN  {c \in Children(t, n) : Len(n) < Len(tokens) /\ c[Len(n) + 1] = tokens[Len(n) + 1]}

\* How many tokens of the query the walk matched in all.
Matched(t, tokens) ==
  IF MidEdge(t, tokens) = {}
  THEN Len(Deepest(t, tokens))
  ELSE Len(LongestCommonPrefix({tokens, CHOOSE c \in MidEdge(t, tokens) : TRUE}))

\* Whole blocks only: the engine serves no partial one.
Usable(n, unit) == (n \div unit) * unit

\* Mutant: whole nodes only.
MatchNodesOnly(t, tokens, r, unit) ==
  Max({0} \cup {Usable(Len(n), unit) : n \in {m \in Walk(t, tokens) : Holds(t, m, r)}})

\* match(tokens).get(r, 0)
MatchFor(t, tokens, r, unit) ==
  Max({0} \cup {Usable(Len(n), unit) : n \in {m \in Walk(t, tokens) : Holds(t, m, r)}}
          \cup {Usable(Matched(t, tokens), unit) :
                  c \in {d \in MidEdge(t, tokens) : Holds(t, d, r)}})

----------------------------------------------------------------------------
\* Inserting.

\* Mutant: a split leaves the new node without residents.
ExtendedWithoutResidents(t, tokens) ==
  [n \in Nodes(t) \cup {SubSeq(tokens, 1, Matched(t, tokens)), tokens} |->
     IF n \in Nodes(t) THEN t.residents[n] ELSE NoResidents]

\* Mutant: a leaf is added beside the edge that should have been split.
ExtendedWithoutSplit(t, tokens) ==
  [n \in Nodes(t) \cup {tokens} |-> IF n \in Nodes(t) THEN t.residents[n] ELSE NoResidents]

\* Mutant: edges are not compressed.
ExtendedByToken(t, tokens) ==
  [n \in Nodes(t) \cup {SubSeq(tokens, 1, i) : i \in 1 .. Len(tokens)} |->
     IF n \in Nodes(t) THEN t.residents[n] ELSE NoResidents]

\* Residency once the path of `tokens' exists: a split gives the new node its
\* child's residents, a leaf begins with none.
Extended(t, tokens) ==
  LET mid == SubSeq(tokens, 1, Matched(t, tokens))
  IN  [n \in Nodes(t) \cup {mid, tokens} |->
         IF n \in Nodes(t) THEN t.residents[n]
         ELSE IF n = mid THEN t.residents[CHOOSE c \in MidEdge(t, tokens) : TRUE]
         ELSE NoResidents]

\* The token positions of the path whose edge is not yet resident for r: the
\* lengths of those edges, summed, is how many there are.
Novel(residents, tokens, r) ==
  LET path   == {n \in DOMAIN residents : IsPrefix(n, tokens)}
      End(i) == CHOOSE n \in path : /\ Len(n) >= i
                                    /\ \A m \in path : Len(m) >= i => Len(n) <= Len(m)
  IN  {i \in 1 .. Len(tokens) : r \notin DOMAIN residents[End(i)]}

\* Mutant: the root is marked as well.
MarkFromRoot(residents, tokens, r, now) ==
  [n \in DOMAIN residents |->
     IF IsPrefix(n, tokens) THEN Put(residents[n], r, now) ELSE residents[n]]

\* Holding a prefix means holding every shorter one: the whole path is marked.
Mark(residents, tokens, r, now) ==
  [n \in DOMAIN residents |->
     IF n # <<>> /\ IsPrefix(n, tokens) THEN Put(residents[n], r, now) ELSE residents[n]]

\* insert() up to its call of _enforce_capacity.
InsertPath(t, tokens, r, now) ==
  LET grown == Extended(t, tokens)
  IN  [residents   |-> Mark(grown, tokens, r, now),
       tokens_used |-> Put(t.tokens_used, r, Used(t, r) + Cardinality(Novel(grown, tokens, r)))]

\* Mutant: only the last node of the walk is refreshed.
TouchedAtEnd(t, tokens, r, now) ==
  [t EXCEPT !.residents =
     [n \in Nodes(t) |-> IF n # <<>> /\ n = Deepest(t, tokens) /\ Holds(t, n, r)
                         THEN Put(t.residents[n], r, now) ELSE t.residents[n]]]

Touched(t, tokens, r, now) ==
  [t EXCEPT !.residents =
     [n \in Nodes(t) |-> IF n # <<>> /\ IsPrefix(n, tokens) /\ Holds(t, n, r)
                         THEN Put(t.residents[n], r, now) ELSE t.residents[n]]]

----------------------------------------------------------------------------
\* Evicting.

\* Mutants: a replica without a capacity has none to use; one token is let pass.
OverMissingCapacity(t, r, capacity_tokens) ==
  Used(t, r) > (IF r \in DOMAIN capacity_tokens THEN capacity_tokens[r] ELSE 0)
OverByTwo(t, r, capacity_tokens) ==
  r \in DOMAIN capacity_tokens /\ Used(t, r) > capacity_tokens[r] + 1

\* The replicas capacity_tokens does not name are not bounded.
OverCapacity(t, r, capacity_tokens) ==
  r \in DOMAIN capacity_tokens /\ Used(t, r) > capacity_tokens[r]

Evictable(t, r) == {n \in Nodes(t) \ {<<>>} : Holds(t, n, r) /\ IsTailFor(t, n, r)}

\* Mutant: the most recently used of them.
VictimsNewest(t, r) ==
  {n \in Evictable(t, r) : \A m \in Evictable(t, r) : t.residents[n][r] >= t.residents[m][r]}

\* The least recently used of them.  Which of several equally old ones is met
\* first depends on the order of Python dictionaries, and is left open.
Victims(t, r) ==
  {n \in Evictable(t, r) : \A m \in Evictable(t, r) : t.residents[n][r] <= t.residents[m][r]}

\* Mutant: the depth of the node.
EdgeFromRoot(t, n) == Len(n)

Edge(t, n) == Len(n) - Len(CHOOSE p \in Nodes(t) : n \in Children(t, p))

\* Mutant: the victim is chosen, and kept.
EvictedNothing(t, r, victim) == [t EXCEPT !.residents[victim] = @]

Evicted(t, r, victim) ==
  [residents   |-> [t.residents EXCEPT ![victim] = Drop(@, r)],
   tokens_used |-> Put(t.tokens_used, r, Used(t, r) - Edge(t, victim))]

\* Mutant: only the accounting is dropped.
ForgottenAccount(t, r) == [t EXCEPT !.tokens_used = Drop(@, r)]

\* remove_replica(): forget r at every node.
Forgotten(t, r) ==
  [residents   |-> [n \in Nodes(t) |-> Drop(t.residents[n], r)],
   tokens_used |-> Drop(t.tokens_used, r)]

----------------------------------------------------------------------------
\* What a tree says a replica holds: every nonempty prefix of a resident node.
Held(t, r) ==
  UNION {{SubSeq(n, 1, i) : i \in 1 .. Len(n)} : n \in {m \in Nodes(t) : Holds(t, m, r)}}
=============================================================================
