--------------------------- MODULE RadixTreeFacts ---------------------------
(***************************************************************************)
(* Facts about prefixes and about the tree operators of RadixTree, for     *)
(* trees of any size: first what keeps a tree sound, then what its methods *)
(* do to the prefixes that a replica holds.  The proofs about the tree,    *)
(* the fleet, the simulation and the gateway rest on them.                 *)
(***************************************************************************)
EXTENDS RadixTree, WellFoundedInduction, SequenceTheorems, FiniteSetTheorems, TLAPS

\* A nonempty set of naturals has a least element.
LEMMA LeastNat ==
  ASSUME NEW S, S \subseteq Nat, S # {}
  PROVE  \E x \in S : \A y \in S : x <= y
<1>1. PICK x \in S : \A y \in S : ~(<<y, x>> \in OpToRel(<, Nat))
  BY WFMin, NatLessThanWellFounded, Zenon
<1>2. \A y \in S : ~(y < x)
  BY <1>1 DEF OpToRel
<1> QED BY <1>2

\* A prefix agrees with the whole at each of its positions.
LEMMA PrefixPointwise ==
  ASSUME NEW T, NEW s \in Seq(T), NEW t \in Seq(T)
  PROVE  IsPrefix(s, t) <=> Len(s) <= Len(t) /\ \A i \in 1 .. Len(s) : s[i] = t[i]
<1>1. SUFFICES ASSUME Len(s) <= Len(t)
               PROVE  SubSeq(s, 1, Len(s)) = SubSeq(t, 1, Len(s))
                        <=> \A i \in 1 .. Len(s) : s[i] = t[i]
  BY DEF IsPrefix
<1>2. SubSeq(s, 1, Len(s)) = s
  BY SubSeqFull
<1>3. /\ SubSeq(t, 1, Len(s)) \in Seq(T)
      /\ Len(SubSeq(t, 1, Len(s))) = Len(s)
      /\ \A i \in 1 .. Len(s) : SubSeq(t, 1, Len(s))[i] = t[i]
  BY <1>1
<1> QED BY <1>2, <1>3, SeqEqual

\* Prefixes are ordered, and those of one sequence are comparable.
LEMMA PrefixOrder ==
  ASSUME NEW T, NEW s \in Seq(T), NEW t \in Seq(T)
  PROVE  /\ IsPrefix(s, s) /\ IsPrefix(<<>>, s)
         /\ IsPrefix(s, t) => Len(s) <= Len(t)
         /\ IsPrefix(s, t) /\ Len(s) = Len(t) => s = t
         /\ IsStrictPrefix(s, t) <=> IsPrefix(s, t) /\ Len(s) < Len(t)
         /\ \A u \in Seq(T) : IsPrefix(s, t) /\ IsPrefix(t, u) => IsPrefix(s, u)
         /\ \A u \in Seq(T) :
              IsPrefix(s, u) /\ IsPrefix(t, u) /\ Len(s) <= Len(t) => IsPrefix(s, t)
<1>1. <<>> \in Seq(T) /\ Len(<<>>) = 0
  OBVIOUS
<1>2. IsPrefix(s, s) /\ IsPrefix(<<>>, s)
  <2>1. IsPrefix(s, s)
    BY DEF IsPrefix
  <2>2. SubSeq(<<>>, 1, 0) = SubSeq(s, 1, 0)
    BY SubSeqEmpty
  <2> QED BY <1>1, <2>1, <2>2 DEF IsPrefix
<1>3. IsPrefix(s, t) => Len(s) <= Len(t)
  BY PrefixPointwise
<1>4. IsPrefix(s, t) /\ Len(s) = Len(t) => s = t
  BY PrefixPointwise, SeqEqual
<1>5. IsStrictPrefix(s, t) <=> IsPrefix(s, t) /\ Len(s) < Len(t)
  BY <1>3, <1>4 DEF IsStrictPrefix
<1>6. ASSUME NEW u \in Seq(T), IsPrefix(s, t), IsPrefix(t, u)
      PROVE  IsPrefix(s, u)
  <2>1. Len(s) <= Len(t) /\ Len(t) <= Len(u)
    BY <1>6, PrefixPointwise
  <2>2. \A i \in 1 .. Len(s) : i \in 1 .. Len(t) /\ s[i] = t[i] /\ t[i] = u[i]
    BY <1>6, <2>1, PrefixPointwise
  <2> QED BY <2>1, <2>2, PrefixPointwise
<1>7. ASSUME NEW u \in Seq(T), IsPrefix(s, u), IsPrefix(t, u), Len(s) <= Len(t)
      PROVE  IsPrefix(s, t)
  <2>1. \A i \in 1 .. Len(s) : i \in 1 .. Len(t) /\ s[i] = u[i] /\ t[i] = u[i]
    BY <1>7, PrefixPointwise
  <2> QED BY <1>7, <2>1, PrefixPointwise
<1> QED BY <1>2, <1>3, <1>4, <1>5, <1>6, <1>7

\* Cutting a sequence off gives a prefix of it.
LEMMA CutIsPrefix ==
  ASSUME NEW T, NEW t \in Seq(T), NEW k \in 0 .. Len(t)
  PROVE  /\ SubSeq(t, 1, k) \in Seq(T)
         /\ Len(SubSeq(t, 1, k)) = k
         /\ \A i \in 1 .. k : SubSeq(t, 1, k)[i] = t[i]
         /\ IsPrefix(SubSeq(t, 1, k), t)
         /\ \A s \in Seq(T) : IsPrefix(s, t) /\ Len(s) = k => s = SubSeq(t, 1, k)
<1>1. /\ SubSeq(t, 1, k) \in Seq(T)
      /\ Len(SubSeq(t, 1, k)) = k
      /\ \A i \in 1 .. k : SubSeq(t, 1, k)[i] = t[i]
  OBVIOUS
<1>2. IsPrefix(SubSeq(t, 1, k), t)
  <2> DEFINE p == SubSeq(t, 1, k)
  <2>1. p \in Seq(T) /\ Len(p) <= Len(t) /\ \A i \in 1 .. Len(p) : p[i] = t[i]
    BY <1>1
  <2> HIDE DEF p
  <2>2. IsPrefix(p, t)
    BY <2>1, PrefixPointwise
  <2> QED BY <2>2 DEF p
<1>3. ASSUME NEW s \in Seq(T), IsPrefix(s, t), Len(s) = k
      PROVE  s = SubSeq(t, 1, k)
  <2>1. \A i \in 1 .. Len(s) : s[i] = t[i]
    BY <1>3, PrefixPointwise
  <2> QED BY <1>1, <1>3, <2>1, SeqEqual
<1> QED BY <1>1, <1>2, <1>3

\* Of sequences no longer than some bound, one is longest; and one is shortest.
LEMMA LongestExists ==
  ASSUME NEW T, NEW S, S \subseteq Seq(T), S # {},
         NEW b \in Nat, \A s \in S : Len(s) <= b
  PROVE  \E s \in S : \A t \in S : Len(t) <= Len(s)
<1> DEFINE Slack == {b - Len(s) : s \in S}
<1>1. Slack \subseteq Nat /\ Slack # {}
  OBVIOUS
<1>2. PICK x \in Slack : \A y \in Slack : x <= y
  BY <1>1, LeastNat
<1>3. PICK s \in S : x = b - Len(s)
  BY <1>2
<1>4. ASSUME NEW t \in S PROVE Len(t) <= Len(s)
  <2>1. b - Len(t) \in Slack
    OBVIOUS
  <2>2. b - Len(s) <= b - Len(t)
    BY <1>2, <1>3, <2>1
  <2> QED BY <2>2
<1> QED BY <1>4

LEMMA ShortestExists ==
  ASSUME NEW T, NEW S, S \subseteq Seq(T), S # {}
  PROVE  \E s \in S : \A t \in S : Len(s) <= Len(t)
<1> DEFINE Lens == {Len(s) : s \in S}
<1>1. Lens \subseteq Nat /\ Lens # {}
  <2>1. \A s \in S : Len(s) \in Nat
    BY LenProperties
  <2> QED BY <2>1
<1>2. PICK x \in Lens : \A y \in Lens : x <= y
  BY <1>1, LeastNat
<1> QED BY <1>2

\* Two sequences agree up to their longest common prefix, and differ after it.
LEMMA CommonPrefixIsWhereTheyPart ==
  ASSUME NEW T, NEW s \in Seq(T), NEW t \in Seq(T)
  PROVE  LET k == Len(LongestCommonPrefix({s, t}))
         IN  /\ k \in Nat /\ k <= Len(s) /\ k <= Len(t)
             /\ \A i \in 1 .. k : s[i] = t[i]
             /\ k < Len(s) /\ k < Len(t) => s[k + 1] # t[k + 1]
<1> DEFINE CP == CommonPrefixes({s, t})
           l  == LongestCommonPrefix({s, t})
<1>1. ASSUME NEW p \in CP
      PROVE  p \in Seq(T) /\ IsPrefix(p, s) /\ IsPrefix(p, t)
  <2>1. IsPrefix(p, s) /\ IsPrefix(p, t)
    BY DEF CommonPrefixes
  <2>2. \/ \E j \in 0 .. Len(s) : p = SubSeq(s, 1, j)
        \/ \E j \in 0 .. Len(t) : p = SubSeq(t, 1, j)
    BY DEF CommonPrefixes, Prefixes
  <2> QED BY <2>1, <2>2, CutIsPrefix
<1>2. ASSUME NEW p \in Seq(T), IsPrefix(p, s), IsPrefix(p, t)
      PROVE  p \in CP
  <2>1. Len(p) \in 0 .. Len(s)
    BY <1>2, PrefixOrder
  <2>2. p = SubSeq(s, 1, Len(p))
    BY <1>2, <2>1, CutIsPrefix
  <2>3. p \in Prefixes(s)
    BY <2>1, <2>2 DEF Prefixes
  <2> QED BY <1>2, <2>3 DEF CommonPrefixes
<1>3. l \in CP /\ \A q \in CP : Len(q) <= Len(l)
  <2>1. <<>> \in CP
    BY <1>2, PrefixOrder, EmptySeq
  <2>2. CP \subseteq Seq(T) /\ \A q \in CP : Len(q) <= Len(s)
    BY <1>1, PrefixOrder
  <2>3. Len(s) \in Nat
    OBVIOUS
  <2> HIDE DEF CP
  <2>4. \E p \in CP : \A q \in CP : Len(q) <= Len(p)
    BY <2>1, <2>2, <2>3, LongestExists
  <2>5. l = CHOOSE p \in CP : \A q \in CP : Len(q) <= Len(p)
    BY Zenon DEF LongestCommonPrefix, CP
  <2> QED BY <2>4, <2>5
<1> DEFINE k == Len(l)
<1>4. l \in Seq(T) /\ IsPrefix(l, s) /\ IsPrefix(l, t)
  BY <1>1, <1>3
<1> HIDE DEF l, CP
<1>5. /\ k \in Nat /\ k <= Len(s) /\ k <= Len(t)
      /\ \A i \in 1 .. k : s[i] = t[i]
  BY <1>4, PrefixPointwise
<1>6. ASSUME k < Len(s), k < Len(t), s[k + 1] = t[k + 1]
      PROVE  FALSE
  <2> DEFINE p == SubSeq(s, 1, k + 1)
  <2>1. /\ p \in Seq(T) /\ Len(p) = k + 1 /\ IsPrefix(p, s)
        /\ \A i \in 1 .. k + 1 : p[i] = s[i]
    BY <1>5, <1>6, CutIsPrefix
  <2> HIDE DEF p
  <2>2. \A i \in 1 .. Len(p) : p[i] = t[i]
    BY <1>5, <1>6, <2>1
  <2>3. IsPrefix(p, t)
    BY <1>5, <1>6, <2>1, <2>2, PrefixPointwise
  <2>4. Len(p) <= k
    BY <1>2, <1>3, <2>1, <2>3
  <2> QED BY <1>5, <2>1, <2>4
<1> QED BY <1>5, <1>6 DEF l

----------------------------------------------------------------------------
\* The nodes of a tree are sequences over T, the root among them.
Rooted(t, T) == Nodes(t) \subseteq Seq(T) /\ <<>> \in Nodes(t)

\* The walk reaches the root, and so has a deepest node.
LEMMA DeepestIsLongest ==
  ASSUME NEW t, NEW T, Rooted(t, T), NEW tokens \in Seq(T)
  PROVE  /\ Deepest(t, tokens) \in Nodes(t) /\ Deepest(t, tokens) \in Seq(T)
         /\ IsPrefix(Deepest(t, tokens), tokens)
         /\ \A m \in Nodes(t) : IsPrefix(m, tokens) => Len(m) <= Len(Deepest(t, tokens))
<1> DEFINE W == Walk(t, tokens)
<1>1. W \subseteq Seq(T) /\ <<>> \in W /\ \A m \in W : Len(m) <= Len(tokens)
  BY PrefixOrder DEF Rooted, Walk
<1>2. \E n \in W : \A m \in W : Len(m) <= Len(n)
  <2>1. Len(tokens) \in Nat
    OBVIOUS
  <2> HIDE DEF W
  <2> QED BY <1>1, <2>1, LongestExists
<1>3. Deepest(t, tokens) \in W /\ \A m \in W : Len(m) <= Len(Deepest(t, tokens))
  BY <1>2 DEF Deepest
<1> QED BY <1>3 DEF Rooted, Walk

\* Between a node and one below it there is a child of the former.
LEMMA ChildTowards ==
  ASSUME NEW t, NEW T, Rooted(t, T), NEW n \in Nodes(t), NEW m \in Nodes(t),
         IsPrefix(n, m), Len(n) < Len(m)
  PROVE  \E c \in Children(t, n) : IsPrefix(c, m)
<1> DEFINE Below == {c \in Nodes(t) : IsPrefix(n, c) /\ Len(n) < Len(c) /\ IsPrefix(c, m)}
<1>1. Nodes(t) \subseteq Seq(T)
  BY DEF Rooted
<1>2. m \in Below /\ Below \subseteq Seq(T)
  BY <1>1, PrefixOrder
<1>3. PICK c \in Below : \A d \in Below : Len(c) <= Len(d)
  <2> HIDE DEF Below
  <2> QED BY <1>2, ShortestExists
<1>4. c \in Nodes(t) /\ IsStrictPrefix(n, c) /\ IsPrefix(c, m)
  BY <1>1, <1>3, PrefixOrder
<1>5. ASSUME NEW d \in Nodes(t), IsStrictPrefix(n, d), IsStrictPrefix(d, c)
      PROVE  FALSE
  <2>1. IsPrefix(n, d) /\ Len(n) < Len(d) /\ IsPrefix(d, c) /\ Len(d) < Len(c)
    BY <1>1, <1>4, <1>5, PrefixOrder
  <2>2. IsPrefix(d, m)
    BY <1>1, <1>4, <2>1, PrefixOrder
  <2>3. d \in Below
    BY <2>1, <2>2
  <2>4. Len(c) <= Len(d) /\ Len(c) \in Nat /\ Len(d) \in Nat
    BY <1>1, <1>3, <2>3
  <2> QED BY <2>1, <2>4
<1> QED BY <1>4, <1>5 DEF Children

\* Where the walk stops.  Off the edges, at a node none of whose descendants
\* goes on with the next token; or inside the edge of a child that parts from
\* the query there.
LEMMA WalkStops ==
  ASSUME NEW t, NEW T, Rooted(t, T), NEW tokens \in Seq(T)
  PROVE  LET D == Deepest(t, tokens)
             k == Matched(t, tokens)
             c == CHOOSE x \in MidEdge(t, tokens) : TRUE
         IN  /\ k \in Nat /\ Len(D) <= k /\ k <= Len(tokens)
             /\ MidEdge(t, tokens) = {} =>
                  /\ k = Len(D) /\ SubSeq(tokens, 1, k) = D
                  /\ \A m \in Nodes(t) :
                       IsPrefix(D, m) /\ Len(D) < Len(m) /\ Len(D) < Len(tokens)
                         => m[Len(D) + 1] # tokens[Len(D) + 1]
             /\ MidEdge(t, tokens) # {} =>
                  /\ c \in Children(t, D) /\ c \in Nodes(t) /\ c \in Seq(T)
                  /\ Len(D) < k /\ k < Len(c)
                  /\ \A i \in 1 .. k : c[i] = tokens[i]
                  /\ k < Len(tokens) => c[k + 1] # tokens[k + 1]
<1> DEFINE D == Deepest(t, tokens)
           k == Matched(t, tokens)
           c == CHOOSE x \in MidEdge(t, tokens) : TRUE
<1>1. /\ D \in Nodes(t) /\ D \in Seq(T) /\ IsPrefix(D, tokens)
      /\ \A m \in Nodes(t) : IsPrefix(m, tokens) => Len(m) <= Len(D)
  BY DeepestIsLongest
<1>2. Len(D) \in Nat /\ Len(tokens) \in Nat /\ Len(D) <= Len(tokens)
  BY <1>1, PrefixOrder
<1>3. Nodes(t) \subseteq Seq(T)
  BY DEF Rooted
<1>4. CASE MidEdge(t, tokens) = {}
  <2>1. k = Len(D)
    BY <1>4 DEF Matched
  <2>2. SubSeq(tokens, 1, k) = D
    BY <1>1, <1>2, <2>1, CutIsPrefix
  <2>3. ASSUME NEW m \in Nodes(t), IsPrefix(D, m), Len(D) < Len(m), Len(D) < Len(tokens)
        PROVE  m[Len(D) + 1] # tokens[Len(D) + 1]
    <3>1. PICK x \in Children(t, D) : IsPrefix(x, m)
      BY <1>1, <2>3, ChildTowards
    <3>2. x \in Nodes(t) /\ x \in Seq(T) /\ Len(D) < Len(x)
      BY <1>1, <1>3, PrefixOrder DEF Children
    <3>3. x[Len(D) + 1] # tokens[Len(D) + 1]
      BY <1>4, <2>3, <3>1 DEF MidEdge
    <3>4. Len(D) + 1 \in 1 .. Len(x) /\ m \in Seq(T)
      BY <1>2, <1>3, <3>2
    <3>5. x[Len(D) + 1] = m[Len(D) + 1]
      BY <3>1, <3>2, <3>4, PrefixPointwise
    <3> QED BY <3>3, <3>5
  <2> QED BY <1>2, <1>4, <2>1, <2>2, <2>3
<1>5. CASE MidEdge(t, tokens) # {}
  <2>1. c \in MidEdge(t, tokens)
    BY <1>5
  <2>2. c \in Children(t, D) /\ Len(D) < Len(tokens) /\ c[Len(D) + 1] = tokens[Len(D) + 1]
    BY <2>1 DEF MidEdge
  <2>3. c \in Nodes(t) /\ c \in Seq(T) /\ IsPrefix(D, c) /\ Len(D) < Len(c)
    BY <1>1, <1>3, <2>2, PrefixOrder DEF Children
  <2>4. k = Len(LongestCommonPrefix({tokens, c}))
    BY <1>5 DEF Matched
  <2>5. /\ k \in Nat /\ k <= Len(tokens) /\ k <= Len(c)
        /\ \A i \in 1 .. k : c[i] = tokens[i]
        /\ k < Len(tokens) /\ k < Len(c) => c[k + 1] # tokens[k + 1]
    <3> HIDE DEF c, k
    <3> QED BY <2>3, <2>4, CommonPrefixIsWhereTheyPart
  <2> HIDE DEF c, k, D
  <2>6. \A i \in 1 .. Len(D) + 1 : c[i] = tokens[i]
    <3>1. \A i \in 1 .. Len(D) : c[i] = D[i] /\ D[i] = tokens[i]
      BY <1>1, <2>3, PrefixPointwise
    <3> QED BY <1>2, <2>2, <3>1
  <2>7. Len(D) < k
    <3>1. SUFFICES ASSUME k <= Len(D) PROVE FALSE
      BY <1>2, <2>5
    <3>2. k < Len(tokens) /\ k < Len(c) /\ k + 1 \in 1 .. Len(D) + 1
      BY <1>2, <2>2, <2>3, <2>5, <3>1
    <3> QED BY <2>5, <2>6, <3>2
  <2>8. k < Len(c)
    <3>1. SUFFICES ASSUME k = Len(c) PROVE FALSE
      BY <2>3, <2>5
    <3>2. IsPrefix(c, tokens)
      BY <2>3, <2>5, <3>1, PrefixPointwise
    <3>3. Len(c) <= Len(D)
      BY <1>1, <2>3, <3>2
    <3> QED BY <1>2, <2>3, <3>3
  <2>9. /\ k \in Nat /\ Len(D) <= k /\ k <= Len(tokens)
        /\ c \in Children(t, D) /\ c \in Nodes(t) /\ c \in Seq(T)
        /\ Len(D) < k /\ k < Len(c)
        /\ \A i \in 1 .. k : c[i] = tokens[i]
        /\ k < Len(tokens) => c[k + 1] # tokens[k + 1]
    BY <1>2, <2>2, <2>3, <2>5, <2>7, <2>8
  <2> QED BY <1>5, <2>9 DEF c, k, D
<1> QED BY <1>4, <1>5

----------------------------------------------------------------------------
\* Where two nodes part there is a node.
BranchPoint(c, m, n) ==
  /\ IsPrefix(c, m) /\ IsPrefix(c, n)
  /\ Len(c) = Len(m) \/ Len(c) = Len(n) \/ m[Len(c) + 1] # n[Len(c) + 1]
Branching(N) == \A m, n \in N : \E c \in N : BranchPoint(c, m, n)

\* Who is resident at a node is so at every node above, since no earlier.
Layered(residents) ==
  \A n, m \in DOMAIN residents : n # <<>> /\ IsPrefix(n, m) =>
    \A r \in DOMAIN residents[m] :
      r \in DOMAIN residents[n] /\ residents[n][r] >= residents[m][r]

\* A new node at which the walk stopped part-way, or at the end of the query,
\* leaves the tree branching at nodes only.
LEMMA InsertBranching ==
  ASSUME NEW t, NEW T, Rooted(t, T), Branching(Nodes(t)), NEW tokens \in Seq(T)
  PROVE  Branching(Nodes(t) \cup {SubSeq(tokens, 1, Matched(t, tokens)), tokens})
<1> DEFINE N   == Nodes(t)
           D   == Deepest(t, tokens)
           k   == Matched(t, tokens)
           mid == SubSeq(tokens, 1, k)
           c   == CHOOSE x \in MidEdge(t, tokens) : TRUE
           M   == N \cup {mid, tokens}
<1>1. /\ D \in N /\ D \in Seq(T) /\ IsPrefix(D, tokens)
      /\ \A m \in N : IsPrefix(m, tokens) => Len(m) <= Len(D)
  BY DeepestIsLongest
<1>2. /\ k \in Nat /\ Len(D) <= k /\ k <= Len(tokens)
      /\ MidEdge(t, tokens) = {} =>
           /\ k = Len(D) /\ mid = D
           /\ \A m \in N :
                IsPrefix(D, m) /\ Len(D) < Len(m) /\ Len(D) < Len(tokens)
                  => m[Len(D) + 1] # tokens[Len(D) + 1]
      /\ MidEdge(t, tokens) # {} =>
           /\ c \in Children(t, D) /\ c \in N /\ c \in Seq(T)
           /\ Len(D) < k /\ k < Len(c)
           /\ \A i \in 1 .. k : c[i] = tokens[i]
           /\ k < Len(tokens) => c[k + 1] # tokens[k + 1]
  BY WalkStops
<1>3. /\ mid \in Seq(T) /\ Len(mid) = k /\ IsPrefix(mid, tokens)
      /\ \A i \in 1 .. k : mid[i] = tokens[i]
  BY <1>2, CutIsPrefix
<1>4. N \subseteq Seq(T) /\ M \subseteq Seq(T)
  BY <1>3 DEF Rooted
<1>5. \A m, n \in N : \E b \in N : BranchPoint(b, m, n)
  BY DEF Branching
<1>6. Len(D) \in Nat /\ Len(tokens) \in Nat
  BY <1>1
<1> HIDE DEF N, D, k, mid, c
\* Part-way down an edge: how the query and the new node part from any node.
<1>7. ASSUME MidEdge(t, tokens) # {}, NEW n \in N, NEW b \in N, BranchPoint(b, c, n)
      PROVE  /\ \E x \in {b, mid} : BranchPoint(x, tokens, n)
             /\ \E x \in {b, mid} : BranchPoint(x, mid, n)
  <2>1. /\ b \in Seq(T) /\ c \in Seq(T) /\ n \in Seq(T)
        /\ IsPrefix(b, c) /\ IsPrefix(b, n) /\ Len(b) <= Len(n) /\ Len(b) <= Len(c)
        /\ Len(b) \in Nat /\ Len(c) \in Nat /\ Len(n) \in Nat
    BY <1>2, <1>4, <1>7, PrefixOrder DEF BranchPoint
  <2>2. Len(D) < k /\ k < Len(c) /\ \A i \in 1 .. k : c[i] = tokens[i] /\ mid[i] = tokens[i]
    BY <1>2, <1>3, <1>7
  <2>3. b = c \/ Len(b) <= Len(D)
    <3>1. SUFFICES ASSUME Len(D) < Len(b), b # c PROVE FALSE
      BY <1>6, <2>1
    <3>2. IsStrictPrefix(D, c)
      BY <1>2, <1>7 DEF Children
    <3>3. IsPrefix(D, c) /\ IsPrefix(D, b)
      BY <1>1, <2>1, <3>1, <3>2, PrefixOrder
    <3>4. IsStrictPrefix(D, b) /\ IsStrictPrefix(b, c)
      BY <1>1, <2>1, <3>1, <3>3, PrefixOrder
    <3> QED BY <1>2, <1>7, <3>4 DEF Children, N
  <2>4. CASE b = c
    <3>1. \A i \in 1 .. k : mid[i] = n[i]
      <4>1. \A i \in 1 .. Len(c) : c[i] = n[i]
        BY <2>1, <2>4, PrefixPointwise
      <4> QED BY <1>2, <2>1, <2>2, <4>1
    <3>2. IsPrefix(mid, n)
      BY <1>2, <1>3, <2>1, <2>2, <2>4, <3>1, PrefixPointwise
    <3>3. c[k + 1] = n[k + 1]
      BY <1>2, <2>1, <2>2, <2>4, PrefixPointwise
    <3>4. k = Len(tokens) \/ tokens[k + 1] # n[k + 1]
      BY <1>2, <1>6, <1>7, <3>3
    <3>5. BranchPoint(mid, tokens, n)
      BY <1>3, <3>2, <3>4 DEF BranchPoint
    <3>6. BranchPoint(mid, mid, n)
      BY <1>3, <3>2, PrefixOrder DEF BranchPoint
    <3> QED BY <3>5, <3>6
  <2>5. CASE Len(b) <= Len(D)
    <3>1. \A i \in 1 .. Len(b) : b[i] = tokens[i] /\ b[i] = mid[i]
      BY <1>2, <1>6, <2>1, <2>2, <2>5, PrefixPointwise
    <3>2. IsPrefix(b, tokens) /\ IsPrefix(b, mid)
      BY <1>2, <1>3, <1>6, <2>1, <2>2, <2>5, <3>1, PrefixPointwise
    <3>3. Len(b) = Len(n) \/ c[Len(b) + 1] # n[Len(b) + 1]
      BY <1>2, <1>6, <1>7, <2>1, <2>2, <2>5 DEF BranchPoint
    <3>4. c[Len(b) + 1] = tokens[Len(b) + 1] /\ c[Len(b) + 1] = mid[Len(b) + 1]
      BY <1>2, <1>6, <2>1, <2>2, <2>5
    <3> QED BY <2>1, <3>2, <3>3, <3>4 DEF BranchPoint
  <2> QED BY <2>3, <2>4, <2>5
<1>8. ASSUME NEW n \in N PROVE \E b \in M : BranchPoint(b, tokens, n)
  <2>1. CASE MidEdge(t, tokens) = {}
    <3>1. PICK b \in N : BranchPoint(b, D, n)
      BY <1>1, <1>5
    <3>2. b \in Seq(T) /\ n \in Seq(T) /\ IsPrefix(b, D) /\ IsPrefix(b, n) /\ Len(b) <= Len(D)
          /\ Len(b) \in Nat /\ Len(n) \in Nat /\ Len(b) <= Len(n)
      BY <1>1, <1>4, <3>1, PrefixOrder DEF BranchPoint
    <3>3. IsPrefix(b, tokens)
      BY <1>1, <3>2, PrefixOrder
    <3>4. CASE Len(b) < Len(D) /\ Len(b) # Len(n)
      <4>1. D[Len(b) + 1] # n[Len(b) + 1]
        BY <3>1, <3>4 DEF BranchPoint
      <4>2. D[Len(b) + 1] = tokens[Len(b) + 1]
        BY <1>1, <1>6, <3>2, <3>4, PrefixPointwise
      <4> QED BY <3>2, <3>3, <4>1, <4>2 DEF BranchPoint
    <3>5. CASE Len(b) = Len(n)
      BY <3>2, <3>3, <3>5 DEF BranchPoint
    <3>6. CASE Len(b) = Len(D) /\ Len(b) # Len(n)
      <4>1. b = D /\ Len(D) < Len(n)
        BY <1>1, <3>2, <3>6, PrefixOrder
      <4>2. Len(D) < Len(tokens) => n[Len(D) + 1] # tokens[Len(D) + 1]
        BY <1>2, <2>1, <3>2, <4>1
      <4>3. Len(D) <= Len(tokens)
        BY <1>1, PrefixOrder
      <4> QED BY <1>6, <3>2, <3>3, <4>1, <4>2, <4>3 DEF BranchPoint
    <3> QED BY <3>2, <3>4, <3>5, <3>6, <1>6
  <2>2. CASE MidEdge(t, tokens) # {}
    <3>1. PICK b \in N : BranchPoint(b, c, n)
      BY <1>2, <1>5, <2>2
    <3>2. \E x \in {b, mid} : BranchPoint(x, tokens, n)
      BY <1>7, <2>2, <3>1
    <3> QED BY <3>2
  <2> QED BY <2>1, <2>2
<1>9. ASSUME NEW n \in N PROVE \E b \in M : BranchPoint(b, mid, n)
  <2>1. CASE MidEdge(t, tokens) = {}
    BY <1>1, <1>2, <1>5, <2>1
  <2>2. CASE MidEdge(t, tokens) # {}
    <3>1. PICK b \in N : BranchPoint(b, c, n)
      BY <1>2, <1>5, <2>2
    <3>2. \E x \in {b, mid} : BranchPoint(x, mid, n)
      BY <1>7, <2>2, <3>1
    <3> QED BY <3>2
  <2> QED BY <2>1, <2>2
<1>10. \A x \in Seq(T) : BranchPoint(x, x, x)
  BY PrefixOrder DEF BranchPoint
<1>11. BranchPoint(mid, mid, tokens)
  BY <1>3, PrefixOrder DEF BranchPoint
<1>12. \A b, x, y : BranchPoint(b, x, y) => BranchPoint(b, y, x)
  BY DEF BranchPoint
<1>13. ASSUME NEW x \in M, NEW y \in M PROVE \E b \in M : BranchPoint(b, x, y)
  <2>1. CASE x \in N /\ y \in N
    BY <1>5, <2>1
  <2>2. CASE x \in N /\ y \in {mid, tokens}
    BY <1>8, <1>9, <1>12, <2>2
  <2>3. CASE x \in {mid, tokens} /\ y \in N
    BY <1>8, <1>9, <2>3
  <2>4. CASE x \in {mid, tokens} /\ y \in {mid, tokens}
    BY <1>3, <1>10, <1>11, <1>12, <2>4
  <2> QED BY <2>1, <2>2, <2>3, <2>4
<1> QED BY <1>13 DEF Branching, N, mid, k

\* Nothing leaves a tree inside an edge: a node that shares more than the upper
\* end of an edge lies below its lower end.
LEMMA EdgeHasNoExit ==
  ASSUME NEW t, NEW T, Rooted(t, T), Branching(Nodes(t)),
         NEW n \in Nodes(t), NEW c \in Children(t, n), NEW m \in Nodes(t),
         NEW x \in Seq(T), Len(n) < Len(x), IsPrefix(x, c), IsPrefix(x, m)
  PROVE  IsPrefix(c, m)
<1>1. PICK b \in Nodes(t) : BranchPoint(b, c, m)
  BY DEF Branching, Children
<1>2. /\ b \in Seq(T) /\ c \in Seq(T) /\ n \in Seq(T) /\ m \in Seq(T)
      /\ IsStrictPrefix(n, c) /\ IsPrefix(b, c) /\ IsPrefix(b, m)
  BY <1>1 DEF Rooted, Children, BranchPoint
<1>3. /\ Len(b) \in Nat /\ Len(c) \in Nat /\ Len(n) \in Nat /\ Len(m) \in Nat /\ Len(x) \in Nat
      /\ Len(x) <= Len(c) /\ Len(x) <= Len(m) /\ Len(b) <= Len(c) /\ Len(b) <= Len(m)
      /\ IsPrefix(n, c)
  BY <1>2, PrefixOrder
<1>4. ~(Len(b) < Len(x))
  <2>1. SUFFICES ASSUME Len(b) < Len(x) PROVE FALSE
    OBVIOUS
  <2>2. c[Len(b) + 1] # m[Len(b) + 1]
    BY <1>1, <1>3, <2>1 DEF BranchPoint
  <2>3. x[Len(b) + 1] = c[Len(b) + 1] /\ x[Len(b) + 1] = m[Len(b) + 1]
    BY <1>2, <1>3, <2>1, PrefixPointwise
  <2> QED BY <2>2, <2>3
<1>5. IsPrefix(n, b) /\ Len(n) < Len(b)
  BY <1>2, <1>3, <1>4, PrefixOrder
<1>6. b = c
  <2>1. SUFFICES ASSUME b # c PROVE FALSE
    OBVIOUS
  <2>2. IsStrictPrefix(n, b) /\ IsStrictPrefix(b, c)
    BY <1>2, <1>5, <2>1, PrefixOrder DEF IsStrictPrefix
  <2> QED BY <1>1, <2>2 DEF Children
<1> QED BY <1>2, <1>6

\* Inserting a path, a split included, keeps residents on every node above.
LEMMA ExtendedLayered ==
  ASSUME NEW t, NEW T, Rooted(t, T), Branching(Nodes(t)), Layered(t.residents),
         \A n \in Nodes(t) : \A r \in DOMAIN t.residents[n] : t.residents[n][r] \in Int,
         NEW tokens \in Seq(T)
  PROVE  LET grown == Extended(t, tokens)
             mid   == SubSeq(tokens, 1, Matched(t, tokens))
         IN  /\ DOMAIN grown = Nodes(t) \cup {mid, tokens}
             /\ DOMAIN grown \subseteq Seq(T)
             /\ \A n \in Nodes(t) : grown[n] = t.residents[n]
             /\ \A n \in DOMAIN grown :
                  \/ grown[n] = NoResidents
                  \/ \E m \in Nodes(t) :
                       m # <<>> /\ IsPrefix(n, m) /\ grown[n] = t.residents[m]
                  \/ n = <<>> /\ grown[n] = t.residents[n]
             /\ \A n \in DOMAIN grown : \E p \in Nodes(t) \cup {tokens} : IsPrefix(n, p)
             /\ Branching(DOMAIN grown)
             /\ Layered(grown)
<1> DEFINE N   == Nodes(t)
           R   == t.residents
           D   == Deepest(t, tokens)
           k   == Matched(t, tokens)
           mid == SubSeq(tokens, 1, k)
           c   == CHOOSE x \in MidEdge(t, tokens) : TRUE
           grown == Extended(t, tokens)
<1>1. /\ D \in N /\ D \in Seq(T) /\ IsPrefix(D, tokens)
  BY DeepestIsLongest
<1>2. /\ k \in Nat /\ Len(D) <= k /\ k <= Len(tokens)
      /\ MidEdge(t, tokens) = {} =>
           /\ k = Len(D) /\ mid = D
           /\ \A m \in N :
                IsPrefix(D, m) /\ Len(D) < Len(m) /\ Len(D) < Len(tokens)
                  => m[Len(D) + 1] # tokens[Len(D) + 1]
      /\ MidEdge(t, tokens) # {} =>
           /\ c \in Children(t, D) /\ c \in N /\ c \in Seq(T)
           /\ Len(D) < k /\ k < Len(c)
           /\ \A i \in 1 .. k : c[i] = tokens[i]
           /\ k < Len(tokens) => c[k + 1] # tokens[k + 1]
  BY WalkStops
<1>3. /\ mid \in Seq(T) /\ Len(mid) = k /\ IsPrefix(mid, tokens)
      /\ \A i \in 1 .. k : mid[i] = tokens[i]
  BY <1>2, CutIsPrefix
<1>4. N \subseteq Seq(T) /\ <<>> \in N /\ DOMAIN R = N
  BY DEF Rooted, Nodes
<1>5. /\ DOMAIN grown = N \cup {mid, tokens}
      /\ \A n \in N : grown[n] = R[n]
      /\ mid \notin N => grown[mid] = R[c]
      /\ tokens \notin N /\ tokens # mid => grown[tokens] = NoResidents
  BY DEF Extended
<1>6. Branching(N \cup {mid, tokens})
  BY InsertBranching
<1>7. Len(D) \in Nat /\ Len(tokens) \in Nat
  BY <1>1
<1>8. \A n \in N : \A r \in DOMAIN R[n] : R[n][r] \in Int
  OBVIOUS
<1>9. \A n, m \in N : n # <<>> /\ IsPrefix(n, m) =>
        \A r \in DOMAIN R[m] : r \in DOMAIN R[n] /\ R[n][r] >= R[m][r]
  BY <1>4 DEF Layered
<1>10. ASSUME MidEdge(t, tokens) # {}, NEW m \in N, IsPrefix(mid, m)
       PROVE  IsPrefix(c, m)
  <2>1. IsPrefix(mid, c)
    <3> HIDE DEF mid, c, k, D, N
    <3> QED BY <1>2, <1>3, <1>10, PrefixPointwise
  <2>2. c \in Children(t, D) /\ Len(D) < Len(mid) /\ m \in Nodes(t) /\ D \in Nodes(t)
    BY <1>1, <1>2, <1>3, <1>10
  <2> HIDE DEF mid, c, k, D, N
  <2> QED BY <1>3, <1>10, <2>1, <2>2, EdgeHasNoExit
<1> HIDE DEF N, R, D, k, mid, c, grown
<1>11. mid \notin N => MidEdge(t, tokens) # {} /\ c # <<>> /\ IsPrefix(mid, c) /\ mid # <<>>
  <2>1. SUFFICES ASSUME mid \notin N PROVE MidEdge(t, tokens) # {} /\ c # <<>> /\ IsPrefix(mid, c) /\ mid # <<>>
    OBVIOUS
  <2>2. MidEdge(t, tokens) # {} /\ mid # <<>>
    BY <1>1, <1>2, <1>4, <2>1
  <2>3. Len(c) > 0
    BY <1>2, <1>7, <2>2
  <2>4. IsPrefix(mid, c)
    BY <1>2, <1>3, <2>2, PrefixPointwise
  <2> QED BY <2>2, <2>3, <2>4
<1>12. ASSUME NEW n \in DOMAIN grown, NEW m \in DOMAIN grown, n # <<>>, IsPrefix(n, m),
              NEW r \in DOMAIN grown[m]
       PROVE  r \in DOMAIN grown[n] /\ grown[n][r] >= grown[m][r]
  <2>1. CASE n \in N /\ m \in N
    BY <1>5, <1>9, <1>12, <2>1
  <2>2. CASE m = tokens /\ m \notin N /\ m # mid
    BY <1>5, <1>12, <2>2 DEF NoResidents
  <2>3. CASE m = mid /\ m \notin N
    <3>1. grown[m] = R[c] /\ c \in N /\ MidEdge(t, tokens) # {}
      BY <1>2, <1>5, <1>11, <2>3
    <3>2. CASE n \in N
      <4>1. IsPrefix(n, c)
        BY <1>2, <1>3, <1>4, <1>11, <1>12, <2>3, <3>1, <3>2, PrefixOrder
      <4> QED BY <1>5, <1>9, <1>12, <3>1, <3>2, <4>1
    <3>3. CASE n = mid
      BY <1>8, <1>12, <2>3, <3>1, <3>3
    <3>4. CASE n = tokens
      <4>1. n = mid
        BY <1>3, <1>12, <2>3, <3>4, PrefixOrder
      <4> QED BY <3>3, <4>1
    <3> QED BY <1>5, <3>2, <3>3, <3>4
  <2>4. CASE m \in N /\ n = mid /\ n \notin N
    <3>1. grown[n] = R[c] /\ c \in N /\ c # <<>> /\ MidEdge(t, tokens) # {}
      BY <1>2, <1>5, <1>11, <2>4
    <3>2. IsPrefix(c, m)
      BY <1>10, <1>12, <2>4, <3>1
    <3> QED BY <1>5, <1>9, <1>12, <2>4, <3>1, <3>2
  <2>5. CASE m \in N /\ n = tokens /\ n \notin N /\ n # mid
    <3>1. m \in Seq(T) /\ Len(m) \in Nat /\ Len(tokens) <= Len(m)
          /\ \A i \in 1 .. Len(tokens) : tokens[i] = m[i]
      BY <1>4, <1>12, <2>5, PrefixPointwise
    <3>2. k < Len(tokens)
      <4>1. SUFFICES ASSUME k = Len(tokens) PROVE FALSE
        BY <1>2, <1>7
      <4>2. mid = tokens
        BY <1>3, <4>1, PrefixOrder
      <4> QED BY <2>5, <4>2
    <3>3. CASE MidEdge(t, tokens) = {}
      <4>1. IsPrefix(D, m) /\ Len(D) < Len(m) /\ Len(D) < Len(tokens)
        BY <1>1, <1>2, <1>4, <1>7, <1>12, <2>5, <3>1, <3>2, <3>3, PrefixOrder
      <4> QED BY <1>2, <1>7, <2>5, <3>1, <3>3, <4>1
    <3>4. CASE MidEdge(t, tokens) # {}
      <4>1. IsPrefix(mid, m)
        BY <1>3, <1>4, <1>12, <2>5, PrefixOrder
      <4>2. IsPrefix(c, m)
        BY <1>10, <2>5, <3>4, <4>1
      <4>3. \A i \in 1 .. Len(c) : c[i] = m[i]
        BY <1>2, <3>1, <3>4, <4>2, PrefixPointwise
      <4>4. c[k + 1] = m[k + 1]
        BY <1>2, <3>4, <4>3
      <4> QED BY <1>2, <1>7, <3>1, <3>2, <3>4, <4>4
    <3> QED BY <3>3, <3>4
  <2> QED BY <1>5, <2>1, <2>2, <2>3, <2>4, <2>5
<1>13. Layered(grown)
  BY <1>12 DEF Layered
<1>14. ASSUME NEW n \in DOMAIN grown
       PROVE  /\ \/ grown[n] = NoResidents
                 \/ \E m \in N : m # <<>> /\ IsPrefix(n, m) /\ grown[n] = R[m]
                 \/ n = <<>> /\ grown[n] = R[n]
              /\ \E p \in N \cup {tokens} : IsPrefix(n, p)
  <2>1. CASE n \in N
    BY <1>4, <1>5, <2>1, PrefixOrder
  <2>2. CASE n = mid /\ n \notin N
    BY <1>2, <1>3, <1>5, <1>11, <2>2
  <2>3. CASE n = tokens /\ n \notin N /\ n # mid
    BY <1>5, <2>3, PrefixOrder
  <2> QED BY <1>5, <2>1, <2>2, <2>3
<1> QED BY <1>3, <1>4, <1>5, <1>6, <1>13, <1>14 DEF N, R, mid, k, grown

----------------------------------------------------------------------------
\* What every method of the tree keeps: T are the tokens, P the prompts, A the
\* replicas that may be resident, h the time by now.
Timed(residents, A, h) ==
  \A n \in DOMAIN residents :
    /\ residents[n] \in [DOMAIN residents[n] -> 0 .. h]
    /\ DOMAIN residents[n] \subseteq A

Sound(t, T, P, A, h) ==
  /\ DOMAIN t = {"residents", "tokens_used"}
  /\ Rooted(t, T) /\ t.residents[<<>>] = NoResidents
  /\ \A n \in Nodes(t) : \E p \in P \cup {<<>>} : IsPrefix(n, p)
  /\ Timed(t.residents, A, h)
  /\ t.tokens_used \in [DOMAIN t.tokens_used -> Int]
  /\ DOMAIN t.tokens_used \subseteq A
  /\ Branching(Nodes(t))
  /\ Layered(t.residents)

LEMMA EmptySound ==
  ASSUME NEW T, NEW P, NEW A, NEW h \in Nat
  PROVE  Sound(EmptyTree, T, P, A, h)
<1>1. Nodes(EmptyTree) = {<<>>} /\ EmptyTree.residents[<<>>] = NoResidents
  BY DEF EmptyTree, Nodes
<1>2. <<>> \in Seq(T) /\ IsPrefix(<<>>, <<>>)
  BY EmptySeq, PrefixOrder
<1>3. Branching({<<>>})
  BY <1>2 DEF Branching, BranchPoint
<1> QED
  BY <1>1, <1>2, <1>3 DEF Sound, Rooted, Timed, Layered, EmptyTree, NoResidents

\* Time may pass, and replicas may join.
LEMMA SoundLater ==
  ASSUME NEW t, NEW T, NEW P, NEW A, NEW h \in Nat, NEW g \in Nat, h <= g, Sound(t, T, P, A, h)
  PROVE  Sound(t, T, P, A, g)
<1>1. 0 .. h \subseteq 0 .. g
  OBVIOUS
<1>2. Timed(t.residents, A, g)
  BY <1>1 DEF Sound, Timed
<1> QED BY <1>2 DEF Sound

LEMMA SoundMore ==
  ASSUME NEW t, NEW T, NEW P, NEW A, NEW B, NEW h, A \subseteq B, Sound(t, T, P, A, h)
  PROVE  Sound(t, T, P, B, h)
<1>1. Timed(t.residents, B, h)
  BY DEF Sound, Timed
<1> QED BY <1>1 DEF Sound

\* Children of one node differ in the first token of their edges.
LEMMA SiblingsPart ==
  ASSUME NEW t, NEW T, Rooted(t, T), Branching(Nodes(t)), NEW n \in Nodes(t),
         NEW c \in Children(t, n), NEW d \in Children(t, n),
         c[Len(n) + 1] = d[Len(n) + 1]
  PROVE  c = d
<1>1. /\ Nodes(t) \subseteq Seq(T) /\ n \in Seq(T) /\ c \in Nodes(t) /\ d \in Nodes(t)
      /\ c \in Seq(T) /\ d \in Seq(T)
  BY DEF Rooted, Children
<1>2. /\ IsPrefix(n, c) /\ Len(n) < Len(c)
      /\ IsPrefix(n, d) /\ Len(n) < Len(d)
  BY <1>1, PrefixOrder DEF Children
<1>3. PICK b \in Nodes(t) : BranchPoint(b, c, d)
  BY <1>1 DEF Branching
<1>4. b \in Seq(T) /\ IsPrefix(b, c) /\ IsPrefix(b, d) /\ Len(b) \in Nat /\ Len(n) \in Nat
  BY <1>1, <1>3 DEF BranchPoint
<1>5. Len(b) > Len(n)
  <2>1. CASE Len(b) = Len(n)
    BY <1>2, <1>3, <2>1 DEF BranchPoint
  <2>2. CASE Len(b) < Len(n)
    <3>1. c[Len(b) + 1] = n[Len(b) + 1] /\ d[Len(b) + 1] = n[Len(b) + 1]
      <4>1. /\ \A i \in 1 .. Len(n) : n[i] = c[i]
            /\ \A i \in 1 .. Len(n) : n[i] = d[i]
        BY <1>1, <1>2, PrefixPointwise
      <4> QED BY <1>4, <2>2, <4>1
    <3> QED BY <1>2, <1>3, <1>4, <2>2, <3>1 DEF BranchPoint
  <2> QED BY <1>4, <2>1, <2>2
<1>6. IsStrictPrefix(n, b)
  BY <1>1, <1>2, <1>4, <1>5, PrefixOrder
<1>7. b = c
  BY <1>1, <1>4, <1>6, PrefixOrder DEF Children
<1>8. b = d
  BY <1>1, <1>4, <1>6, PrefixOrder DEF Children
<1> QED BY <1>7, <1>8

\* Adding an entry to a partial function.
LEMMA PutFacts ==
  ASSUME NEW f, NEW k, NEW v
  PROVE  /\ DOMAIN Put(f, k, v) = DOMAIN f \cup {k}
         /\ Put(f, k, v)[k] = v
         /\ \A x \in DOMAIN f : x # k => Put(f, k, v)[x] = f[x]
         /\ \A S : f \in [DOMAIN f -> S] /\ v \in S => Put(f, k, v) \in [DOMAIN f \cup {k} -> S]
BY DEF Put

LEMMA DropFacts ==
  ASSUME NEW f, NEW k
  PROVE  /\ DOMAIN Drop(f, k) = DOMAIN f \ {k}
         /\ \A x \in DOMAIN f \ {k} : Drop(f, k)[x] = f[x]
         /\ \A S : f \in [DOMAIN f -> S] => Drop(f, k) \in [DOMAIN f \ {k} -> S]
BY DEF Drop

\* insert() up to the eviction loop.
LEMMA InsertSound ==
  ASSUME NEW t, NEW T, NEW P, NEW A, NEW h \in Nat, P \subseteq Seq(T),
         Sound(t, T, P, A, h),
         NEW tokens \in P, NEW r \in A, NEW at \in Nat, h <= at
  PROVE  Sound(InsertPath(t, tokens, r, at), T, P, A, at)
<1> DEFINE G == Extended(t, tokens)
           M == Mark(G, tokens, r, at)
           u == InsertPath(t, tokens, r, at)
<1>1. tokens \in Seq(T) /\ Rooted(t, T) /\ Branching(Nodes(t)) /\ Layered(t.residents)
      /\ Timed(t.residents, A, h) /\ DOMAIN t.residents = Nodes(t)
  BY DEF Sound, Nodes
<1>2. \A n \in Nodes(t) : \A s \in DOMAIN t.residents[n] : t.residents[n][s] \in Int
  BY <1>1 DEF Timed
<1>3. /\ DOMAIN G = Nodes(t) \cup {SubSeq(tokens, 1, Matched(t, tokens)), tokens}
      /\ DOMAIN G \subseteq Seq(T)
      /\ \A n \in Nodes(t) : G[n] = t.residents[n]
      /\ \A n \in DOMAIN G :
           \/ G[n] = NoResidents
           \/ \E m \in Nodes(t) : m # <<>> /\ IsPrefix(n, m) /\ G[n] = t.residents[m]
           \/ n = <<>> /\ G[n] = t.residents[n]
      /\ \A n \in DOMAIN G : \E p \in Nodes(t) \cup {tokens} : IsPrefix(n, p)
      /\ Branching(DOMAIN G)
      /\ Layered(G)
  BY <1>1, <1>2, ExtendedLayered
<1> HIDE DEF G
<1>4. Timed(G, A, h)
  <2>1. NoResidents \in [DOMAIN NoResidents -> 0 .. h] /\ DOMAIN NoResidents \subseteq A
    BY DEF NoResidents
  <2>2. \A n \in DOMAIN G : \/ G[n] = NoResidents
                           \/ \E m \in Nodes(t) : G[n] = t.residents[m]
    BY <1>1, <1>3 DEF Rooted
  <2> QED BY <1>1, <2>1, <2>2 DEF Timed
<1>5. /\ DOMAIN M = DOMAIN G
      /\ \A n \in DOMAIN G : M[n] = IF n # <<>> /\ IsPrefix(n, tokens)
                                  THEN Put(G[n], r, at) ELSE G[n]
  BY DEF Mark
<1>6. /\ u.residents = M /\ Nodes(u) = DOMAIN M /\ DOMAIN u = {"residents", "tokens_used"}
      /\ u.tokens_used = Put(t.tokens_used, r, Used(t, r) + Cardinality(Novel(G, tokens, r)))
  BY DEF InsertPath, Nodes, G
<1> HIDE DEF M, u
<1>7. Timed(M, A, at)
  <2>1. ASSUME NEW n \in DOMAIN M
        PROVE  M[n] \in [DOMAIN M[n] -> 0 .. at] /\ DOMAIN M[n] \subseteq A
    <3>1. G[n] \in [DOMAIN G[n] -> 0 .. at] /\ DOMAIN G[n] \subseteq A
      BY <1>4, <1>5 DEF Timed
    <3>2. at \in 0 .. at
      OBVIOUS
    <3>3. Put(G[n], r, at) \in [DOMAIN G[n] \cup {r} -> 0 .. at]
      BY <3>1, <3>2 DEF Put
    <3> QED BY <1>5, <2>1, <3>1, <3>3
  <2> QED BY <2>1 DEF Timed
<1>8. Layered(M)
  <2>1. ASSUME NEW n \in DOMAIN M, NEW m \in DOMAIN M, n # <<>>, IsPrefix(n, m),
               NEW s \in DOMAIN M[m]
        PROVE  s \in DOMAIN M[n] /\ M[n][s] >= M[m][s]
    <3>1. m # <<>>
      BY <1>3, <1>5, <2>1, PrefixOrder
    <3>2. s \in DOMAIN G[m] => s \in DOMAIN G[n] /\ G[n][s] >= G[m][s]
      BY <1>3, <1>5, <2>1 DEF Layered
    <3>3. s \in DOMAIN G[m] => G[m][s] \in Int /\ G[m][s] <= at
      BY <1>4, <1>5, <2>1 DEF Timed
    <3>4. CASE IsPrefix(m, tokens)
      <4>1. IsPrefix(n, tokens)
        BY <1>1, <1>3, <1>5, <2>1, <3>4, PrefixOrder
      <4>2. M[n] = Put(G[n], r, at) /\ M[m] = Put(G[m], r, at)
        BY <1>5, <2>1, <3>1, <3>4, <4>1
      <4>3. M[n][r] = at /\ r \in DOMAIN M[n] /\ M[m][r] = at
        BY <4>2 DEF Put
      <4>4. s # r => s \in DOMAIN G[m] /\ M[m][s] = G[m][s]
        BY <2>1, <4>2 DEF Put
      <4>5. s # r /\ s \in DOMAIN G[n] => s \in DOMAIN M[n] /\ M[n][s] = G[n][s]
        BY <4>2 DEF Put
      <4> QED BY <3>2, <4>3, <4>4, <4>5
    <3>5. CASE ~IsPrefix(m, tokens)
      <4>1. M[m] = G[m] /\ (M[n] = Put(G[n], r, at) \/ M[n] = G[n])
        BY <1>5, <2>1, <3>5
      <4>2. s \in DOMAIN G[n] /\ G[n][s] >= M[m][s] /\ M[m][s] <= at
        BY <2>1, <3>2, <3>3, <4>1
      <4>3. CASE M[n] = G[n]
        BY <4>2, <4>3
      <4>4. CASE M[n] = Put(G[n], r, at)
        <5>1. s \in DOMAIN M[n] /\ (M[n][s] = at \/ M[n][s] = G[n][s])
          BY <4>2, <4>4 DEF Put
        <5> QED BY <2>1, <3>3, <4>1, <4>2, <5>1
      <4> QED BY <4>1, <4>3, <4>4
    <3> QED BY <3>4, <3>5
  <2> QED BY <2>1 DEF Layered
<1>9. \A n \in DOMAIN M : \E p \in P \cup {<<>>} : IsPrefix(n, p)
  <2>1. ASSUME NEW n \in DOMAIN M PROVE \E p \in P \cup {<<>>} : IsPrefix(n, p)
    <3>1. PICK m \in Nodes(t) \cup {tokens} : IsPrefix(n, m)
      BY <1>3, <1>5
    <3>2. PICK p \in P \cup {<<>>} : IsPrefix(m, p)
      BY <1>1, PrefixOrder DEF Sound
    <3>3. n \in Seq(T) /\ m \in Seq(T) /\ p \in Seq(T)
      BY <1>1, <1>3, <1>5, EmptySeq DEF Rooted
    <3> QED BY <3>1, <3>2, <3>3, PrefixOrder
  <2> QED BY <2>1
<1>10. u.tokens_used \in [DOMAIN u.tokens_used -> Int] /\ DOMAIN u.tokens_used \subseteq A
  <2>1. Used(t, r) \in Int
    BY DEF Used, Sound
  <2>2. Cardinality(Novel(G, tokens, r)) \in Int
    <3>1. IsFiniteSet(1 .. Len(tokens)) /\ Novel(G, tokens, r) \subseteq 1 .. Len(tokens)
      BY <1>1, FS_Interval DEF Novel
    <3> QED BY <3>1, FS_Subset, FS_CardinalityType
  <2>3. Used(t, r) + Cardinality(Novel(G, tokens, r)) \in Int
    BY <2>1, <2>2
  <2>4. t.tokens_used \in [DOMAIN t.tokens_used -> Int] /\ DOMAIN t.tokens_used \subseteq A
    BY DEF Sound
  <2>5. u.tokens_used \in [DOMAIN t.tokens_used \cup {r} -> Int]
    BY <1>6, <2>3, <2>4 DEF Put
  <2> QED BY <2>4, <2>5
<1>11. M[<<>>] = NoResidents /\ <<>> \in DOMAIN M /\ DOMAIN M \subseteq Seq(T)
  BY <1>1, <1>3, <1>5 DEF Sound, Rooted
<1>12. Rooted(u, T) /\ u.residents[<<>>] = NoResidents /\ Branching(Nodes(u))
  BY <1>3, <1>5, <1>6, <1>11 DEF Rooted
<1>13. Sound(u, T, P, A, at)
  BY <1>6, <1>7, <1>8, <1>9, <1>10, <1>12 DEF Sound
<1> QED BY <1>13 DEF u

\* touch(): a node that is refreshed lies on the path, and so do all above it.
LEMMA TouchSound ==
  ASSUME NEW t, NEW T, NEW P, NEW A, NEW h \in Nat, P \subseteq Seq(T),
         Sound(t, T, P, A, h),
         NEW tokens \in P, NEW r, NEW at \in Nat, h <= at
  PROVE  Sound(Touched(t, tokens, r, at), T, P, A, at)
<1> DEFINE R == t.residents
           u == Touched(t, tokens, r, at)
           M == u.residents
<1>1. tokens \in Seq(T) /\ Rooted(t, T) /\ Layered(R) /\ Timed(R, A, h)
      /\ Nodes(t) = DOMAIN R /\ R[<<>>] = NoResidents
  BY DEF Sound, Nodes
<1>2. /\ DOMAIN u = {"residents", "tokens_used"} /\ u.tokens_used = t.tokens_used
      /\ DOMAIN M = Nodes(t) /\ Nodes(u) = Nodes(t)
      /\ \A n \in Nodes(t) : M[n] = IF n # <<>> /\ IsPrefix(n, tokens) /\ r \in DOMAIN R[n]
                                  THEN Put(R[n], r, at) ELSE R[n]
  BY DEF Touched, Sound, Nodes, Holds
<1> HIDE DEF u
<1>3. ASSUME NEW n \in Nodes(t)
      PROVE  /\ DOMAIN M[n] = DOMAIN R[n] /\ DOMAIN M[n] \subseteq A
             /\ M[n] \in [DOMAIN M[n] -> 0 .. at]
  <2>1. R[n] \in [DOMAIN R[n] -> 0 .. at] /\ DOMAIN R[n] \subseteq A
    BY <1>1 DEF Timed
  <2>2. CASE M[n] = R[n]
    BY <2>1, <2>2
  <2>3. CASE r \in DOMAIN R[n] /\ M[n] = Put(R[n], r, at)
    <3>1. Put(R[n], r, at) \in [DOMAIN R[n] \cup {r} -> 0 .. at]
      BY <2>1 DEF Put
    <3>2. DOMAIN R[n] \cup {r} = DOMAIN R[n]
      BY <2>3
    <3> QED BY <2>1, <2>3, <3>1, <3>2
  <2> QED BY <1>2, <2>2, <2>3
<1>4. Layered(M)
  <2>1. ASSUME NEW n \in Nodes(t), NEW m \in Nodes(t), n # <<>>, IsPrefix(n, m),
               NEW s \in DOMAIN M[m]
        PROVE  s \in DOMAIN M[n] /\ M[n][s] >= M[m][s]
    <3>1. s \in DOMAIN R[n] /\ s \in DOMAIN R[m] /\ R[n][s] >= R[m][s]
      BY <1>1, <1>3, <2>1 DEF Layered
    <3>2. R[m][s] \in Int /\ R[m][s] <= at /\ R[n][s] \in Int
      BY <1>1, <3>1 DEF Timed
    <3>3. s \in DOMAIN M[n]
      BY <1>3, <3>1
    <3>4. CASE m # <<>> /\ IsPrefix(m, tokens) /\ r \in DOMAIN R[m] /\ s = r
      <4>1. IsPrefix(n, tokens)
        BY <1>1, <2>1, <3>4, PrefixOrder DEF Rooted
      <4>2. M[n] = Put(R[n], r, at) /\ M[m] = Put(R[m], r, at)
        BY <1>2, <2>1, <3>1, <3>4, <4>1
      <4>3. M[n][s] = at /\ M[m][s] = at
        BY <3>4, <4>2 DEF Put
      <4> QED BY <3>3, <4>3
    <3>5. CASE ~(m # <<>> /\ IsPrefix(m, tokens) /\ r \in DOMAIN R[m] /\ s = r)
      <4>1. M[m][s] = R[m][s]
        BY <1>2, <3>1, <3>5 DEF Put
      <4>2. M[n][s] = R[n][s] \/ M[n][s] = at
        BY <1>2, <3>1 DEF Put
      <4> QED BY <3>1, <3>2, <3>3, <4>1, <4>2
    <3> QED BY <3>4, <3>5
  <2> QED BY <1>2, <2>1 DEF Layered
<1>5. Rooted(u, T) /\ M[<<>>] = NoResidents /\ Branching(Nodes(u))
  BY <1>1, <1>2 DEF Sound, Rooted
<1>6. Timed(M, A, at)
  BY <1>2, <1>3 DEF Timed
<1>7. Sound(u, T, P, A, at)
  BY <1>2, <1>4, <1>5, <1>6 DEF Sound
<1> QED BY <1>7 DEF u

\* remove_replica(): afterwards no node names the replica.
LEMMA ForgetSound ==
  ASSUME NEW t, NEW T, NEW P, NEW A, NEW h \in Nat, Sound(t, T, P, A, h), NEW r
  PROVE  Sound(Forgotten(t, r), T, P, A \ {r}, h)
<1> DEFINE R == t.residents
           u == Forgotten(t, r)
           M == u.residents
<1>1. Rooted(t, T) /\ Layered(R) /\ Timed(R, A, h) /\ Nodes(t) = DOMAIN R
      /\ R[<<>>] = NoResidents /\ <<>> \in Nodes(t)
  BY DEF Sound, Nodes, Rooted
<1>2. /\ DOMAIN u = {"residents", "tokens_used"} /\ u.tokens_used = Drop(t.tokens_used, r)
      /\ DOMAIN M = Nodes(t) /\ Nodes(u) = Nodes(t)
      /\ \A n \in Nodes(t) : M[n] = Drop(R[n], r)
  BY DEF Forgotten, Nodes
<1> HIDE DEF u
<1>3. \A n \in Nodes(t) : /\ DOMAIN M[n] = DOMAIN R[n] \ {r}
                         /\ \A s \in DOMAIN M[n] : M[n][s] = R[n][s]
  BY <1>2 DEF Drop
<1>4. Layered(M)
  <2>1. ASSUME NEW n \in Nodes(t), NEW m \in Nodes(t), n # <<>>, IsPrefix(n, m),
               NEW s \in DOMAIN M[m]
        PROVE  s \in DOMAIN M[n] /\ M[n][s] >= M[m][s]
    <3>1. s # r /\ s \in DOMAIN R[m] /\ M[m][s] = R[m][s]
      BY <1>3
    <3>2. s \in DOMAIN R[n] /\ R[n][s] >= R[m][s]
      BY <1>1, <2>1, <3>1 DEF Layered
    <3> QED BY <1>3, <3>1, <3>2
  <2> QED BY <1>2, <2>1 DEF Layered
<1>5. Timed(M, A \ {r}, h)
  <2>1. ASSUME NEW n \in Nodes(t)
        PROVE  M[n] \in [DOMAIN M[n] -> 0 .. h] /\ DOMAIN M[n] \subseteq A \ {r}
    <3>1. R[n] \in [DOMAIN R[n] -> 0 .. h] /\ DOMAIN R[n] \subseteq A
      BY <1>1 DEF Timed
    <3>2. Drop(R[n], r) \in [DOMAIN R[n] \ {r} -> 0 .. h]
      BY <3>1 DEF Drop
    <3> QED BY <1>2, <1>3, <3>1, <3>2
  <2> QED BY <1>2, <2>1 DEF Timed
<1>6. u.tokens_used \in [DOMAIN u.tokens_used -> Int] /\ DOMAIN u.tokens_used \subseteq A \ {r}
  <2>1. t.tokens_used \in [DOMAIN t.tokens_used -> Int] /\ DOMAIN t.tokens_used \subseteq A
    BY DEF Sound
  <2>2. Drop(t.tokens_used, r) \in [DOMAIN t.tokens_used \ {r} -> Int]
    BY <2>1 DEF Drop
  <2> QED BY <1>2, <2>1, <2>2
<1>7. M[<<>>] = NoResidents
  <2>1. Drop(NoResidents, r) = NoResidents
    BY DEF Drop, NoResidents
  <2> QED BY <1>1, <1>2, <2>1
<1>8. Rooted(u, T) /\ Branching(Nodes(u))
  BY <1>1, <1>2 DEF Sound, Rooted
<1>9. Sound(u, T, P, A \ {r}, h)
  BY <1>2, <1>4, <1>5, <1>6, <1>7, <1>8 DEF Sound
<1> QED BY <1>9 DEF u

\* Every node but the root has a parent, and so an edge.
LEMMA ParentExists ==
  ASSUME NEW t, NEW T, Rooted(t, T), NEW n \in Nodes(t), n # <<>>
  PROVE  \E p \in Nodes(t) : n \in Children(t, p)
<1> DEFINE Above == {p \in Nodes(t) : IsStrictPrefix(p, n)}
<1>1. n \in Seq(T) /\ <<>> \in Nodes(t) /\ Nodes(t) \subseteq Seq(T)
  BY DEF Rooted
<1>2. Above \subseteq Seq(T) /\ \A p \in Above : Len(p) <= Len(n)
  BY <1>1, PrefixOrder
<1>3. <<>> \in Above
  <2>1. Len(<<>>) < Len(n) /\ IsPrefix(<<>>, n)
    BY <1>1, PrefixOrder, EmptySeq
  <2> QED BY <1>1, <2>1, PrefixOrder
<1>4. PICK p \in Above : \A q \in Above : Len(q) <= Len(p)
  <2>1. Len(n) \in Nat
    BY <1>1
  <2> HIDE DEF Above
  <2> QED BY <1>2, <1>3, <2>1, LongestExists
<1>5. ASSUME NEW m \in Nodes(t), IsStrictPrefix(p, m), IsStrictPrefix(m, n)
      PROVE  FALSE
  <2>1. Len(m) <= Len(p)
    BY <1>4, <1>5
  <2>2. Len(p) < Len(m)
    BY <1>1, <1>5, PrefixOrder
  <2> QED BY <1>1, <2>1, <2>2
<1> QED BY <1>5 DEF Children

\* _evict_one(): a tail has nothing of the replica's below it.
LEMMA EvictSound ==
  ASSUME NEW t, NEW T, NEW P, NEW A, NEW h \in Nat, Sound(t, T, P, A, h),
         NEW r \in A, NEW victim \in Evictable(t, r)
  PROVE  Sound(Evicted(t, r, victim), T, P, A, h)
<1> DEFINE R == t.residents
           u == Evicted(t, r, victim)
           M == u.residents
<1>1. Rooted(t, T) /\ Layered(R) /\ Timed(R, A, h) /\ Nodes(t) = DOMAIN R
      /\ R[<<>>] = NoResidents /\ <<>> \in Nodes(t) /\ Nodes(t) \subseteq Seq(T)
  BY DEF Sound, Nodes, Rooted
<1>2. victim \in Nodes(t) /\ victim # <<>> /\ IsTailFor(t, victim, r)
  BY DEF Evictable
<1>3. /\ DOMAIN u = {"residents", "tokens_used"}
      /\ u.tokens_used = Put(t.tokens_used, r, Used(t, r) - Edge(t, victim))
      /\ DOMAIN M = Nodes(t) /\ Nodes(u) = Nodes(t)
      /\ \A n \in Nodes(t) : M[n] = IF n = victim THEN Drop(R[n], r) ELSE R[n]
  BY <1>1 DEF Evicted, Nodes
<1> HIDE DEF u
<1>4. \A n \in Nodes(t) :
        /\ DOMAIN M[n] = IF n = victim THEN DOMAIN R[n] \ {r} ELSE DOMAIN R[n]
        /\ \A s \in DOMAIN M[n] : M[n][s] = R[n][s]
  BY <1>3 DEF Drop
<1>5. ASSUME NEW m \in Nodes(t), IsPrefix(victim, m), m # victim
      PROVE  r \notin DOMAIN R[m]
  <2>1. Len(victim) < Len(m)
    BY <1>1, <1>2, <1>5, PrefixOrder
  <2>2. PICK c \in Children(t, victim) : IsPrefix(c, m)
    BY <1>1, <1>2, <1>5, <2>1, ChildTowards
  <2>3. c \in Nodes(t) /\ c # <<>>
    <3>1. c \in Nodes(t) /\ IsStrictPrefix(victim, c)
      BY DEF Children
    <3>2. Len(victim) < Len(c) /\ Len(victim) \in Nat
      BY <1>1, <1>2, <3>1, PrefixOrder
    <3> QED BY <3>1, <3>2, EmptySeq
  <2>4. r \notin DOMAIN R[c]
    BY <1>2 DEF IsTailFor, Holds
  <2> QED BY <1>1, <2>2, <2>3, <2>4 DEF Layered
<1>6. Layered(M)
  <2>1. ASSUME NEW n \in Nodes(t), NEW m \in Nodes(t), n # <<>>, IsPrefix(n, m),
               NEW s \in DOMAIN M[m]
        PROVE  s \in DOMAIN M[n] /\ M[n][s] >= M[m][s]
    <3>1. s \in DOMAIN R[m] /\ M[m][s] = R[m][s]
      BY <1>4
    <3>2. s \in DOMAIN R[n] /\ R[n][s] >= R[m][s]
      BY <1>1, <2>1, <3>1 DEF Layered
    <3>3. ~(n = victim /\ s = r)
      BY <1>4, <1>5, <2>1, <3>1
    <3> QED BY <1>4, <3>1, <3>2, <3>3
  <2> QED BY <1>3, <2>1 DEF Layered
<1>7. Timed(M, A, h)
  <2>1. ASSUME NEW n \in Nodes(t)
        PROVE  M[n] \in [DOMAIN M[n] -> 0 .. h] /\ DOMAIN M[n] \subseteq A
    <3>1. R[n] \in [DOMAIN R[n] -> 0 .. h] /\ DOMAIN R[n] \subseteq A
      BY <1>1 DEF Timed
    <3>2. Drop(R[n], r) \in [DOMAIN R[n] \ {r} -> 0 .. h]
      BY <3>1 DEF Drop
    <3> QED BY <1>3, <1>4, <3>1, <3>2
  <2> QED BY <1>3, <2>1 DEF Timed
<1>8. u.tokens_used \in [DOMAIN u.tokens_used -> Int] /\ DOMAIN u.tokens_used \subseteq A
  <2>1. t.tokens_used \in [DOMAIN t.tokens_used -> Int] /\ DOMAIN t.tokens_used \subseteq A
    BY DEF Sound
  <2>2. Used(t, r) \in Int
    BY <2>1 DEF Used
  <2>3. Edge(t, victim) \in Int
    <3>1. \E p \in Nodes(t) : victim \in Children(t, p)
      BY <1>1, <1>2, ParentExists
    <3>2. (CHOOSE p \in Nodes(t) : victim \in Children(t, p)) \in Seq(T)
      BY <1>1, <3>1
    <3> QED BY <1>1, <1>2, <3>2, LenProperties DEF Edge
  <2>4. Put(t.tokens_used, r, Used(t, r) - Edge(t, victim))
          \in [DOMAIN t.tokens_used \cup {r} -> Int]
    BY <2>1, <2>2, <2>3 DEF Put
  <2> QED BY <1>3, <2>1, <2>4
<1>9. Rooted(u, T) /\ M[<<>>] = NoResidents /\ Branching(Nodes(u))
  BY <1>1, <1>2, <1>3 DEF Sound, Rooted
<1>10. Sound(u, T, P, A, h)
  BY <1>3, <1>6, <1>7, <1>8, <1>9 DEF Sound
<1> QED BY <1>10 DEF u
----------------------------------------------------------------------------
\* Why a node is there: a prompt ends at it, or two paths part at it.
Needed(N, P) ==
  \A n \in N \ {<<>>} :
    \/ n \in P
    \/ \E a, b \in N : /\ IsPrefix(n, a) /\ Len(n) < Len(a)
                       /\ IsPrefix(n, b) /\ Len(n) < Len(b)
                       /\ a[Len(n) + 1] # b[Len(n) + 1]

\* The node that splits an edge has the old child and the new leaf below it, or
\* is where the prompt ends.
LEMMA InsertNeeds ==
  ASSUME NEW t, NEW T, Rooted(t, T), NEW P, P \subseteq Seq(T), NEW tokens \in P,
         Needed(Nodes(t), P)
  PROVE  Needed(DOMAIN Extended(t, tokens), P)
<1> DEFINE N   == Nodes(t)
           D   == Deepest(t, tokens)
           k   == Matched(t, tokens)
           mid == SubSeq(tokens, 1, k)
           c   == CHOOSE x \in MidEdge(t, tokens) : TRUE
           G   == DOMAIN Extended(t, tokens)
<1>1. G = N \cup {mid, tokens} /\ N \subseteq Seq(T) /\ tokens \in Seq(T) /\ D \in N
  BY DeepestIsLongest DEF Extended, Rooted
<1>2. /\ k \in Nat /\ k <= Len(tokens) /\ Len(D) \in Nat
      /\ MidEdge(t, tokens) = {} => mid = D
      /\ MidEdge(t, tokens) # {} =>
           /\ c \in N /\ c \in Seq(T) /\ k < Len(c)
           /\ \A i \in 1 .. k : c[i] = tokens[i]
           /\ k < Len(tokens) => c[k + 1] # tokens[k + 1]
  BY <1>1, WalkStops
<1>3. /\ mid \in Seq(T) /\ Len(mid) = k /\ IsPrefix(mid, tokens)
      /\ \A i \in 1 .. k : mid[i] = tokens[i]
  BY <1>1, <1>2, CutIsPrefix
<1> HIDE DEF N, D, k, mid, c, G
<1>4. ASSUME NEW n \in N \ {<<>>}
      PROVE  \/ n \in P
             \/ \E a, b \in G : /\ IsPrefix(n, a) /\ Len(n) < Len(a)
                                /\ IsPrefix(n, b) /\ Len(n) < Len(b)
                                /\ a[Len(n) + 1] # b[Len(n) + 1]
  BY <1>1, <1>4 DEF Needed, N
<1>5. ASSUME mid \notin N, mid # tokens
      PROVE  \E a, b \in G : /\ IsPrefix(mid, a) /\ Len(mid) < Len(a)
                             /\ IsPrefix(mid, b) /\ Len(mid) < Len(b)
                             /\ a[Len(mid) + 1] # b[Len(mid) + 1]
  <2>1. MidEdge(t, tokens) # {}
    BY <1>1, <1>2, <1>5
  <2>2. IsPrefix(mid, c)
    BY <1>2, <1>3, <2>1, PrefixPointwise
  <2>3. k < Len(tokens) /\ Len(mid) < Len(tokens)
    <3>1. Len(mid) # Len(tokens)
      BY <1>1, <1>3, <1>5, PrefixOrder
    <3> QED BY <1>1, <1>2, <1>3, <3>1
  <2> QED BY <1>1, <1>2, <1>3, <2>1, <2>2, <2>3
<1>6. ASSUME NEW n \in G \ {<<>>}
      PROVE  \/ n \in P
             \/ \E a, b \in G : /\ IsPrefix(n, a) /\ Len(n) < Len(a)
                                /\ IsPrefix(n, b) /\ Len(n) < Len(b)
                                /\ a[Len(n) + 1] # b[Len(n) + 1]
  BY <1>1, <1>4, <1>5, <1>6
<1> QED BY <1>6 DEF G, Needed

\* Paths that part at a node are below two of its children.
LEMMA NeededHasChildren ==
  ASSUME NEW t, NEW T, Rooted(t, T), IsFiniteSet(Nodes(t)),
         NEW n \in Nodes(t), NEW a \in Nodes(t), NEW b \in Nodes(t),
         IsPrefix(n, a), Len(n) < Len(a), IsPrefix(n, b), Len(n) < Len(b),
         a[Len(n) + 1] # b[Len(n) + 1]
  PROVE  Cardinality(Children(t, n)) > 1
<1>1. PICK c \in Children(t, n) : IsPrefix(c, a)
  BY ChildTowards
<1>2. PICK d \in Children(t, n) : IsPrefix(d, b)
  BY ChildTowards
<1>3. /\ c \in Seq(T) /\ d \in Seq(T) /\ n \in Seq(T) /\ a \in Seq(T) /\ b \in Seq(T)
      /\ IsStrictPrefix(n, c) /\ IsStrictPrefix(n, d)
  BY DEF Children, Rooted
<1>4. /\ Len(n) \in Nat /\ Len(n) + 1 \in 1 .. Len(c) /\ Len(n) + 1 \in 1 .. Len(d)
  BY <1>3, PrefixOrder
<1>5. c[Len(n) + 1] = a[Len(n) + 1] /\ d[Len(n) + 1] = b[Len(n) + 1]
  BY <1>1, <1>2, <1>3, <1>4, PrefixPointwise
<1>6. c # d
  BY <1>5
<1>7. IsFiniteSet({c}) /\ Cardinality({c}) = 1
  BY FS_Singleton
<1>8. IsFiniteSet({c} \cup {d}) /\ Cardinality({c} \cup {d}) = 2
  <2>1. d \notin {c}
    BY <1>6
  <2>2. IsFiniteSet({c} \cup {d}) /\ Cardinality({c} \cup {d}) = Cardinality({c}) + 1
    BY <1>7, <2>1, FS_AddElement
  <2>3. Cardinality({c}) + 1 = 2
    BY <1>7
  <2> QED BY <2>2, <2>3
<1>9. IsFiniteSet(Children(t, n)) /\ Cardinality(Children(t, n)) \in Nat
  <2>1. Children(t, n) \subseteq Nodes(t)
    BY DEF Children
  <2> QED BY <2>1, FS_Subset, FS_CardinalityType
<1>10. 2 <= Cardinality(Children(t, n))
  <2>1. {c} \cup {d} \subseteq Children(t, n)
    OBVIOUS
  <2>2. Cardinality({c} \cup {d}) <= Cardinality(Children(t, n))
    BY <1>9, <2>1, FS_Subset
  <2> QED BY <1>8, <2>2
<1> QED BY <1>9, <1>10

----------------------------------------------------------------------------
\* What the methods do to the set of prefixes that a replica holds, to its count
\* of tokens and to the times of last use.

\* The prefix q ends at, or above, a node at which r is resident.
Under(residents, q, r) == {m \in DOMAIN residents : IsPrefix(q, m) /\ r \in DOMAIN residents[m]}

\* A tree's residents, apart from what is counted and who is bounded.
Shaped(residents, T) ==
  /\ DOMAIN residents \subseteq Seq(T)
  /\ residents[<<>>] = NoResidents /\ <<>> \in DOMAIN residents
  /\ Branching(DOMAIN residents)
  /\ Layered(residents)

LEMMA SoundShaped ==
  ASSUME NEW t, NEW T, NEW P, NEW A, NEW h, Sound(t, T, P, A, h)
  PROVE  Shaped(t.residents, T) /\ Rooted(t, T) /\ Nodes(t) = DOMAIN t.residents
BY DEF Sound, Shaped, Rooted, Nodes

Cuts(s) == {SubSeq(s, 1, i) : i \in 1 .. Len(s)}

\* The prefixes of a sequence are its cuts.
LEMMA CutsArePrefixes ==
  ASSUME NEW T, NEW s \in Seq(T)
  PROVE  \A q : q \in Cuts(s) <=> q \in Seq(T) /\ q # <<>> /\ IsPrefix(q, s)
<1>1. ASSUME NEW i \in 1 .. Len(s)
      PROVE  SubSeq(s, 1, i) \in Seq(T) /\ SubSeq(s, 1, i) # <<>> /\ IsPrefix(SubSeq(s, 1, i), s)
  <2>1. i \in 0 .. Len(s) /\ i # 0
    OBVIOUS
  <2>2. SubSeq(s, 1, i) \in Seq(T) /\ Len(SubSeq(s, 1, i)) = i /\ IsPrefix(SubSeq(s, 1, i), s)
    BY <2>1, CutIsPrefix
  <2> QED BY <2>1, <2>2, EmptySeq
<1>2. ASSUME NEW q \in Seq(T), q # <<>>, IsPrefix(q, s)
      PROVE  Len(q) \in 1 .. Len(s) /\ q = SubSeq(s, 1, Len(q))
  <2>1. Len(q) \in 0 .. Len(s) /\ Len(q) # 0
    BY <1>2, PrefixOrder, EmptySeq
  <2>2. q = SubSeq(s, 1, Len(q))
    BY <1>2, <2>1, CutIsPrefix
  <2> QED BY <2>1, <2>2
<1> QED BY <1>1, <1>2 DEF Cuts

\* A held prefix is a nonempty sequence under a resident node.
LEMMA HeldIsUnder ==
  ASSUME NEW t, NEW T, NEW r, DOMAIN t.residents \subseteq Seq(T)
  PROVE  \A q : q \in Held(t, r) <=> q \in Seq(T) /\ q # <<>> /\ Under(t.residents, q, r) # {}
<1>1. ASSUME NEW q, q \in Held(t, r)
      PROVE  q \in Seq(T) /\ q # <<>> /\ Under(t.residents, q, r) # {}
  <2>1. PICK m \in Nodes(t) : Holds(t, m, r) /\ q \in Cuts(m)
    BY <1>1 DEF Held, Cuts
  <2>2. m \in Seq(T) /\ m \in DOMAIN t.residents /\ r \in DOMAIN t.residents[m]
    BY <2>1 DEF Nodes, Holds
  <2> QED BY <2>1, <2>2, CutsArePrefixes DEF Under
<1>2. ASSUME NEW q, q \in Seq(T), q # <<>>, Under(t.residents, q, r) # {}
      PROVE  q \in Held(t, r)
  <2>1. PICK m \in DOMAIN t.residents : IsPrefix(q, m) /\ r \in DOMAIN t.residents[m]
    BY <1>2 DEF Under
  <2>2. m \in Seq(T) /\ m \in Nodes(t) /\ Holds(t, m, r)
    BY <2>1 DEF Nodes, Holds
  <2>3. q \in Cuts(m)
    BY <1>2, <2>1, <2>2, CutsArePrefixes
  <2> QED BY <2>2, <2>3 DEF Held, Cuts
<1> QED BY <1>1, <1>2

\* The cuts of a sequence beyond a length are as many as the tokens beyond it.
LEMMA CutsCounted ==
  ASSUME NEW T, NEW s \in Seq(T), NEW I \in SUBSET (1 .. Len(s))
  PROVE  LET C == {SubSeq(s, 1, i) : i \in I}
         IN  /\ IsFiniteSet(I) /\ IsFiniteSet(C)
             /\ Cardinality(I) \in Nat /\ Cardinality(C) = Cardinality(I)
<1> DEFINE C == {SubSeq(s, 1, i) : i \in I}
           f == [i \in I |-> SubSeq(s, 1, i)]
<1>1. IsFiniteSet(I) /\ Cardinality(I) \in Nat
  <2>1. IsFiniteSet(1 .. Len(s))
    BY FS_Interval
  <2> QED BY <2>1, FS_Subset, FS_CardinalityType
<1>2. \A i \in I : Len(SubSeq(s, 1, i)) = i
  <2>1. \A i \in I : i \in 0 .. Len(s)
    OBVIOUS
  <2> QED BY <2>1, CutIsPrefix
<1>3. f \in Bijection(I, C)
  <2>1. f \in Surjection(I, C)
    BY DEF Surjection
  <2>2. f \in Injection(I, C)
    BY <1>2 DEF Injection, IsInjective
  <2> QED BY <2>1, <2>2 DEF Bijection
<1>4. IsFiniteSet(C) /\ Cardinality(C) = Cardinality(I)
  BY <1>1, <1>3, FS_Bijection DEF ExistsBijection
<1> QED BY <1>1, <1>4

----------------------------------------------------------------------------
\* The time of last use of a held prefix: that of the node whose edge it is on.
Recency(residents, q, r) ==
  residents[CHOOSE n \in Under(residents, q, r) :
              \A m \in Under(residents, q, r) : Len(n) <= Len(m)][r]

\* It is the latest of all the times at and below the prefix.
LEMMA RecencyIsLatest ==
  ASSUME NEW R, NEW T, Shaped(R, T), NEW r, NEW q \in Seq(T), q # <<>>, Under(R, q, r) # {}
  PROVE  \E n \in Under(R, q, r) :
           /\ Recency(R, q, r) = R[n][r]
           /\ \A m \in Under(R, q, r) : R[n][r] >= R[m][r]
<1> DEFINE U == Under(R, q, r)
           n == CHOOSE x \in U : \A m \in U : Len(x) <= Len(m)
<1>1. /\ DOMAIN R \subseteq Seq(T) /\ Branching(DOMAIN R) /\ Layered(R) /\ U \subseteq DOMAIN R
  BY DEF Shaped, Under
<1>2. n \in U /\ \A m \in U : Len(n) <= Len(m)
  <2>1. \E x \in U : \A m \in U : Len(x) <= Len(m)
    <3>1. U \subseteq Seq(T) /\ U # {}
      BY <1>1
    <3> HIDE DEF U
    <3> QED BY <3>1, ShortestExists
  <2> HIDE DEF U
  <2> QED BY <2>1
<1> HIDE DEF n
<1>3. n \in DOMAIN R /\ n \in Seq(T) /\ IsPrefix(q, n) /\ r \in DOMAIN R[n]
  BY <1>1, <1>2 DEF Under
<1>4. n # <<>> /\ Len(q) > 0
  <2>1. Len(q) <= Len(n) /\ Len(q) \in Nat /\ Len(q) # 0
    BY <1>3, PrefixOrder, EmptySeq
  <2> QED BY <2>1, EmptySeq
<1>5. ASSUME NEW m \in U PROVE R[n][r] >= R[m][r]
  <2>1. m \in DOMAIN R /\ m \in Seq(T) /\ IsPrefix(q, m) /\ r \in DOMAIN R[m]
    BY <1>1 DEF Under
  <2>2. PICK b \in DOMAIN R : BranchPoint(b, n, m)
    BY <1>1, <1>3, <2>1 DEF Branching
  <2>3. b \in Seq(T) /\ IsPrefix(b, n) /\ IsPrefix(b, m) /\ Len(b) \in Nat
    BY <1>1, <2>2 DEF BranchPoint
  <2>4. Len(q) <= Len(b)
    <3>1. SUFFICES ASSUME Len(b) < Len(q) PROVE FALSE
      BY <2>3
    <3>2. Len(q) <= Len(n) /\ Len(q) <= Len(m) /\ Len(m) \in Nat /\ Len(n) \in Nat
      BY <1>3, <2>1, PrefixOrder
    <3>3. n[Len(b) + 1] # m[Len(b) + 1]
      BY <2>2, <2>3, <3>1, <3>2 DEF BranchPoint
    <3>4. q[Len(b) + 1] = n[Len(b) + 1] /\ q[Len(b) + 1] = m[Len(b) + 1]
      <4>1. Len(b) + 1 \in 1 .. Len(q)
        BY <2>3, <3>1
      <4> QED BY <1>3, <2>1, <4>1, PrefixPointwise
    <3> QED BY <3>3, <3>4
  <2>5. IsPrefix(q, b) /\ b # <<>>
    <3>1. IsPrefix(q, b)
      BY <1>3, <2>3, <2>4, PrefixOrder
    <3> QED BY <1>4, <2>3, <2>4, <3>1, EmptySeq
  <2>6. b \in U
    BY <1>1, <1>3, <2>3, <2>5 DEF Layered, Under
  <2>7. b = n
    BY <1>2, <1>3, <2>3, <2>6, PrefixOrder
  <2> QED BY <1>1, <1>3, <1>4, <2>1, <2>3, <2>7 DEF Layered
<1> QED BY <1>2, <1>5 DEF Recency, n

\* And the latest of them is nothing else.
LEMMA LatestIsRecency ==
  ASSUME NEW R, NEW T, Shaped(R, T), NEW r, NEW q \in Seq(T), q # <<>>,
         \A m \in DOMAIN R : r \in DOMAIN R[m] => R[m][r] \in Int,
         NEW n \in Under(R, q, r), \A m \in Under(R, q, r) : R[n][r] >= R[m][r]
  PROVE  Recency(R, q, r) = R[n][r]
<1>1. PICK x \in Under(R, q, r) : /\ Recency(R, q, r) = R[x][r]
                                  /\ \A m \in Under(R, q, r) : R[x][r] >= R[m][r]
  BY RecencyIsLatest
<1>2. R[x][r] >= R[n][r] /\ R[n][r] >= R[x][r] /\ R[x][r] \in Int /\ R[n][r] \in Int
  BY <1>1 DEF Under
<1> QED BY <1>1, <1>2

\* Residents that agree below a prefix agree on it.
LEMMA AgreeingRecency ==
  ASSUME NEW R, NEW T, Shaped(R, T), NEW M, Shaped(M, T), NEW r, NEW q \in Seq(T), q # <<>>,
         \A m \in DOMAIN M : r \in DOMAIN M[m] => M[m][r] \in Int,
         Under(R, q, r) # {}, Under(M, q, r) = Under(R, q, r),
         \A m \in Under(R, q, r) : M[m][r] = R[m][r]
  PROVE  Recency(M, q, r) = Recency(R, q, r)
<1>1. PICK n \in Under(R, q, r) : /\ Recency(R, q, r) = R[n][r]
                                  /\ \A m \in Under(R, q, r) : R[n][r] >= R[m][r]
  BY RecencyIsLatest
<1>2. n \in Under(M, q, r) /\ \A m \in Under(M, q, r) : M[n][r] >= M[m][r]
  BY <1>1
<1>3. Recency(M, q, r) = M[n][r]
  BY <1>2, LatestIsRecency
<1> QED BY <1>1, <1>3

----------------------------------------------------------------------------
\* The count of r's tokens is the number of prefixes it holds.
Counted(t, r) == IsFiniteSet(Held(t, r)) /\ Used(t, r) = Cardinality(Held(t, r))

\* From t to u nothing has changed for r.
Unaffected(u, t, r) ==
  /\ Held(u, r) = Held(t, r)
  /\ Used(u, r) = Used(t, r)
  /\ \A q \in Held(t, r) : Recency(u.residents, q, r) = Recency(t.residents, q, r)

----------------------------------------------------------------------------
\* insert()

\* G is the tree t grown by the path of `tokens': nothing else has changed.
Grown(G, t, T, h, tokens) ==
  /\ Shaped(G, T) /\ tokens \in DOMAIN G
  /\ \A n \in DOMAIN G : n \in Nodes(t) \/ IsPrefix(n, tokens)
  /\ \A n \in Nodes(t) : n \in DOMAIN G /\ G[n] = t.residents[n]
  /\ \A n \in DOMAIN G : \A r \in DOMAIN G[n] :
       /\ G[n][r] \in 0 .. h
       /\ \E m \in Nodes(t) : /\ IsPrefix(n, m) /\ r \in DOMAIN t.residents[m]
                              /\ G[n][r] = t.residents[m][r]
  /\ \A q \in Seq(T) : \A r : Under(G, q, r) # {} <=> Under(t.residents, q, r) # {}

\* Splitting an edge and adding a leaf change nothing of what is held where.
LEMMA ExtendedGrown ==
  ASSUME NEW t, NEW T, NEW P, NEW A, NEW h \in Nat, Sound(t, T, P, A, h),
         NEW tokens \in Seq(T)
  PROVE  Grown(Extended(t, tokens), t, T, h, tokens)
<1> DEFINE G == Extended(t, tokens)
           k == Matched(t, tokens)
           mid == SubSeq(tokens, 1, k)
<1>1. /\ Rooted(t, T) /\ Branching(Nodes(t)) /\ Layered(t.residents)
      /\ Timed(t.residents, A, h) /\ DOMAIN t.residents = Nodes(t)
      /\ t.residents[<<>>] = NoResidents
  BY DEF Sound, Nodes
<1>2. \A n \in Nodes(t) : \A s \in DOMAIN t.residents[n] : t.residents[n][s] \in 0 .. h
  BY <1>1 DEF Timed
<1>3. /\ DOMAIN G = Nodes(t) \cup {mid, tokens}
      /\ DOMAIN G \subseteq Seq(T)
      /\ \A n \in Nodes(t) : G[n] = t.residents[n]
      /\ \A n \in DOMAIN G :
           \/ G[n] = NoResidents
           \/ \E m \in Nodes(t) : m # <<>> /\ IsPrefix(n, m) /\ G[n] = t.residents[m]
           \/ n = <<>> /\ G[n] = t.residents[n]
      /\ \A n \in DOMAIN G : \E p \in Nodes(t) \cup {tokens} : IsPrefix(n, p)
      /\ Branching(DOMAIN G)
      /\ Layered(G)
  <2>1. \A n \in Nodes(t) : \A s \in DOMAIN t.residents[n] : t.residents[n][s] \in Int
    BY <1>2
  <2> QED BY <1>1, <2>1, ExtendedLayered
<1>4. k \in 0 .. Len(tokens)
  BY <1>1, WalkStops
<1>5. IsPrefix(mid, tokens) /\ IsPrefix(tokens, tokens)
  BY <1>4, CutIsPrefix, PrefixOrder
<1> HIDE DEF G, mid, k
<1>6. <<>> \in Nodes(t)
  BY <1>1 DEF Rooted
<1>7. Shaped(G, T)
  BY <1>1, <1>3, <1>6 DEF Shaped
<1>8. ASSUME NEW n \in DOMAIN G, NEW r \in DOMAIN G[n]
      PROVE  \E m \in Nodes(t) : /\ IsPrefix(n, m) /\ G[n] = t.residents[m]
                                /\ r \in DOMAIN t.residents[m]
  BY <1>1, <1>3, <1>8 DEF NoResidents
<1>9. ASSUME NEW q \in Seq(T), NEW r
      PROVE  Under(G, q, r) # {} <=> Under(t.residents, q, r) # {}
  <2>1. ASSUME NEW n \in Under(G, q, r) PROVE Under(t.residents, q, r) # {}
    <3>1. n \in DOMAIN G /\ IsPrefix(q, n) /\ r \in DOMAIN G[n]
      BY DEF Under
    <3>2. PICK m \in Nodes(t) : IsPrefix(n, m) /\ r \in DOMAIN t.residents[m]
      BY <1>8, <3>1
    <3>3. n \in Seq(T) /\ m \in Seq(T)
      BY <1>1, <1>3, <3>1 DEF Rooted
    <3>4. IsPrefix(q, m)
      BY <3>1, <3>2, <3>3, PrefixOrder
    <3> QED BY <1>1, <3>2, <3>4 DEF Under
  <2>2. ASSUME NEW n \in Under(t.residents, q, r) PROVE n \in Under(G, q, r)
    BY <1>1, <1>3 DEF Under
  <2> QED BY <2>1, <2>2
<1>10. \A n \in DOMAIN G : \A r \in DOMAIN G[n] : G[n][r] \in 0 .. h
  BY <1>2, <1>8
<1>11. Grown(G, t, T, h, tokens)
  BY <1>3, <1>5, <1>7, <1>8, <1>9, <1>10 DEF Grown
<1> QED BY <1>11 DEF G

\* On the way to `tokens', a position is novel exactly when the prefix that ends
\* there was not held: the residents of the edge it is on are those of the prefix.
LEMMA NovelIsNotHeld ==
  ASSUME NEW G, NEW T, Shaped(G, T), NEW tokens \in DOMAIN G, NEW r
  PROVE  Novel(G, tokens, r) =
           {i \in 1 .. Len(tokens) : Under(G, SubSeq(tokens, 1, i), r) = {}}
<1> DEFINE path   == {n \in DOMAIN G : IsPrefix(n, tokens)}
           End(i) == CHOOSE n \in path : /\ Len(n) >= i
                                         /\ \A m \in path : Len(m) >= i => Len(n) <= Len(m)
<1>1. /\ DOMAIN G \subseteq Seq(T) /\ tokens \in Seq(T) /\ Len(tokens) \in Nat
      /\ Branching(DOMAIN G) /\ Layered(G)
  BY DEF Shaped
<1>2. ASSUME NEW i \in 1 .. Len(tokens)
      PROVE  r \in DOMAIN G[End(i)] <=> Under(G, SubSeq(tokens, 1, i), r) # {}
  <2> DEFINE q == SubSeq(tokens, 1, i)
             e == End(i)
             Far == {n \in path : Len(n) >= i}
  <2>1. q \in Seq(T) /\ Len(q) = i /\ IsPrefix(q, tokens)
    <3>1. i \in 0 .. Len(tokens)
      OBVIOUS
    <3> QED BY <1>1, <3>1, CutIsPrefix
  <2>2. Far \subseteq Seq(T) /\ tokens \in Far
    BY <1>1, PrefixOrder
  <2>3. e \in path /\ Len(e) >= i /\ \A m \in path : Len(m) >= i => Len(e) <= Len(m)
    <3>1. \E n \in Far : \A m \in Far : Len(n) <= Len(m)
      <4> HIDE DEF Far
      <4> QED BY <2>2, ShortestExists
    <3>2. \E n \in path : /\ Len(n) >= i
                          /\ \A m \in path : Len(m) >= i => Len(n) <= Len(m)
      BY <3>1
    <3> HIDE DEF path
    <3> QED BY <3>2
  <2> HIDE DEF q, e
  <2>4. e \in DOMAIN G /\ e \in Seq(T) /\ IsPrefix(e, tokens)
    BY <1>1, <2>3
  <2>5. ASSUME r \in DOMAIN G[e] PROVE Under(G, q, r) # {}
    <3>1. IsPrefix(q, e)
      BY <1>1, <2>1, <2>3, <2>4, PrefixOrder
    <3> QED BY <2>4, <2>5, <3>1 DEF Under
  <2>6. ASSUME NEW m \in Under(G, q, r) PROVE r \in DOMAIN G[e]
    <3>1. m \in DOMAIN G /\ m \in Seq(T) /\ IsPrefix(q, m) /\ r \in DOMAIN G[m]
      BY <1>1 DEF Under
    <3>2. PICK b \in DOMAIN G : BranchPoint(b, tokens, m)
      BY <1>1, <3>1 DEF Branching
    <3>3. b \in Seq(T) /\ IsPrefix(b, tokens) /\ IsPrefix(b, m) /\ Len(b) \in Nat
      BY <1>1, <3>2 DEF BranchPoint
    <3>4. Len(b) >= i
      <4>1. SUFFICES ASSUME Len(b) < i PROVE FALSE
        BY <3>3
      <4>2. Len(q) <= Len(tokens) /\ Len(q) <= Len(m) /\ Len(m) \in Nat
        BY <1>1, <2>1, <3>1, PrefixOrder
      <4>3. tokens[Len(b) + 1] # m[Len(b) + 1]
        BY <1>1, <2>1, <3>2, <3>3, <4>1, <4>2 DEF BranchPoint
      <4>4. q[Len(b) + 1] = tokens[Len(b) + 1] /\ q[Len(b) + 1] = m[Len(b) + 1]
        <5>1. Len(b) + 1 \in 1 .. Len(q)
          BY <2>1, <3>3, <4>1
        <5> QED BY <1>1, <2>1, <3>1, <5>1, PrefixPointwise
      <4> QED BY <4>3, <4>4
    <3>5. Len(e) <= Len(b)
      BY <2>3, <3>3, <3>4
    <3>6. IsPrefix(e, m)
      <4>1. IsPrefix(e, b)
        BY <1>1, <2>4, <3>3, <3>5, PrefixOrder
      <4> QED BY <2>4, <3>1, <3>3, <4>1, PrefixOrder
    <3>7. e # <<>>
      BY <2>3, EmptySeq
    <3> QED BY <1>1, <2>4, <3>1, <3>6, <3>7 DEF Layered
  <2> QED BY <2>5, <2>6 DEF q, e
<1>3. Novel(G, tokens, r) = {i \in 1 .. Len(tokens) : r \notin DOMAIN G[End(i)]}
  BY DEF Novel
<1> HIDE DEF End
<1> QED BY <1>2, <1>3

\* M is G with r marked on the path of `tokens', as seen from the prefix q.
Marked(M, G, tokens, r, at, q) ==
  /\ \A s : s # r => /\ Under(M, q, s) = Under(G, q, s)
                     /\ \A n \in Under(G, q, s) : M[n][s] = G[n][s]
  /\ IsPrefix(q, tokens) => tokens \in Under(M, q, r) /\ M[tokens][r] = at
  /\ ~IsPrefix(q, tokens) => /\ Under(M, q, r) = Under(G, q, r)
                             /\ \A n \in Under(G, q, r) : M[n][r] = G[n][r]

LEMMA MarkMarks ==
  ASSUME NEW G, NEW T, Shaped(G, T), NEW tokens \in DOMAIN G, NEW r, NEW at,
         NEW q \in Seq(T), q # <<>>
  PROVE  Marked(Mark(G, tokens, r, at), G, tokens, r, at, q)
<1> DEFINE M == Mark(G, tokens, r, at)
<1>1. /\ DOMAIN M = DOMAIN G
      /\ \A n \in DOMAIN G : M[n] = IF n # <<>> /\ IsPrefix(n, tokens)
                                    THEN Put(G[n], r, at) ELSE G[n]
  BY DEF Mark
<1>2. tokens \in Seq(T) /\ DOMAIN G \subseteq Seq(T)
  BY DEF Shaped
<1> HIDE DEF M
<1>3. \A n \in DOMAIN G :
        /\ DOMAIN M[n] = IF n # <<>> /\ IsPrefix(n, tokens) THEN DOMAIN G[n] \cup {r} ELSE DOMAIN G[n]
        /\ \A s \in DOMAIN G[n] : s # r => M[n][s] = G[n][s]
        /\ n # <<>> /\ IsPrefix(n, tokens) => M[n][r] = at
        /\ ~(n # <<>> /\ IsPrefix(n, tokens)) => M[n] = G[n]
  BY <1>1 DEF Put
<1>4. IsPrefix(q, tokens) => tokens # <<>> /\ IsPrefix(tokens, tokens)
  <2>1. SUFFICES ASSUME IsPrefix(q, tokens) PROVE tokens # <<>> /\ IsPrefix(tokens, tokens)
    OBVIOUS
  <2>2. Len(q) <= Len(tokens) /\ Len(q) # 0 /\ Len(q) \in Nat /\ IsPrefix(tokens, tokens)
    BY <1>2, <2>1, PrefixOrder, EmptySeq
  <2> QED BY <2>2, EmptySeq
<1>5. ASSUME ~IsPrefix(q, tokens), NEW n \in DOMAIN G, IsPrefix(q, n)
      PROVE  ~IsPrefix(n, tokens)
  BY <1>2, <1>5, PrefixOrder
<1>6. Marked(M, G, tokens, r, at, q)
  BY <1>1, <1>3, <1>4, <1>5 DEF Under, Marked
<1> QED BY <1>6 DEF M

\* From t to u, r has been given the prefixes of `tokens' at the time `at'.
Stored(u, t, tokens, r, at) ==
  /\ \A s : s # r => Unaffected(u, t, s)
  /\ Held(u, r) = Held(t, r) \cup Cuts(tokens)
  /\ \A q \in Held(u, r) :
       Recency(u.residents, q, r) =
         IF q \in Cuts(tokens) THEN at ELSE Recency(t.residents, q, r)
  /\ Counted(t, r) => Counted(u, r)

\* insert() adds the prefixes of what is inserted, counts those that were not
\* held before, and uses them all now; to other replicas nothing happens.
LEMMA InsertStores ==
  ASSUME NEW t, NEW T, NEW P, NEW A, NEW h \in Nat, P \subseteq Seq(T), Sound(t, T, P, A, h),
         NEW tokens \in P, NEW r \in A, NEW at \in Nat, h <= at
  PROVE  Stored(InsertPath(t, tokens, r, at), t, tokens, r, at)
<1> DEFINE u    == InsertPath(t, tokens, r, at)
           cuts == Cuts(tokens)
           R    == t.residents
           G    == Extended(t, tokens)
           M    == Mark(G, tokens, r, at)
<1>1. /\ u.residents = M
      /\ u.tokens_used = Put(t.tokens_used, r, Used(t, r) + Cardinality(Novel(G, tokens, r)))
  BY DEF InsertPath
<1>2. /\ Shaped(G, T) /\ tokens \in DOMAIN G
      /\ \A n \in DOMAIN G : n \in Nodes(t) \/ IsPrefix(n, tokens)
      /\ \A n \in Nodes(t) : n \in DOMAIN G /\ G[n] = R[n]
      /\ \A n \in DOMAIN G : \A s \in DOMAIN G[n] :
           /\ G[n][s] \in 0 .. h
           /\ \E m \in Nodes(t) : IsPrefix(n, m) /\ s \in DOMAIN R[m] /\ G[n][s] = R[m][s]
      /\ \A q \in Seq(T) : \A s : Under(G, q, s) # {} <=> Under(R, q, s) # {}
  <2>1. tokens \in Seq(T)
    OBVIOUS
  <2>2. Grown(G, t, T, h, tokens)
    BY <2>1, ExtendedGrown
  <2> HIDE DEF G
  <2> QED BY <2>2 DEF Grown
<1>3. Sound(u, T, P, A, at)
  BY InsertSound
<1>4. Shaped(R, T) /\ Shaped(M, T) /\ Nodes(t) = DOMAIN R
  BY <1>1, <1>3, SoundShaped
<1>5. \A q : q \in cuts <=> q \in Seq(T) /\ q # <<>> /\ IsPrefix(q, tokens)
  BY CutsArePrefixes
<1>6. /\ \A s, q : q \in Held(t, s) <=> q \in Seq(T) /\ q # <<>> /\ Under(R, q, s) # {}
      /\ \A s, q : q \in Held(u, s) <=> q \in Seq(T) /\ q # <<>> /\ Under(M, q, s) # {}
  BY <1>1, <1>4, HeldIsUnder DEF Shaped
<1> HIDE DEF u, G, M, R, cuts
<1>7. ASSUME NEW q \in Seq(T), q # <<>>
      PROVE  /\ \A s : s # r => /\ Under(M, q, s) = Under(G, q, s)
                                /\ \A n \in Under(G, q, s) : M[n][s] = G[n][s]
             /\ q \in cuts => tokens \in Under(M, q, r) /\ M[tokens][r] = at
             /\ q \notin cuts => /\ Under(M, q, r) = Under(G, q, r)
                                 /\ \A n \in Under(G, q, r) : M[n][r] = G[n][r]
  <2>1. Marked(M, G, tokens, r, at, q)
    BY <1>2, <1>7, MarkMarks DEF M
  <2> QED BY <1>5, <1>7, <2>1 DEF Marked
\* The prefixes held.
<1>8. ASSUME NEW s PROVE Held(u, s) = IF s = r THEN Held(t, r) \cup cuts ELSE Held(t, s)
  <2>1. CASE s # r
    <3>1. \A q : q \in Held(u, s) <=> q \in Held(t, s)
      BY <1>2, <1>6, <1>7, <2>1
    <3> QED BY <2>1, <3>1
  <2>2. CASE s = r
    <3>1. ASSUME NEW q PROVE q \in Held(u, r) <=> q \in Held(t, r) \/ q \in cuts
      <4>1. CASE q \in cuts
        <5>1. q \in Seq(T) /\ q # <<>>
          BY <1>5, <4>1
        <5>2. Under(M, q, r) # {}
          BY <1>7, <4>1, <5>1
        <5> QED BY <1>6, <4>1, <5>1, <5>2
      <4>2. CASE q \notin cuts
        BY <1>2, <1>6, <1>7, <4>2
      <4> QED BY <4>1, <4>2
    <3> QED BY <2>2, <3>1
  <2> QED BY <2>1, <2>2
\* The times of last use.
<1>9. ASSUME NEW s, NEW q \in Held(u, s)
      PROVE  Recency(M, q, s) = IF s = r /\ q \in cuts THEN at ELSE Recency(R, q, s)
  <2>1. q \in Seq(T) /\ q # <<>> /\ Under(M, q, s) # {}
    BY <1>6
  <2>2. \A m \in DOMAIN M : s \in DOMAIN M[m] => M[m][s] \in 0 .. at
    BY <1>1, <1>3 DEF Sound, Timed
  <2>3. \A m \in Under(M, q, s) : M[m][s] \in 0 .. at
    BY <2>2 DEF Under
  <2>4. CASE s = r /\ q \in cuts
    <3>1. tokens \in Under(M, q, r) /\ M[tokens][r] = at
      BY <1>7, <2>1, <2>4
    <3>2. \A m \in Under(M, q, r) : M[tokens][r] >= M[m][r]
      BY <2>3, <2>4, <3>1
    <3>3. Recency(M, q, r) = M[tokens][r]
      <4>1. \A m \in DOMAIN M : r \in DOMAIN M[m] => M[m][r] \in Int
        BY <2>2, <2>4
      <4> QED BY <1>4, <2>1, <3>1, <3>2, <4>1, LatestIsRecency
    <3> QED BY <2>4, <3>1, <3>3
  <2>5. CASE ~(s = r /\ q \in cuts)
    <3>1. Under(M, q, s) = Under(G, q, s) /\ \A n \in Under(G, q, s) : M[n][s] = G[n][s]
      BY <1>7, <2>1, <2>5
    <3>2. Under(R, q, s) # {}
      BY <1>2, <2>1, <3>1
    <3>3. PICK n \in Under(R, q, s) : /\ Recency(R, q, s) = R[n][s]
                                      /\ \A m \in Under(R, q, s) : R[n][s] >= R[m][s]
      BY <1>4, <2>1, <3>2, RecencyIsLatest
    <3>4. n \in Under(M, q, s) /\ M[n][s] = R[n][s]
      <4>1. n \in Under(G, q, s) /\ G[n][s] = R[n][s]
        BY <1>2, <1>4, <3>3 DEF Under
      <4> QED BY <3>1, <4>1
    <3>5. ASSUME NEW m \in Under(M, q, s) PROVE M[n][s] >= M[m][s]
      <4>1. m \in DOMAIN G /\ s \in DOMAIN G[m] /\ IsPrefix(q, m) /\ M[m][s] = G[m][s]
        BY <3>1 DEF Under
      <4>2. PICK x \in Nodes(t) : IsPrefix(m, x) /\ s \in DOMAIN R[x] /\ G[m][s] = R[x][s]
        BY <1>2, <4>1
      <4>3. m \in Seq(T) /\ x \in Seq(T)
        BY <1>2, <1>4, <4>1, <4>2 DEF Shaped
      <4>4. x \in Under(R, q, s)
        BY <1>4, <2>1, <4>1, <4>2, <4>3, PrefixOrder DEF Under
      <4> QED BY <3>3, <3>4, <4>1, <4>2, <4>4
    <3>6. \A m \in DOMAIN M : s \in DOMAIN M[m] => M[m][s] \in Int
      BY <2>2
    <3>7. Recency(M, q, s) = M[n][s]
      BY <1>4, <2>1, <3>4, <3>5, <3>6, LatestIsRecency
    <3> QED BY <2>5, <3>3, <3>4, <3>7
  <2> QED BY <2>4, <2>5
\* The count.
<1>10. ASSUME NEW s, s # r PROVE Used(u, s) = Used(t, s)
  BY <1>1, <1>10 DEF Used, Put
<1>11. ASSUME Counted(t, r) PROVE Counted(u, r)
  <2> DEFINE I     == Novel(G, tokens, r)
             fresh == {SubSeq(tokens, 1, i) : i \in I}
  <2>1. tokens \in Seq(T)
    OBVIOUS
  <2>2. I = {i \in 1 .. Len(tokens) : Under(G, SubSeq(tokens, 1, i), r) = {}}
    BY <1>2, NovelIsNotHeld
  <2>3. \A i \in 1 .. Len(tokens) : SubSeq(tokens, 1, i) \in cuts
    BY DEF cuts, Cuts
  <2>4. \A i \in 1 .. Len(tokens) : i \in I <=> SubSeq(tokens, 1, i) \notin Held(t, r)
    BY <1>2, <1>5, <1>6, <2>2, <2>3
  <2>5. fresh = cuts \ Held(t, r)
    BY <2>2, <2>4 DEF cuts, Cuts
  <2>6. IsFiniteSet(fresh) /\ Cardinality(fresh) = Cardinality(I) /\ Cardinality(I) \in Nat
    <3>1. I \in SUBSET (1 .. Len(tokens))
      BY <2>2
    <3> HIDE DEF I
    <3> QED BY <2>1, <3>1, CutsCounted
  <2>7. Held(u, r) = Held(t, r) \cup fresh /\ Held(t, r) \cap fresh = {}
    BY <1>8, <2>5
  <2> HIDE DEF fresh, I
  <2>8. /\ IsFiniteSet(Held(u, r))
        /\ Cardinality(Held(u, r)) = Cardinality(Held(t, r)) + Cardinality(fresh)
    <3>1. Cardinality(Held(t, r) \cap fresh) = 0
      BY <2>7, FS_EmptySet
    <3>2. Cardinality(Held(t, r)) \in Nat
      BY <1>11, FS_CardinalityType DEF Counted
    <3>3. /\ IsFiniteSet(Held(t, r) \cup fresh)
          /\ Cardinality(Held(t, r) \cup fresh)
               = Cardinality(Held(t, r)) + Cardinality(fresh) - Cardinality(Held(t, r) \cap fresh)
      BY <1>11, <2>6, FS_Union DEF Counted
    <3> QED BY <2>6, <2>7, <3>1, <3>2, <3>3
  <2>9. Used(u, r) = Used(t, r) + Cardinality(I)
    BY <1>1 DEF Used, Put, I
  <2> QED BY <1>11, <2>6, <2>8, <2>9 DEF Counted
<1>12. ASSUME NEW s, s # r PROVE Unaffected(u, t, s)
  BY <1>1, <1>8, <1>9, <1>10, <1>12 DEF Unaffected, R
<1>13. Held(u, r) = Held(t, r) \cup cuts
  BY <1>8
<1>14. \A q \in Held(u, r) :
         Recency(u.residents, q, r) = IF q \in cuts THEN at ELSE Recency(t.residents, q, r)
  BY <1>1, <1>9 DEF R
<1>15. Stored(u, t, tokens, r, at)
  BY <1>11, <1>12, <1>13, <1>14 DEF Stored, cuts
<1> QED BY <1>15 DEF u

----------------------------------------------------------------------------
\* remove_replica() and touch()

\* remove_replica() leaves nothing of r, and all of the others.
LEMMA ForgetClears ==
  ASSUME NEW t, NEW T, NEW P, NEW A, NEW h \in Nat, Sound(t, T, P, A, h), NEW r
  PROVE  LET u == Forgotten(t, r)
         IN  /\ Held(u, r) = {} /\ Counted(u, r)
             /\ \A s : s # r => Unaffected(u, t, s)
<1> DEFINE u == Forgotten(t, r)
           R == t.residents
           M == u.residents
<1>1. /\ DOMAIN M = DOMAIN R /\ \A n \in DOMAIN R : M[n] = Drop(R[n], r)
      /\ u.tokens_used = Drop(t.tokens_used, r)
  BY DEF Forgotten, Nodes
<1>2. DOMAIN R \subseteq Seq(T)
  BY DEF Sound, Rooted, Nodes
<1> HIDE DEF u
<1>3. \A n \in DOMAIN R :
        /\ DOMAIN M[n] = DOMAIN R[n] \ {r}
        /\ \A s \in DOMAIN M[n] : M[n][s] = R[n][s]
  BY <1>1 DEF Drop
<1>4. /\ \A s, q : q \in Held(t, s) <=> q \in Seq(T) /\ q # <<>> /\ Under(R, q, s) # {}
      /\ \A s, q : q \in Held(u, s) <=> q \in Seq(T) /\ q # <<>> /\ Under(M, q, s) # {}
  BY <1>1, <1>2, HeldIsUnder
<1>5. Held(u, r) = {}
  BY <1>1, <1>3, <1>4 DEF Under
<1>6. Used(u, r) = 0
  BY <1>1 DEF Used, Drop
<1>7. Counted(u, r)
  BY <1>5, <1>6, FS_EmptySet DEF Counted
<1>10. Shaped(R, T) /\ Shaped(M, T) /\ \A m \in DOMAIN M : \A s \in DOMAIN M[m] : M[m][s] \in Int
  <2>1. Sound(u, T, P, A \ {r}, h)
    BY ForgetSound DEF u
  <2>2. \A m \in DOMAIN M : \A s \in DOMAIN M[m] : M[m][s] \in 0 .. h
    BY <2>1 DEF Sound, Timed
  <2> QED BY <2>1, <2>2, SoundShaped
<1>8. ASSUME NEW s, s # r PROVE Unaffected(u, t, s)
  <2>1. \A q : Under(M, q, s) = Under(R, q, s)
    BY <1>1, <1>3, <1>8 DEF Under
  <2>2. \A q : q \in Held(u, s) <=> q \in Held(t, s)
    BY <1>4, <2>1
  <2>3. Used(u, s) = Used(t, s)
    BY <1>1, <1>8 DEF Used, Drop
  <2>4. ASSUME NEW q \in Held(t, s) PROVE Recency(M, q, s) = Recency(R, q, s)
    <3>1. q \in Seq(T) /\ q # <<>> /\ Under(R, q, s) # {}
      BY <1>4
    <3>2. \A m \in Under(R, q, s) : M[m][s] = R[m][s]
      BY <1>3, <1>8 DEF Under
    <3> QED BY <1>10, <2>1, <3>1, <3>2, AgreeingRecency
  <2> QED BY <2>2, <2>3, <2>4 DEF Unaffected
<1> QED BY <1>5, <1>7, <1>8 DEF u

\* From t to u, r has used what it holds of some prefix of `tokens'.
UsedUpTo(u, t, tokens, r, at) ==
  /\ \A s : s # r => Unaffected(u, t, s)
  /\ Held(u, r) = Held(t, r) /\ Used(u, r) = Used(t, r)
  /\ \E i \in 0 .. Len(tokens) : \A q \in Held(u, r) :
       Recency(u.residents, q, r) =
         IF q \in Cuts(SubSeq(tokens, 1, i)) THEN at ELSE Recency(t.residents, q, r)

\* touch() refreshes what is held of the query up to the last node on its path,
\* and nothing else.
LEMMA TouchUses ==
  ASSUME NEW t, NEW T, NEW P, NEW A, NEW h \in Nat, P \subseteq Seq(T), Sound(t, T, P, A, h),
         NEW tokens \in P, NEW r, NEW at \in Nat, h <= at
  PROVE  UsedUpTo(Touched(t, tokens, r, at), t, tokens, r, at)
<1> DEFINE u == Touched(t, tokens, r, at)
           R == t.residents
           M == u.residents
           Hit(x) == x # <<>> /\ IsPrefix(x, tokens) /\ r \in DOMAIN R[x]
<1>1. /\ DOMAIN M = DOMAIN R /\ u.tokens_used = t.tokens_used
      /\ \A n \in DOMAIN R : M[n] = IF Hit(n) THEN Put(R[n], r, at) ELSE R[n]
  BY DEF Sound, Touched, Nodes, Holds
<1>2. Sound(u, T, P, A, at)
  BY TouchSound
<1>3. Shaped(R, T) /\ Shaped(M, T) /\ DOMAIN R \subseteq Seq(T) /\ tokens \in Seq(T)
  BY <1>2, SoundShaped DEF Shaped
<1>4. \A n \in DOMAIN M : \A s \in DOMAIN M[n] : M[n][s] \in 0 .. at
  BY <1>2 DEF Sound, Timed
<1> HIDE DEF u
<1>5. \A n \in DOMAIN R :
        /\ DOMAIN M[n] = DOMAIN R[n]
        /\ \A s \in DOMAIN R[n] : s # r \/ ~Hit(n) => M[n][s] = R[n][s]
        /\ Hit(n) => M[n][r] = at
  BY <1>1 DEF Put
<1>6. \A q, s : Under(M, q, s) = Under(R, q, s)
  BY <1>1, <1>5 DEF Under
<1>7. /\ \A s, q : q \in Held(t, s) <=> q \in Seq(T) /\ q # <<>> /\ Under(R, q, s) # {}
      /\ \A s, q : q \in Held(u, s) <=> q \in Seq(T) /\ q # <<>> /\ Under(M, q, s) # {}
  BY <1>1, <1>3, HeldIsUnder
<1>8. \A s : Held(u, s) = Held(t, s) /\ Used(u, s) = Used(t, s)
  <2>2. ASSUME NEW s PROVE Held(u, s) = Held(t, s)
    <3>1. \A q : q \in Held(u, s) <=> q \in Held(t, s)
      BY <1>6, <1>7
    <3> QED BY <3>1
  <2>3. \A s : Used(u, s) = Used(t, s)
    BY <1>1 DEF Used
  <2> QED BY <2>2, <2>3
\* Where no node below is refreshed, nothing changes.
<1>9. ASSUME NEW s, NEW q \in Held(t, s), s # r \/ \A m \in Under(R, q, s) : ~Hit(m)
      PROVE  Recency(M, q, s) = Recency(R, q, s)
  <2>1. q \in Seq(T) /\ q # <<>> /\ Under(R, q, s) # {}
    BY <1>7
  <2>2. \A m \in Under(R, q, s) : m \in DOMAIN R /\ s \in DOMAIN R[m]
    BY DEF Under
  <2>3. \A m \in Under(R, q, s) : M[m][s] = R[m][s]
    <3> HIDE DEF Hit
    <3> QED BY <1>5, <1>9, <2>2
  <2>4. \A m \in DOMAIN M : s \in DOMAIN M[m] => M[m][s] \in Int
    BY <1>4
  <2> QED BY <1>3, <1>6, <2>1, <2>3, <2>4, AgreeingRecency
<1>10. \A s : s # r => Unaffected(u, t, s)
  BY <1>8, <1>9 DEF Unaffected
<1>11. \E i \in 0 .. Len(tokens) : \A q \in Held(u, r) :
         Recency(M, q, r) = IF q \in Cuts(SubSeq(tokens, 1, i)) THEN at ELSE Recency(R, q, r)
  <2> DEFINE Hits == {n \in DOMAIN R : Hit(n)}
  <2>1. CASE Hits = {}
    <3>1. 0 \in 0 .. Len(tokens) /\ SubSeq(tokens, 1, 0) \in Seq(T) /\ Len(SubSeq(tokens, 1, 0)) = 0
      BY <1>3, CutIsPrefix
    <3>2. \A q : q \notin Cuts(SubSeq(tokens, 1, 0))
      BY <3>1 DEF Cuts
    <3>3. \A q \in Held(u, r) : Recency(M, q, r) = Recency(R, q, r)
      BY <1>8, <1>9, <2>1 DEF Under
    <3> QED BY <3>1, <3>2, <3>3
  <2>2. CASE Hits # {}
    <3>1. PICK n \in Hits : \A m \in Hits : Len(m) <= Len(n)
      <4>1. Hits \subseteq Seq(T) /\ Len(tokens) \in Nat /\ \A m \in Hits : Len(m) <= Len(tokens)
        BY <1>3, PrefixOrder
      <4> HIDE DEF Hits
      <4> QED BY <2>2, <4>1, LongestExists
    <3> DEFINE i == Len(n)
    <3>2. n \in DOMAIN R /\ n \in Seq(T) /\ Hit(n)
      BY <1>3, <3>1
    <3>3. i \in 0 .. Len(tokens) /\ n = SubSeq(tokens, 1, i)
      <4>1. i \in 0 .. Len(tokens)
        BY <1>3, <3>2, PrefixOrder
      <4> QED BY <1>3, <3>2, <4>1, CutIsPrefix
    <3>4. \A q : q \in Cuts(n) <=> q \in Seq(T) /\ q # <<>> /\ IsPrefix(q, n)
      BY <3>2, CutsArePrefixes
    <3>5. ASSUME NEW q \in Held(u, r)
          PROVE  Recency(M, q, r) = IF q \in Cuts(n) THEN at ELSE Recency(R, q, r)
      <4>1. q \in Held(t, r) /\ q \in Seq(T) /\ q # <<>>
        BY <1>7, <1>8
      <4>2. CASE q \in Cuts(n)
        <5>1. n \in Under(M, q, r) /\ M[n][r] = at
          <6>1. M[n][r] = at /\ DOMAIN M[n] = DOMAIN R[n] /\ r \in DOMAIN R[n]
            BY <1>5, <3>2
          <6> QED BY <1>1, <3>2, <3>4, <4>2, <6>1 DEF Under
        <5>2. \A m \in Under(M, q, r) : M[n][r] >= M[m][r]
          BY <1>4, <5>1 DEF Under
        <5>3. \A m \in DOMAIN M : r \in DOMAIN M[m] => M[m][r] \in Int
          BY <1>4
        <5>4. Recency(M, q, r) = M[n][r]
          BY <1>3, <4>1, <5>1, <5>2, <5>3, LatestIsRecency
        <5> QED BY <4>2, <5>1, <5>4
      <4>3. CASE q \notin Cuts(n)
        <5>1. ASSUME NEW m \in Under(R, q, r), Hit(m) PROVE FALSE
          <6>1. m \in Hits /\ m \in Seq(T) /\ IsPrefix(q, m) /\ IsPrefix(m, tokens)
            BY <1>3, <5>1 DEF Under
          <6>2. Len(m) <= Len(n)
            BY <3>1, <6>1
          <6>3. IsPrefix(m, n)
            BY <1>3, <3>2, <6>1, <6>2, PrefixOrder
          <6>4. IsPrefix(q, n)
            BY <3>2, <4>1, <6>1, <6>3, PrefixOrder
          <6> QED BY <3>4, <4>1, <4>3, <6>4
        <5> QED BY <1>9, <4>1, <4>3, <5>1
      <4> QED BY <4>2, <4>3
    <3> QED BY <3>3, <3>5
  <2> QED BY <2>1, <2>2
<1>12. UsedUpTo(u, t, tokens, r, at)
  BY <1>8, <1>10, <1>11 DEF UsedUpTo
<1> QED BY <1>12 DEF u

----------------------------------------------------------------------------
\* _evict_one()

\* A node is no deeper than its resident holds prefixes.
LEMMA DepthIsHeld ==
  ASSUME NEW t, NEW T, DOMAIN t.residents \subseteq Seq(T), NEW r, IsFiniteSet(Held(t, r)),
         NEW m \in DOMAIN t.residents, r \in DOMAIN t.residents[m]
  PROVE  Len(m) <= Cardinality(Held(t, r))
<1>1. m \in Seq(T) /\ Len(m) \in Nat
  OBVIOUS
<1>2. Cuts(m) \subseteq Held(t, r)
  BY DEF Cuts, Held, Nodes, Holds
<1>3. Cardinality(Cuts(m)) = Len(m)
  <2> DEFINE I == 1 .. Len(m)
  <2>1. I \in SUBSET (1 .. Len(m)) /\ Cardinality(I) = Len(m)
    BY <1>1, FS_Interval
  <2>2. Cuts(m) = {SubSeq(m, 1, i) : i \in I}
    BY DEF Cuts
  <2> HIDE DEF I
  <2> QED BY <1>1, <2>1, <2>2, CutsCounted
<1> QED BY <1>2, <1>3, FS_Subset

\* Below whatever a replica holds there is a tail of its.
LEMMA TailBelow ==
  ASSUME NEW t, NEW T, Shaped(t.residents, T), NEW r, IsFiniteSet(Held(t, r)),
         NEW m \in DOMAIN t.residents, r \in DOMAIN t.residents[m]
  PROVE  \E e \in Evictable(t, r) : IsPrefix(m, e)
<1> DEFINE R == t.residents
           B == {x \in DOMAIN R : IsPrefix(m, x) /\ r \in DOMAIN R[x]}
<1>1. DOMAIN R \subseteq Seq(T) /\ R[<<>>] = NoResidents /\ m \in Seq(T)
  BY DEF Shaped
<1>2. PICK e \in B : \A x \in B : Len(x) <= Len(e)
  <2>1. m \in B /\ B \subseteq Seq(T)
    BY <1>1, PrefixOrder
  <2>2. \A x \in B : Len(x) <= Cardinality(Held(t, r))
    BY <1>1, DepthIsHeld
  <2>3. Cardinality(Held(t, r)) \in Nat
    BY FS_CardinalityType
  <2> HIDE DEF B
  <2> QED BY <2>1, <2>2, <2>3, LongestExists
<1>3. e \in DOMAIN R /\ e \in Seq(T) /\ IsPrefix(m, e) /\ r \in DOMAIN R[e]
  BY <1>1, <1>2
<1>4. e # <<>>
  BY <1>1, <1>3 DEF NoResidents
<1>5. ASSUME NEW c \in Children(t, e), Holds(t, c, r) PROVE FALSE
  <2>1. c \in DOMAIN R /\ c \in Seq(T) /\ IsPrefix(e, c) /\ Len(e) < Len(c)
    BY <1>1, <1>3, PrefixOrder DEF Children, Nodes
  <2>2. c \in B
    BY <1>1, <1>3, <1>5, <2>1, PrefixOrder DEF Holds
  <2> QED BY <1>1, <1>2, <1>3, <2>1, <2>2
<1> QED BY <1>3, <1>4, <1>5 DEF Evictable, IsTailFor, Nodes, Holds

\* While a replica holds anything, there is something to evict.
LEMMA VictimExists ==
  ASSUME NEW t, NEW T, NEW P, NEW A, NEW h \in Nat, Sound(t, T, P, A, h), NEW r,
         IsFiniteSet(Held(t, r)), Held(t, r) # {}
  PROVE  Victims(t, r) # {}
<1> DEFINE R == t.residents
           E == Evictable(t, r)
           times == {R[n][r] : n \in E}
<1>1. Shaped(R, T) /\ DOMAIN R \subseteq Seq(T)
  BY SoundShaped DEF Shaped
<1>2. PICK m \in DOMAIN R : r \in DOMAIN R[m]
  BY DEF Held, Nodes, Holds
<1>3. E # {}
  BY <1>1, <1>2, TailBelow
<1>4. \A n \in E : R[n][r] \in Nat
  <2>1. \A n \in E : n \in DOMAIN R /\ r \in DOMAIN R[n]
    BY DEF Evictable, Nodes, Holds
  <2>2. \A n \in DOMAIN R : \A s \in DOMAIN R[n] : R[n][s] \in 0 .. h
    BY DEF Sound, Timed
  <2> QED BY <2>1, <2>2
<1>5. times \subseteq Nat /\ times # {}
  BY <1>3, <1>4
<1>6. PICK x \in times : \A y \in times : x <= y
  <2> HIDE DEF times
  <2> QED BY <1>5, LeastNat
<1> QED BY <1>6 DEF Victims

\* From t to u, r has lost some of its least recently used prefixes.
LostOldest(u, t, r) ==
  /\ \A s : s # r => Unaffected(u, t, s)
  /\ \E gone \in (SUBSET Held(t, r)) \ {{}} :
       /\ Held(u, r) = Held(t, r) \ gone
       /\ \A q \in gone : \A x \in Held(t, r) :
            Recency(t.residents, q, r) <= Recency(t.residents, x, r)
  /\ \A q \in Held(u, r) : Recency(u.residents, q, r) = Recency(t.residents, q, r)
  /\ Counted(u, r)

\* _evict_one() takes an edge's worth of the oldest, and counts it off.
LEMMA EvictTakesOldest ==
  ASSUME NEW t, NEW T, NEW P, NEW A, NEW h \in Nat, Sound(t, T, P, A, h), NEW r \in A,
         Counted(t, r), NEW victim \in Victims(t, r)
  PROVE  LostOldest(Evicted(t, r, victim), t, r)
<1> DEFINE u == Evicted(t, r, victim)
           R == t.residents
           M == u.residents
           above == CHOOSE p \in Nodes(t) : victim \in Children(t, p)
           beyond == (Len(above) + 1) .. Len(victim)
           gone == {SubSeq(victim, 1, i) : i \in beyond}
<1>1. /\ Shaped(R, T) /\ Rooted(t, T) /\ Nodes(t) = DOMAIN R /\ DOMAIN R \subseteq Seq(T)
      /\ R[<<>>] = NoResidents /\ Branching(Nodes(t)) /\ Layered(R)
  BY SoundShaped DEF Shaped
<1>2. /\ victim \in Evictable(t, r) /\ \A m \in Evictable(t, r) : R[victim][r] <= R[m][r]
      /\ victim \in DOMAIN R /\ victim \in Seq(T) /\ victim # <<>>
      /\ r \in DOMAIN R[victim] /\ IsTailFor(t, victim, r)
  BY <1>1 DEF Victims, Evictable, Nodes, Holds
<1>3. Sound(u, T, P, A, h)
  BY <1>2, EvictSound
<1>4. /\ DOMAIN M = DOMAIN R /\ u.tokens_used = Put(t.tokens_used, r, Used(t, r) - Edge(t, victim))
      /\ \A n \in DOMAIN R : M[n] = IF n = victim THEN Drop(R[n], r) ELSE R[n]
  BY DEF Evicted
<1>5. Shaped(M, T) /\ \A n \in DOMAIN M : \A s \in DOMAIN M[n] : M[n][s] \in Int
  <2>1. \A n \in DOMAIN M : \A s \in DOMAIN M[n] : M[n][s] \in 0 .. h
    BY <1>3 DEF Sound, Timed
  <2> QED BY <1>3, <2>1, SoundShaped
<1>6. \A n \in DOMAIN R : \A s \in DOMAIN R[n] : R[n][s] \in Int
  <2>1. \A n \in DOMAIN R : \A s \in DOMAIN R[n] : R[n][s] \in 0 .. h
    BY DEF Sound, Timed
  <2> QED BY <2>1
<1>7. /\ above \in DOMAIN R /\ above \in Seq(T) /\ victim \in Children(t, above)
      /\ IsPrefix(above, victim) /\ Len(above) < Len(victim) /\ Len(above) \in Nat
      /\ Len(victim) \in Nat
  <2>1. \E p \in Nodes(t) : victim \in Children(t, p)
    BY <1>1, <1>2, ParentExists
  <2>2. above \in Nodes(t) /\ victim \in Children(t, above)
    BY <2>1
  <2> HIDE DEF above
  <2> QED BY <1>1, <1>2, <2>2, PrefixOrder DEF Children
<1>8. Edge(t, victim) = Len(victim) - Len(above)
  BY DEF Edge
<1> HIDE DEF u, above
<1>9. \A n \in DOMAIN R :
        /\ DOMAIN M[n] = IF n = victim THEN DOMAIN R[n] \ {r} ELSE DOMAIN R[n]
        /\ \A s \in DOMAIN M[n] : M[n][s] = R[n][s]
  BY <1>4 DEF Drop
<1>10. /\ \A s, q : q \in Held(t, s) <=> q \in Seq(T) /\ q # <<>> /\ Under(R, q, s) # {}
       /\ \A s, q : q \in Held(u, s) <=> q \in Seq(T) /\ q # <<>> /\ Under(M, q, s) # {}
  BY <1>1, <1>4, HeldIsUnder
\* What goes: the prefixes that end on the victim's edge.
<1>11. \A q : q \in gone <=> q \in Seq(T) /\ q # <<>> /\ IsPrefix(q, victim) /\ Len(above) < Len(q)
  <2>1. ASSUME NEW i \in beyond
        PROVE  /\ SubSeq(victim, 1, i) \in Seq(T) /\ Len(SubSeq(victim, 1, i)) = i
               /\ IsPrefix(SubSeq(victim, 1, i), victim) /\ Len(above) < i
    <3>1. i \in 0 .. Len(victim) /\ Len(above) < i
      BY <1>7
    <3> QED BY <1>2, <3>1, CutIsPrefix
  <2>2. ASSUME NEW q \in Seq(T), IsPrefix(q, victim), Len(above) < Len(q)
        PROVE  Len(q) \in beyond /\ q = SubSeq(victim, 1, Len(q))
    <3>1. Len(q) \in 0 .. Len(victim)
      BY <1>2, <2>2, PrefixOrder
    <3> QED BY <1>2, <1>7, <2>2, <3>1, CutIsPrefix
  <2>3. \A q : q \in gone <=> \E i \in beyond : q = SubSeq(victim, 1, i)
    OBVIOUS
  <2> HIDE DEF gone, beyond
  <2>4. ASSUME NEW q \in gone
        PROVE  q \in Seq(T) /\ q # <<>> /\ IsPrefix(q, victim) /\ Len(above) < Len(q)
    <3>1. PICK i \in beyond : q = SubSeq(victim, 1, i)
      BY <2>3
    <3>2. q \in Seq(T) /\ Len(q) = i /\ IsPrefix(q, victim) /\ Len(above) < i
      BY <2>1, <3>1
    <3>3. q # <<>>
      BY <1>7, <3>2, EmptySeq
    <3> QED BY <3>2, <3>3
  <2> QED BY <2>2, <2>3, <2>4
\* Below what goes there was nothing but the victim.
<1>12. ASSUME NEW q \in gone PROVE Under(R, q, r) = {victim}
  <2>1. victim \in Under(R, q, r) /\ q \in Seq(T) /\ IsPrefix(q, victim) /\ Len(above) < Len(q)
    BY <1>2, <1>11 DEF Under
  <2>2. ASSUME NEW m \in Under(R, q, r), m # victim PROVE FALSE
    <3>1. m \in DOMAIN R /\ m \in Seq(T) /\ IsPrefix(q, m) /\ r \in DOMAIN R[m]
      BY <1>1 DEF Under
    <3>2. IsPrefix(victim, m)
      BY <1>1, <1>7, <2>1, <3>1, EdgeHasNoExit
    <3>3. Len(victim) < Len(m)
      BY <1>2, <2>2, <3>1, <3>2, PrefixOrder
    <3>4. PICK c \in Children(t, victim) : IsPrefix(c, m)
      BY <1>1, <1>2, <3>1, <3>2, <3>3, ChildTowards
    <3>5. c \in DOMAIN R /\ c # <<>>
      <4>1. c \in DOMAIN R /\ c \in Seq(T) /\ Len(victim) < Len(c)
        BY <1>1, <1>2, PrefixOrder DEF Children
      <4> QED BY <1>7, <4>1, EmptySeq
    <3>6. r \in DOMAIN R[c]
      BY <1>1, <3>1, <3>4, <3>5 DEF Layered
    <3> QED BY <1>2, <3>6 DEF IsTailFor, Holds
  <2> QED BY <2>1, <2>2
\* What stays is held at a node other than the victim, and no earlier than it.
<1>13. ASSUME NEW q \in Held(t, r), q \notin gone
       PROVE  \E n \in Under(M, q, r) : /\ Recency(R, q, r) = M[n][r]
                                        /\ \A m \in Under(M, q, r) : M[n][r] >= M[m][r]
  <2>1. q \in Seq(T) /\ q # <<>> /\ Under(R, q, r) # {}
    BY <1>10
  <2>2. PICK x \in Under(R, q, r) : /\ Recency(R, q, r) = R[x][r]
                                    /\ \A m \in Under(R, q, r) : R[x][r] >= R[m][r]
    BY <1>1, <2>1, RecencyIsLatest
  <2>3. \A m \in Under(M, q, r) : m \in Under(R, q, r) /\ m # victim /\ M[m][r] = R[m][r]
    BY <1>4, <1>9 DEF Under
  <2>4. \A m \in Under(R, q, r) : m # victim => m \in Under(M, q, r) /\ M[m][r] = R[m][r]
    BY <1>4, <1>9 DEF Under
  <2>5. CASE x # victim
    BY <2>2, <2>3, <2>4, <2>5
  <2>6. CASE x = victim
    <3>1. IsPrefix(q, victim)
      BY <2>2, <2>6 DEF Under
    <3>2. Len(q) <= Len(above)
      BY <1>7, <1>11, <1>13, <2>1, <3>1
    <3>3. IsPrefix(q, above) /\ above # <<>>
      <4>1. IsPrefix(q, above)
        BY <1>2, <1>7, <2>1, <3>1, <3>2, PrefixOrder
      <4>2. Len(q) # 0 /\ Len(q) \in Nat
        BY <2>1, EmptySeq
      <4> QED BY <1>7, <3>2, <4>1, <4>2, EmptySeq
    <3>4. r \in DOMAIN R[above] /\ R[above][r] >= R[victim][r]
      BY <1>1, <1>2, <1>7, <3>3 DEF Layered
    <3>5. above \in Under(R, q, r) /\ above # victim
      BY <1>7, <3>3, <3>4 DEF Under
    <3>6. R[above][r] = R[x][r]
      BY <1>2, <1>6, <1>7, <2>2, <2>6, <3>4, <3>5
    <3> QED BY <2>2, <2>3, <2>4, <3>5, <3>6
  <2> QED BY <2>5, <2>6
<1>14. Held(u, r) = Held(t, r) \ gone
  <2>1. ASSUME NEW q \in Held(u, r) PROVE q \in Held(t, r) /\ q \notin gone
    <3>1. PICK m \in Under(M, q, r) : TRUE
      BY <1>10
    <3>2. m \in Under(R, q, r) /\ m # victim
      BY <1>4, <1>9 DEF Under
    <3> QED BY <1>10, <1>12, <3>2
  <2>2. ASSUME NEW q \in Held(t, r), q \notin gone PROVE q \in Held(u, r)
    BY <1>10, <1>13, <2>2
  <2> QED BY <2>1, <2>2
<1>15. \A q \in Held(u, r) : Recency(M, q, r) = Recency(R, q, r)
  <2>1. ASSUME NEW q \in Held(u, r) PROVE Recency(M, q, r) = Recency(R, q, r)
    <3>1. q \in Held(t, r) /\ q \notin gone /\ q \in Seq(T) /\ q # <<>>
      BY <1>10, <1>14
    <3>2. PICK n \in Under(M, q, r) : /\ Recency(R, q, r) = M[n][r]
                                      /\ \A m \in Under(M, q, r) : M[n][r] >= M[m][r]
      BY <1>13, <3>1
    <3>3. Recency(M, q, r) = M[n][r]
      <4>1. \A m \in DOMAIN M : r \in DOMAIN M[m] => M[m][r] \in Int
        BY <1>5
      <4> QED BY <1>5, <3>1, <3>2, <4>1, LatestIsRecency
    <3> QED BY <3>2, <3>3
  <2> QED BY <2>1
\* The oldest tail is the oldest there is.
<1>16. ASSUME NEW q \in gone, NEW x \in Held(t, r)
       PROVE  Recency(R, q, r) <= Recency(R, x, r)
  <2>1. q \in Seq(T) /\ q # <<>> /\ Under(R, q, r) = {victim}
    BY <1>11, <1>12
  <2>2. Recency(R, q, r) = R[victim][r]
    BY <1>1, <2>1, RecencyIsLatest
  <2>3. x \in Seq(T) /\ x # <<>> /\ Under(R, x, r) # {}
    BY <1>10
  <2>4. PICK n \in Under(R, x, r) : Recency(R, x, r) = R[n][r]
    BY <1>1, <2>3, RecencyIsLatest
  <2>5. n \in DOMAIN R /\ n \in Seq(T) /\ r \in DOMAIN R[n] /\ n # <<>>
    BY <1>1 DEF Under, NoResidents
  <2>6. PICK e \in Evictable(t, r) : IsPrefix(n, e)
    BY <1>1, <2>5, TailBelow DEF Counted
  <2>7. e \in DOMAIN R /\ r \in DOMAIN R[e]
    BY DEF Evictable, Nodes, Holds
  <2>8. R[n][r] >= R[e][r] /\ R[victim][r] <= R[e][r]
    BY <1>1, <1>2, <2>5, <2>6, <2>7 DEF Layered
  <2> QED BY <1>2, <1>6, <2>2, <2>4, <2>5, <2>7, <2>8
\* The count.
<1>17. gone \subseteq Held(t, r) /\ gone # {}
  <2>1. ASSUME NEW q \in gone PROVE q \in Held(t, r)
    BY <1>10, <1>11, <1>12
  <2>2. Len(victim) \in beyond
    BY <1>7
  <2> QED BY <2>1, <2>2
<1>18. Counted(u, r)
  <2>1. IsFiniteSet(gone) /\ Cardinality(gone) = Edge(t, victim)
    <3>1. beyond \in SUBSET (1 .. Len(victim)) /\ Cardinality(beyond) = Edge(t, victim)
      <4>1. Len(above) + 1 \in Int /\ Len(victim) \in Int /\ ~(Len(above) + 1 > Len(victim))
        BY <1>7
      <4>2. Cardinality(beyond) = Len(victim) - (Len(above) + 1) + 1
        BY <4>1, FS_Interval
      <4> QED BY <1>7, <1>8, <4>2
    <3> HIDE DEF beyond
    <3> QED BY <1>2, <3>1, CutsCounted
  <2>2. Held(t, r) \cap gone = gone
    BY <1>17
  <2> HIDE DEF gone
  <2>3. /\ IsFiniteSet(Held(u, r))
        /\ Cardinality(Held(u, r)) = Cardinality(Held(t, r)) - Cardinality(gone)
    <3>1. IsFiniteSet(Held(t, r))
      BY DEF Counted
    <3> QED BY <1>14, <2>2, <3>1, FS_Difference
  <2>4. Used(u, r) = Used(t, r) - Edge(t, victim)
    BY <1>4 DEF Used, Put
  <2> QED BY <2>1, <2>3, <2>4 DEF Counted
<1>19. ASSUME NEW s, s # r PROVE Unaffected(u, t, s)
  <2>1. \A q : Under(M, q, s) = Under(R, q, s)
    BY <1>4, <1>9, <1>19 DEF Under
  <2>2. \A q : q \in Held(u, s) <=> q \in Held(t, s)
    BY <1>10, <2>1
  <2>3. Used(u, s) = Used(t, s)
    BY <1>4, <1>19 DEF Used, Put
  <2>4. ASSUME NEW q \in Held(t, s) PROVE Recency(M, q, s) = Recency(R, q, s)
    <3>1. q \in Seq(T) /\ q # <<>> /\ Under(R, q, s) # {}
      BY <1>10
    <3>2. \A m \in Under(R, q, s) : M[m][s] = R[m][s]
      BY <1>9, <1>19 DEF Under
    <3> QED BY <1>1, <1>5, <2>1, <3>1, <3>2, AgreeingRecency
  <2> QED BY <2>2, <2>3, <2>4 DEF Unaffected
<1> HIDE DEF gone
<1>20. LostOldest(u, t, r)
  BY <1>14, <1>15, <1>16, <1>17, <1>18, <1>19 DEF LostOldest
<1> QED BY <1>20 DEF u

----------------------------------------------------------------------------
\* match()

\* Max is the greatest element, if there is one.
LEMMA MaxIs ==
  ASSUME NEW S, S \subseteq Int, NEW x \in S, \A y \in S : y <= x
  PROVE  Max(S) = x
<1>1. Max(S) \in S /\ \A y \in S : Max(S) >= y
  <2>1. \E z \in S : \A y \in S : z >= y
    OBVIOUS
  <2> QED BY <2>1 DEF Max
<1>2. Max(S) \in Int /\ x \in Int /\ Max(S) >= x /\ Max(S) <= x
  BY <1>1
<1> QED BY <1>2

\* A set of numbers up to a bound has a greatest element.
LEMMA MaxExists ==
  ASSUME NEW b \in Nat, NEW S, S \subseteq 0 .. b, S # {}
  PROVE  Max(S) \in S /\ \A y \in S : y <= Max(S)
<1> DEFINE slack == {b - x : x \in S}
<1>1. slack \subseteq Nat /\ slack # {}
  <2>1. \A x \in S : b - x \in Nat
    OBVIOUS
  <2> QED BY <2>1
<1>2. PICK z \in slack : \A y \in slack : z <= y
  BY <1>1, LeastNat
<1>3. PICK x \in S : z = b - x
  BY <1>2
<1>4. \A y \in S : y <= x
  <2>1. \A y \in S : b - y \in slack
    OBVIOUS
  <2> QED BY <1>2, <1>3, <2>1
<1>5. Max(S) = x
  <2>1. S \subseteq Int
    OBVIOUS
  <2> QED BY <1>4, <2>1, MaxIs
<1> QED BY <1>4, <1>5

\* More tokens are at least as many whole blocks.
LEMMA UsableGrows ==
  ASSUME NEW unit \in Nat \ {0}, NEW i \in Nat, NEW j \in Nat, i <= j
  PROVE  Usable(i, unit) \in Nat /\ Usable(j, unit) \in Nat /\ Usable(i, unit) <= Usable(j, unit)
<1>1. i \div unit \in Nat /\ j \div unit \in Nat /\ i \div unit <= j \div unit
  OBVIOUS
<1> QED BY <1>1 DEF Usable

\* Where the walk leaves the tree nothing is held beyond it; and what it passes
\* on the way, or ends inside of, is held for the prefixes on its edge.
LEMMA WalkShowsHeld ==
  ASSUME NEW t, NEW T, Shaped(t.residents, T), NEW tokens \in Seq(T), NEW r,
         NEW i \in 1 .. Len(tokens), Under(t.residents, SubSeq(tokens, 1, i), r) # {}
  PROVE  \/ \E n \in Walk(t, tokens) : Holds(t, n, r) /\ i <= Len(n)
         \/ \E d \in MidEdge(t, tokens) : Holds(t, d, r) /\ i <= Matched(t, tokens)
<1> DEFINE R == t.residents
           D == Deepest(t, tokens)
           k == Matched(t, tokens)
           c == CHOOSE x \in MidEdge(t, tokens) : TRUE
           q == SubSeq(tokens, 1, i)
<1>1. /\ Rooted(t, T) /\ Branching(Nodes(t)) /\ Layered(R) /\ Nodes(t) = DOMAIN R
      /\ Nodes(t) \subseteq Seq(T)
  BY DEF Shaped, Rooted, Nodes
<1>2. D \in Nodes(t) /\ D \in Seq(T) /\ IsPrefix(D, tokens)
  BY <1>1, DeepestIsLongest
<1>3. /\ k \in Nat /\ Len(D) <= k /\ k <= Len(tokens)
      /\ MidEdge(t, tokens) = {} =>
           /\ k = Len(D) /\ SubSeq(tokens, 1, k) = D
           /\ \A m \in Nodes(t) :
                IsPrefix(D, m) /\ Len(D) < Len(m) /\ Len(D) < Len(tokens)
                  => m[Len(D) + 1] # tokens[Len(D) + 1]
      /\ MidEdge(t, tokens) # {} =>
           /\ c \in Children(t, D) /\ c \in Nodes(t) /\ c \in Seq(T)
           /\ Len(D) < k /\ k < Len(c)
           /\ \A j \in 1 .. k : c[j] = tokens[j]
           /\ k < Len(tokens) => c[k + 1] # tokens[k + 1]
  BY <1>1, WalkStops
<1>4. q \in Seq(T) /\ Len(q) = i /\ IsPrefix(q, tokens) /\ \A j \in 1 .. i : q[j] = tokens[j]
  <2>1. i \in 0 .. Len(tokens)
    OBVIOUS
  <2> QED BY <2>1, CutIsPrefix
<1>5. PICK m \in Nodes(t) : IsPrefix(q, m) /\ r \in DOMAIN R[m]
  BY <1>1 DEF Under
<1> HIDE DEF R, D, k, c, q
<1>6. m \in Seq(T) /\ Len(m) \in Nat /\ Len(D) \in Nat /\ i <= Len(m)
      /\ \A j \in 1 .. i : m[j] = tokens[j]
  <2>1. \A j \in 1 .. Len(q) : q[j] = m[j]
    BY <1>1, <1>4, <1>5, PrefixPointwise
  <2> QED BY <1>1, <1>2, <1>4, <1>5, <2>1, PrefixOrder
\* Within the nodes of the walk.
<1>7. CASE i <= Len(D)
  <2>1. PICK b \in Nodes(t) : BranchPoint(b, D, m)
    BY <1>1, <1>2 DEF Branching
  <2>2. b \in Seq(T) /\ IsPrefix(b, D) /\ IsPrefix(b, m) /\ Len(b) \in Nat
    BY <1>1, <2>1 DEF BranchPoint
  <2>3. i <= Len(b)
    <3>1. SUFFICES ASSUME Len(b) < i PROVE FALSE
      BY <2>2
    <3>2. D[Len(b) + 1] # m[Len(b) + 1]
      BY <1>6, <1>7, <2>1, <2>2, <3>1 DEF BranchPoint
    <3>3. D[Len(b) + 1] = tokens[Len(b) + 1]
      <4>1. Len(b) + 1 \in 1 .. Len(D)
        BY <1>6, <1>7, <2>2, <3>1
      <4> QED BY <1>2, <4>1, PrefixPointwise
    <3>4. m[Len(b) + 1] = tokens[Len(b) + 1]
      BY <1>6, <2>2, <3>1
    <3> QED BY <3>2, <3>3, <3>4
  <2>4. IsPrefix(b, tokens)
    BY <1>2, <2>2, PrefixOrder
  <2>5. b # <<>>
    BY <2>2, <2>3, EmptySeq
  <2>6. r \in DOMAIN R[b]
    BY <1>1, <1>5, <2>2, <2>5 DEF Layered
  <2>7. b \in Walk(t, tokens) /\ Holds(t, b, r)
    BY <2>4, <2>6 DEF Walk, Holds, R
  <2> QED BY <2>3, <2>7
\* Beyond them.
<1>8. CASE Len(D) < i
  <2>1. IsPrefix(D, q)
    BY <1>2, <1>4, <1>6, <1>8, PrefixOrder
  <2>2. IsPrefix(D, m) /\ Len(D) < Len(m) /\ Len(D) < Len(tokens)
    BY <1>1, <1>2, <1>4, <1>5, <1>6, <1>8, <2>1, PrefixOrder
  <2>3. Len(D) + 1 \in 1 .. i
    BY <1>6, <1>8
  <2>4. MidEdge(t, tokens) # {}
    BY <1>3, <1>6, <2>2, <2>3
  <2>5. /\ c \in Children(t, D) /\ c \in Nodes(t) /\ c \in Seq(T) /\ k \in Nat
        /\ Len(D) < k /\ k < Len(c) /\ k <= Len(tokens)
        /\ \A j \in 1 .. k : c[j] = tokens[j]
        /\ k < Len(tokens) => c[k + 1] # tokens[k + 1]
    BY <1>3, <2>4
  <2>6. IsPrefix(c, m)
    <3> DEFINE x == SubSeq(tokens, 1, Len(D) + 1)
    <3>1. x \in Seq(T) /\ Len(x) = Len(D) + 1 /\ \A j \in 1 .. Len(D) + 1 : x[j] = tokens[j]
      <4>1. Len(D) + 1 \in 0 .. Len(tokens)
        BY <1>6, <2>3
      <4> QED BY <4>1, CutIsPrefix
    <3> HIDE DEF x
    <3>2. IsPrefix(x, c)
      <4>1. \A j \in 1 .. Len(x) : x[j] = c[j]
        BY <1>6, <2>5, <3>1
      <4> QED BY <1>6, <2>5, <3>1, <4>1, PrefixPointwise
    <3>3. IsPrefix(x, m)
      <4>1. \A j \in 1 .. Len(x) : x[j] = m[j]
        BY <1>6, <2>3, <3>1
      <4> QED BY <1>6, <2>2, <3>1, <4>1, PrefixPointwise
    <3> QED BY <1>1, <1>2, <1>6, <2>5, <3>1, <3>2, <3>3, EdgeHasNoExit
  <2>7. i <= k
    <3>1. SUFFICES ASSUME k < i PROVE FALSE
      BY <2>5
    <3>2. c[k + 1] = m[k + 1]
      <4>1. k + 1 \in 1 .. Len(c)
        BY <2>5
      <4> QED BY <1>6, <2>5, <2>6, <4>1, PrefixPointwise
    <3>3. m[k + 1] = tokens[k + 1] /\ k < Len(tokens)
      BY <1>6, <2>5, <3>1
    <3> QED BY <2>5, <3>2, <3>3
  <2>8. c # <<>>
    BY <1>6, <2>5, EmptySeq
  <2>9. r \in DOMAIN R[c]
    BY <1>1, <1>5, <2>5, <2>6, <2>8 DEF Layered
  <2>10. c \in MidEdge(t, tokens) /\ Holds(t, c, r)
    BY <2>4, <2>9 DEF c, Holds, R
  <2> QED BY <2>7, <2>10 DEF k
<1> QED BY <1>6, <1>7, <1>8

\* And what it shows is held.
LEMMA HeldIsShown ==
  ASSUME NEW t, NEW T, Shaped(t.residents, T), NEW tokens \in Seq(T), NEW r
  PROVE  /\ \A n \in Walk(t, tokens) : Holds(t, n, r) =>
              Len(n) \in 1 .. Len(tokens) /\ SubSeq(tokens, 1, Len(n)) \in Held(t, r)
         /\ \A d \in MidEdge(t, tokens) : Holds(t, d, r) =>
              /\ Matched(t, tokens) \in 1 .. Len(tokens)
              /\ SubSeq(tokens, 1, Matched(t, tokens)) \in Held(t, r)
<1> DEFINE R == t.residents
           k == Matched(t, tokens)
           D == Deepest(t, tokens)
<1>1. /\ Rooted(t, T) /\ Branching(Nodes(t)) /\ Nodes(t) = DOMAIN R
      /\ Nodes(t) \subseteq Seq(T) /\ R[<<>>] = NoResidents
  BY DEF Shaped, Rooted, Nodes
<1>2. \A q : q \in Held(t, r) <=> q \in Seq(T) /\ q # <<>> /\ Under(R, q, r) # {}
  BY <1>1, HeldIsUnder
<1>3. ASSUME NEW n \in Walk(t, tokens), Holds(t, n, r)
      PROVE  Len(n) \in 1 .. Len(tokens) /\ SubSeq(tokens, 1, Len(n)) \in Held(t, r)
  <2>1. n \in Nodes(t) /\ n \in Seq(T) /\ IsPrefix(n, tokens) /\ r \in DOMAIN R[n] /\ n # <<>>
    BY <1>1, <1>3 DEF Walk, Holds, NoResidents
  <2>2. Len(n) \in 0 .. Len(tokens) /\ Len(n) # 0
    BY <2>1, PrefixOrder, EmptySeq
  <2>3. n = SubSeq(tokens, 1, Len(n))
    BY <2>1, <2>2, CutIsPrefix
  <2>4. n \in Under(R, n, r)
    BY <1>1, <2>1, PrefixOrder DEF Under
  <2>5. n \in Held(t, r)
    BY <1>2, <2>1, <2>4
  <2>6. Len(n) \in 1 .. Len(tokens)
    BY <2>2
  <2> QED BY <2>3, <2>5, <2>6
<1>4. ASSUME NEW d \in MidEdge(t, tokens), Holds(t, d, r)
      PROVE  k \in 1 .. Len(tokens) /\ SubSeq(tokens, 1, k) \in Held(t, r)
  <2> DEFINE c == CHOOSE x \in MidEdge(t, tokens) : TRUE
  <2>1. /\ k \in Nat /\ Len(D) < k /\ k <= Len(tokens) /\ D \in Nodes(t) /\ Len(D) \in Nat
        /\ c \in Children(t, D) /\ c \in Seq(T) /\ k < Len(c)
        /\ \A j \in 1 .. k : c[j] = tokens[j]
    BY <1>1, WalkStops, DeepestIsLongest
  <2>2. c \in MidEdge(t, tokens)
    OBVIOUS
  <2> HIDE DEF c, k, D
  <2>3. d = c
    <3>1. d \in Children(t, D) /\ d[Len(D) + 1] = c[Len(D) + 1]
      BY <2>2 DEF MidEdge, D
    <3> QED BY <1>1, <2>1, <3>1, SiblingsPart
  <2> DEFINE q == SubSeq(tokens, 1, k)
  <2>4. q \in Seq(T) /\ Len(q) = k /\ \A j \in 1 .. k : q[j] = tokens[j]
    <3>1. k \in 0 .. Len(tokens)
      BY <2>1
    <3> QED BY <3>1, CutIsPrefix
  <2> HIDE DEF q
  <2>5. IsPrefix(q, c)
    <3>1. \A j \in 1 .. Len(q) : q[j] = c[j]
      BY <2>1, <2>4
    <3> QED BY <2>1, <2>4, <3>1, PrefixPointwise
  <2>6. q # <<>>
    BY <2>1, <2>4, EmptySeq
  <2>7. c \in Under(R, q, r)
    BY <1>1, <1>4, <2>1, <2>3, <2>5 DEF Under, Holds, Children
  <2>8. q \in Held(t, r)
    BY <1>2, <2>4, <2>6, <2>7
  <2>9. k \in 1 .. Len(tokens)
    BY <2>1
  <2> QED BY <2>8, <2>9 DEF q
<1> QED BY <1>3, <1>4

\* match() reports the longest held prefix in whole blocks.
LEMMA MatchIsLongest ==
  ASSUME NEW t, NEW T, Shaped(t.residents, T), NEW tokens \in Seq(T), NEW r,
         NEW unit \in Nat \ {0}
  PROVE  MatchFor(t, tokens, r, unit) =
           Usable(Max({0} \cup {i \in 1 .. Len(tokens) : SubSeq(tokens, 1, i) \in Held(t, r)}), unit)
<1> DEFINE k     == Matched(t, tokens)
           held  == {0} \cup {i \in 1 .. Len(tokens) : SubSeq(tokens, 1, i) \in Held(t, r)}
           nodes == {Usable(Len(n), unit) : n \in {m \in Walk(t, tokens) : Holds(t, m, r)}}
           edge  == {Usable(k, unit) : c \in {d \in MidEdge(t, tokens) : Holds(t, d, r)}}
           found == {0} \cup nodes \cup edge
           most  == Max(held)
<1>1. most \in held /\ \A i \in held : i <= most
  <2>1. Len(tokens) \in Nat /\ held \subseteq 0 .. Len(tokens) /\ held # {}
    OBVIOUS
  <2> HIDE DEF held
  <2> QED BY <2>1, MaxExists
<1>2. most \in 0 .. Len(tokens) /\ Usable(most, unit) \in Nat /\ Usable(0, unit) = 0
  <2>1. most \in 0 .. Len(tokens)
    BY <1>1
  <2>2. 0 \div unit = 0
    OBVIOUS
  <2> HIDE DEF most
  <2> QED BY <2>1, <2>2, UsableGrows DEF Usable
<1>3. \A i \in held : Usable(i, unit) \in Nat /\ Usable(i, unit) <= Usable(most, unit)
  <2>1. \A i \in held : i \in Nat /\ i <= most
    BY <1>1
  <2> HIDE DEF held, most
  <2> QED BY <1>2, <2>1, UsableGrows
<1>4. \A s \in found : s \in Nat /\ s <= Usable(most, unit)
  <2>1. \A n \in {m \in Walk(t, tokens) : Holds(t, m, r)} : Len(n) \in held
    BY HeldIsShown
  <2>2. {d \in MidEdge(t, tokens) : Holds(t, d, r)} # {} => k \in held
    BY HeldIsShown
  <2> HIDE DEF held, most, k
  <2> QED BY <1>2, <1>3, <2>1, <2>2
<1>5. \E s \in found : Usable(most, unit) <= s
  <2>1. CASE most = 0
    <3>1. 0 \in found /\ Usable(most, unit) = 0
      BY <1>2, <2>1
    <3> HIDE DEF found, most
    <3> QED BY <3>1
  <2>2. CASE most # 0
    <3>1. most \in 1 .. Len(tokens) /\ SubSeq(tokens, 1, most) \in Held(t, r)
      BY <1>1, <2>2
    <3>2. Under(t.residents, SubSeq(tokens, 1, most), r) # {}
      BY <3>1, HeldIsUnder DEF Shaped
    <3> HIDE DEF most
    <3>3. CASE \E n \in Walk(t, tokens) : Holds(t, n, r) /\ most <= Len(n)
      <4>1. PICK n \in Walk(t, tokens) : Holds(t, n, r) /\ most <= Len(n)
        BY <3>3
      <4>2. Len(n) \in Nat /\ Usable(Len(n), unit) \in found
        BY <4>1, HeldIsShown
      <4>3. Usable(most, unit) <= Usable(Len(n), unit)
        BY <1>2, <4>1, <4>2, UsableGrows
      <4> QED BY <4>2, <4>3
    <3>4. CASE \E d \in MidEdge(t, tokens) : Holds(t, d, r) /\ most <= k
      <4>1. k \in 1 .. Len(tokens) /\ Usable(k, unit) \in found /\ most <= k
        BY <3>4, HeldIsShown
      <4>2. Usable(most, unit) <= Usable(k, unit)
        <5> HIDE DEF k
        <5> QED BY <1>2, <4>1, UsableGrows
      <4> QED BY <4>1, <4>2
    <3> QED BY <3>1, <3>2, <3>3, <3>4, WalkShowsHeld
  <2> QED BY <2>1, <2>2
<1>6. Usable(most, unit) \in found /\ found \subseteq Int
  <2> HIDE DEF found, most
  <2> QED BY <1>2, <1>4, <1>5
<1>7. Max(found) = Usable(most, unit)
  <2> HIDE DEF found, most
  <2> QED BY <1>4, <1>6, MaxIs
<1>8. MatchFor(t, tokens, r, unit) = Max(found)
  BY DEF MatchFor
<1> QED BY <1>7, <1>8

\* And so never reports more than the prompt it is asked about.
LEMMA MatchWithinPrompt ==
  ASSUME NEW t, NEW T, Shaped(t.residents, T), NEW tokens \in Seq(T), NEW r,
         NEW unit \in Nat \ {0}
  PROVE  MatchFor(t, tokens, r, unit) \in 0 .. Len(tokens)
<1> DEFINE held == {0} \cup {i \in 1 .. Len(tokens) : SubSeq(tokens, 1, i) \in Held(t, r)}
<1>1. Len(tokens) \in Nat /\ held \subseteq 0 .. Len(tokens) /\ held # {}
  OBVIOUS
<1>2. MatchFor(t, tokens, r, unit) = Usable(Max(held), unit)
  BY MatchIsLongest
<1> HIDE DEF held
<1>3. Max(held) \in 0 .. Len(tokens)
  BY <1>1, MaxExists
<1>4. \A n \in Nat : (n \div unit) * unit \in 0 .. n
  OBVIOUS
<1> QED BY <1>1, <1>2, <1>3, <1>4 DEF Usable

\* Who holds nothing matches nothing.
LEMMA NobodysMatch ==
  ASSUME NEW t, NEW tokens, NEW r, NEW unit, \A n \in Nodes(t) : ~Holds(t, n, r)
  PROVE  MatchFor(t, tokens, r, unit) = 0
<1>1. {m \in Walk(t, tokens) : Holds(t, m, r)} = {}
  BY DEF Walk
<1>2. {d \in MidEdge(t, tokens) : Holds(t, d, r)} = {}
  BY DEF MidEdge, Children
<1>3. MatchFor(t, tokens, r, unit) = Max({0})
  BY <1>1, <1>2 DEF MatchFor
<1>4. Max({0}) = 0
  BY MaxIs
<1> QED BY <1>3, <1>4

LEMMA CutsAgree ==
  ASSUME NEW T, NEW p \in Seq(T), NEW q \in Seq(T), NEW i \in 0 .. Len(p), i <= Len(q),
         \A j \in 1 .. i : p[j] = q[j]
  PROVE  SubSeq(p, 1, i) = SubSeq(q, 1, i)
<1> PICK a, b : a = SubSeq(p, 1, i) /\ b = SubSeq(q, 1, i)
  OBVIOUS
<1>1. /\ a \in Seq(T) /\ Len(a) = i /\ \A j \in 1 .. i : a[j] = p[j]
      /\ b \in Seq(T) /\ Len(b) = i /\ \A j \in 1 .. i : b[j] = q[j]
  BY CutIsPrefix
<1> QED BY <1>1, SeqEqual

\* Who holds a prefix holds every shorter one.
LEMMA ShorterHeld ==
  ASSUME NEW t, NEW T, Shaped(t.residents, T), NEW r,
         NEW q \in Held(t, r), NEW s \in Seq(T), s # <<>>, IsPrefix(s, q)
  PROVE  s \in Held(t, r)
<1>1. DOMAIN t.residents \subseteq Seq(T)
  BY DEF Shaped
<1>2. q \in Seq(T) /\ Under(t.residents, q, r) # {}
  BY <1>1, HeldIsUnder
<1>3. PICK w \in DOMAIN t.residents : IsPrefix(q, w) /\ r \in DOMAIN t.residents[w]
  BY <1>2 DEF Under
<1>4. IsPrefix(s, w)
  BY <1>1, <1>2, <1>3, PrefixOrder
<1>5. Under(t.residents, s, r) # {}
  BY <1>3, <1>4 DEF Under
<1> QED BY <1>1, <1>5, HeldIsUnder

LEMMA ShorterCut ==
  ASSUME NEW T, NEW p \in Seq(T), NEW m \in 1 .. Len(p), NEW n \in 1 .. m
  PROVE  /\ SubSeq(p, 1, n) \in Seq(T) /\ SubSeq(p, 1, n) # <<>>
         /\ IsPrefix(SubSeq(p, 1, n), SubSeq(p, 1, m))
<1>1. /\ SubSeq(p, 1, n) \in Seq(T) /\ Len(SubSeq(p, 1, n)) = n
      /\ \A j \in 1 .. n : SubSeq(p, 1, n)[j] = p[j]
      /\ SubSeq(p, 1, m) \in Seq(T) /\ Len(SubSeq(p, 1, m)) = m
      /\ \A j \in 1 .. m : SubSeq(p, 1, m)[j] = p[j]
  <2>1. m \in 0 .. Len(p) /\ n \in 0 .. Len(p)
    OBVIOUS
  <2> QED BY <2>1, CutIsPrefix
<1> PICK s, q : s = SubSeq(p, 1, n) /\ q = SubSeq(p, 1, m)
  OBVIOUS
<1>2. /\ s \in Seq(T) /\ Len(s) = n /\ q \in Seq(T) /\ Len(s) <= Len(q)
      /\ \A j \in 1 .. Len(s) : s[j] = q[j]
  BY <1>1
<1>3. IsPrefix(s, q)
  BY <1>2, PrefixPointwise
<1> QED BY <1>1, <1>3, EmptySeq

\* Two prompts that agree at first: what is matched of the one is matched of the
\* other, up to the whole blocks of what they share.
LEMMA MatchFollowsPrefix ==
  ASSUME NEW t, NEW T, Shaped(t.residents, T), NEW p \in Seq(T), NEW q \in Seq(T), NEW r,
         NEW unit \in Nat \ {0},
         NEW n \in Nat, n <= Len(p), n <= Len(q), \A k \in 1 .. n : p[k] = q[k]
  PROVE  \/ MatchFor(t, p, r, unit) <= MatchFor(t, q, r, unit)
         \/ Usable(n, unit) <= MatchFor(t, q, r, unit)
<1> DEFINE held(s) == {0} \cup {i \in 1 .. Len(s) : SubSeq(s, 1, i) \in Held(t, r)}
<1> PICK hp, hq : hp = held(p) /\ hq = held(q)
  OBVIOUS
<1>1. /\ MatchFor(t, p, r, unit) = Usable(Max(hp), unit)
      /\ MatchFor(t, q, r, unit) = Usable(Max(hq), unit)
  BY MatchIsLongest
<1>2. /\ Max(hp) \in hp /\ Max(hp) \in Nat
      /\ Max(hq) \in Nat /\ \A i \in hq : i <= Max(hq)
  <2>1. /\ Len(p) \in Nat /\ hp \subseteq 0 .. Len(p) /\ hp # {}
        /\ Len(q) \in Nat /\ hq \subseteq 0 .. Len(q) /\ hq # {}
    OBVIOUS
  <2>2. Max(hp) \in hp
    BY <2>1, MaxExists
  <2>3. Max(hq) \in hq /\ \A i \in hq : i <= Max(hq)
    BY <2>1, MaxExists
  <2> QED BY <2>1, <2>2, <2>3
<1>3. ASSUME NEW i \in hp, i <= n
      PROVE  i \in hq
  <2>1. CASE i = 0
    BY <2>1
  <2>2. CASE i # 0
    <3>1. i \in 1 .. Len(p) /\ SubSeq(p, 1, i) \in Held(t, r) /\ i \in 1 .. Len(q)
      BY <1>3, <2>2
    <3>2. \A j \in 1 .. i : p[j] = q[j]
      BY <1>3, <3>1
    <3>3. SubSeq(p, 1, i) = SubSeq(q, 1, i)
      BY <3>1, <3>2, CutsAgree
    <3> QED BY <3>1, <3>3
  <2> QED BY <2>1, <2>2
<1>4. CASE Max(hp) <= n
  <2>1. Max(hp) <= Max(hq)
    BY <1>2, <1>3, <1>4
  <2> QED BY <1>1, <1>2, <2>1, UsableGrows
<1>5. CASE n < Max(hp)
  <2>1. n <= Max(hq)
    <3>1. CASE n = 0
      BY <1>2, <3>1
    <3>2. CASE n # 0
      <4> PICK m : m = Max(hp)
        OBVIOUS
      <4>1. m \in 1 .. Len(p) /\ SubSeq(p, 1, m) \in Held(t, r) /\ n \in 1 .. m
        BY <1>2, <1>5, <3>2
      <4>2. SubSeq(p, 1, n) \in Held(t, r)
        BY <4>1, ShorterHeld, ShorterCut
      <4>3. n \in hp
        BY <3>2, <4>2
      <4> QED BY <1>2, <1>3, <4>3
    <3> QED BY <3>1, <3>2
  <2> QED BY <1>1, <1>2, <2>1, UsableGrows
<1> QED BY <1>2, <1>4, <1>5
=============================================================================
