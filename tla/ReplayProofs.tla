---------------------------- MODULE ReplayProofs ----------------------------
(***************************************************************************)
(* Proofs about Replay, for any prompts, replicas and capacities, and for  *)
(* traces of any length: first what the eviction loop makes of a tree,     *)
(* then how two trees that see the same requests compare.                  *)
(***************************************************************************)
EXTENDS Replay, RadixTreeFacts

----------------------------------------------------------------------------
\* One eviction.

\* From t to u, r has lost the edge of a node v, whole, and below v it held
\* nothing: in a tree of the same nodes, who holds some of that edge holds v.
LostEdge(u, t, T, r) ==
  \E v \in Held(t, r) \ Held(u, r) :
    /\ \A x \in Held(t, r) : IsPrefix(v, x) => x = v
    /\ \A q \in Held(t, r) \ Held(u, r) : \A w :
         Shaped(w.residents, T) /\ Nodes(w) = Nodes(t) /\ q \in Held(w, r) => v \in Held(w, r)

LEMMA EvictTakesEdge ==
  ASSUME NEW t, NEW T, NEW P, NEW A, NEW h \in Nat, Sound(t, T, P, A, h), NEW r \in A,
         NEW v \in Evictable(t, r)
  PROVE  Nodes(Evicted(t, r, v)) = Nodes(t) /\ LostEdge(Evicted(t, r, v), t, T, r)
<1> DEFINE u == Evicted(t, r, v)
           R == t.residents
           M == u.residents
<1>1. /\ Shaped(R, T) /\ Rooted(t, T) /\ Nodes(t) = DOMAIN R /\ DOMAIN R \subseteq Seq(T)
      /\ R[<<>>] = NoResidents /\ Branching(Nodes(t)) /\ Layered(R)
  BY SoundShaped DEF Shaped
<1>2. /\ v \in DOMAIN R /\ v \in Seq(T) /\ v # <<>>
      /\ r \in DOMAIN R[v] /\ IsTailFor(t, v, r)
  BY <1>1 DEF Evictable, Nodes, Holds
<1>3. /\ DOMAIN M = DOMAIN R
      /\ \A n \in DOMAIN R : M[n] = IF n = v THEN Drop(R[n], r) ELSE R[n]
  BY DEF Evicted
<1>4. Nodes(u) = Nodes(t) /\ DOMAIN M \subseteq Seq(T)
  BY <1>1, <1>3 DEF Nodes
<1>5. \A n \in DOMAIN R : r \in DOMAIN M[n] <=> n # v /\ r \in DOMAIN R[n]
  BY <1>3 DEF Drop
<1> HIDE DEF u
<1>6. PICK p \in Nodes(t) : v \in Children(t, p)
  BY <1>1, <1>2, ParentExists
<1>7. p \in Seq(T) /\ IsPrefix(p, v) /\ Len(p) < Len(v) /\ p # v
  BY <1>1, <1>2, <1>6, PrefixOrder DEF Children
<1>8. ASSUME NEW m \in DOMAIN R, r \in DOMAIN R[m], IsPrefix(v, m)
      PROVE  m = v
  <2>1. SUFFICES ASSUME Len(v) < Len(m)
                 PROVE  FALSE
    BY <1>1, <1>2, <1>8, PrefixOrder, LenProperties
  <2>2. PICK c \in Children(t, v) : IsPrefix(c, m)
    BY <1>1, <1>2, <1>8, <2>1, ChildTowards
  <2>3. c \in DOMAIN R /\ c # <<>>
    BY <1>1, <1>2, <2>2, PrefixOrder, LenProperties, EmptySeq DEF Children
  <2>4. r \in DOMAIN R[c]
    BY <1>1, <1>8, <2>2, <2>3 DEF Layered
  <2> QED BY <1>2, <2>2, <2>4 DEF IsTailFor, Holds
<1>9. v \in Held(t, r)
  <2>1. v \in Under(R, v, r)
    BY <1>2, PrefixOrder DEF Under
  <2> QED BY <1>1, <1>2, <2>1, HeldIsUnder
<1>10. v \notin Held(u, r)
  <2>1. Under(M, v, r) = {}
    BY <1>3, <1>5, <1>8 DEF Under
  <2> QED BY <1>4, <2>1, HeldIsUnder
<1>11. ASSUME NEW x \in Held(t, r), IsPrefix(v, x)
       PROVE  x = v
  <2>1. x \in Seq(T) /\ Under(R, x, r) # {}
    BY <1>1, HeldIsUnder
  <2>2. PICK m \in DOMAIN R : IsPrefix(x, m) /\ r \in DOMAIN R[m]
    BY <2>1 DEF Under
  <2>3. IsPrefix(v, m)
    BY <1>1, <1>2, <1>11, <2>1, <2>2, PrefixOrder
  <2>4. IsPrefix(x, v)
    BY <1>8, <2>2, <2>3
  <2> QED BY <1>2, <1>11, <2>1, <2>4, PrefixOrder, LenProperties
<1>12. ASSUME NEW q \in Held(t, r) \ Held(u, r), NEW w, Shaped(w.residents, T),
              Nodes(w) = Nodes(t), q \in Held(w, r)
       PROVE  v \in Held(w, r)
  <2>1. q \in Seq(T) /\ q # <<>> /\ Under(R, q, r) # {} /\ Under(M, q, r) = {}
    BY <1>1, <1>4, HeldIsUnder
  <2>2. \A m \in DOMAIN R : IsPrefix(q, m) /\ r \in DOMAIN R[m] => m = v
    BY <1>3, <1>5, <2>1 DEF Under
  <2>3. IsPrefix(q, v)
    BY <2>1, <2>2 DEF Under
  <2>4. Len(p) < Len(q)
    <3>1. SUFFICES ASSUME Len(q) <= Len(p)
                   PROVE  FALSE
      BY <1>7, <2>1, LenProperties
    <3>2. IsPrefix(q, p)
      BY <1>2, <1>7, <2>1, <2>3, <3>1, PrefixOrder
    <3>3. p # <<>>
      BY <1>7, <2>1, <3>1, LenProperties, EmptySeq
    <3>4. r \in DOMAIN R[p]
      BY <1>1, <1>2, <1>6, <1>7, <3>3 DEF Layered
    <3> QED BY <1>1, <1>6, <1>7, <2>2, <3>2, <3>4
  <2>5. PICK m \in DOMAIN w.residents : IsPrefix(q, m) /\ r \in DOMAIN w.residents[m]
    BY <1>12, <2>1, HeldIsUnder DEF Under, Shaped
  <2>6. Rooted(w, T) /\ Branching(Nodes(w)) /\ m \in Nodes(w) /\ p \in Nodes(w)
    BY <1>6, <1>12 DEF Shaped, Rooted, Nodes
  <2>7. v \in Children(w, p)
    BY <1>6, <1>12 DEF Children
  <2>8. IsPrefix(v, m)
    BY <2>1, <2>3, <2>4, <2>5, <2>6, <2>7, EdgeHasNoExit
  <2>9. v \in Under(w.residents, v, r) \/ m \in Under(w.residents, v, r)
    BY <2>5, <2>8 DEF Under
  <2> QED BY <1>2, <1>12, <2>9, HeldIsUnder DEF Shaped
<1> QED BY <1>4, <1>9, <1>10, <1>11, <1>12 DEF LostEdge, u

----------------------------------------------------------------------------
\* The eviction loop.

\* A loop of k passes: the tree after each of them.
IsLoop(g, k, t, r, cap, order) ==
  g = [n \in 0 .. k |-> IF n = 0 THEN t ELSE Pass(g[n - 1], r, cap, order)]

LEMMA LoopStep ==
  ASSUME NEW k \in Nat, NEW t, NEW r, NEW cap, NEW order, NEW g
  PROVE  IsLoop(g, k, t, r, cap, order) <=>
           /\ g = [n \in 0 .. k |-> g[n]]
           /\ g[0] = t
           /\ \A n \in 1 .. k : g[n] = Pass(g[n - 1], r, cap, order)
<1> DEFINE f == [n \in 0 .. k |-> IF n = 0 THEN t ELSE Pass(g[n - 1], r, cap, order)]
<1>1. ASSUME g = f
      PROVE  /\ g = [n \in 0 .. k |-> g[n]]
             /\ g[0] = t
             /\ \A n \in 1 .. k : g[n] = Pass(g[n - 1], r, cap, order)
  <2>1. DOMAIN f = 0 .. k /\ f = [n \in 0 .. k |-> f[n]]
    OBVIOUS
  <2>2. f[0] = t
    OBVIOUS
  <2>3. \A n \in 1 .. k : f[n] = Pass(g[n - 1], r, cap, order)
    OBVIOUS
  <2> HIDE DEF f
  <2> QED BY <1>1, <2>1, <2>2, <2>3
<1>2. ASSUME g = [n \in 0 .. k |-> g[n]], g[0] = t,
             \A n \in 1 .. k : g[n] = Pass(g[n - 1], r, cap, order)
      PROVE  g = f
  <2>1. \A n \in 0 .. k : g[n] = IF n = 0 THEN t ELSE Pass(g[n - 1], r, cap, order)
    <3>1. \A n \in 0 .. k : n = 0 \/ n \in 1 .. k
      OBVIOUS
    <3> QED BY <1>2, <3>1
  <2> QED BY <1>2, <2>1, Zenon
<1> QED BY <1>1, <1>2 DEF IsLoop

\* There is such a loop, of any length.
LEMMA LoopExists ==
  ASSUME NEW t, NEW r, NEW cap, NEW order, NEW k \in Nat
  PROVE  \E g : IsLoop(g, k, t, r, cap, order)
<1> DEFINE Bad == {j \in Nat : ~ \E g : IsLoop(g, j, t, r, cap, order)}
<1>1. SUFFICES ASSUME Bad # {}
               PROVE  FALSE
  OBVIOUS
<1>2. PICK j \in Bad : \A i \in Bad : j <= i
  <2>1. Bad \subseteq Nat
    OBVIOUS
  <2> HIDE DEF Bad
  <2> QED BY <1>1, <2>1, LeastNat
<1>3. j \in Nat /\ ~ \E g : IsLoop(g, j, t, r, cap, order)
  BY <1>2
<1>4. j # 0
  <2> DEFINE g == [n \in 0 .. 0 |-> t]
  <2>1. g = [n \in 0 .. 0 |-> g[n]] /\ g[0] = t
    OBVIOUS
  <2> HIDE DEF g
  <2>2. \A n \in 1 .. 0 : FALSE
    OBVIOUS
  <2>3. IsLoop(g, 0, t, r, cap, order)
    BY <2>1, <2>2, LoopStep
  <2> QED BY <1>3, <2>3
<1>5. j - 1 \in Nat /\ j - 1 \notin Bad
  BY <1>2, <1>3, <1>4
<1>6. PICK f : IsLoop(f, j - 1, t, r, cap, order)
  BY <1>5
<1>7. /\ f[0] = t
      /\ \A n \in 1 .. j - 1 : f[n] = Pass(f[n - 1], r, cap, order)
  BY <1>5, <1>6, LoopStep
<1> DEFINE last == Pass(f[j - 1], r, cap, order)
           g    == [n \in 0 .. j |-> IF n = j THEN last ELSE f[n]]
<1>8. g = [n \in 0 .. j |-> g[n]]
  OBVIOUS
<1>9. g[j] = last /\ \A n \in 0 .. j - 1 : g[n] = f[n]
  BY <1>3
<1> HIDE DEF g
<1>10. g[0] = t
  BY <1>3, <1>4, <1>7, <1>9
<1>11. ASSUME NEW n \in 1 .. j
       PROVE  g[n] = Pass(g[n - 1], r, cap, order)
  <2>1. g[n - 1] = f[n - 1]
    BY <1>3, <1>9
  <2>2. CASE n = j
    BY <1>9, <2>1, <2>2, Zenon
  <2>3. CASE n # j
    <3>1. n \in 1 .. j - 1 /\ n \in 0 .. j - 1
      BY <1>3, <2>3
    <3> QED BY <1>7, <1>9, <2>1, <3>1
  <2> QED BY <2>2, <2>3
<1>12. IsLoop(g, j, t, r, cap, order)
  BY <1>3, <1>8, <1>10, <1>11, LoopStep
<1> QED BY <1>3, <1>12

\* What the definition of EnforceCapacity chooses is one.
LEMMA EnforceIsLoop ==
  ASSUME NEW t, NEW r, NEW cap, NEW order, Used(t, r) \in Nat
  PROVE  \E g : /\ IsLoop(g, Used(t, r), t, r, cap, order)
                /\ EnforceCapacity(t, r, cap, order) = g[Used(t, r)]
<1>1. PICK k \in Nat : k = Used(t, r)
  OBVIOUS
<1> DEFINE g == CHOOSE f : IsLoop(f, k, t, r, cap, order)
<1>2. IsLoop(g, k, t, r, cap, order)
  <2>1. \E f : IsLoop(f, k, t, r, cap, order)
    BY LoopExists
  <2> QED BY <2>1, Zenon
<1>3. EnforceCapacity(t, r, cap, order) = g[k]
  BY <1>1, Zenon DEF EnforceCapacity, IsLoop
<1> QED BY <1>1, <1>2, <1>3

\* From t to u, r has lost nothing but what it used least recently, and nothing
\* else has happened.
Trimmed(u, t, T, P, A, h, r) ==
  /\ Sound(u, T, P, A, h) /\ Nodes(u) = Nodes(t)
  /\ \A s : s # r => Unaffected(u, t, s)
  /\ Counted(u, r) /\ Held(u, r) \subseteq Held(t, r)
  /\ \A q \in Held(u, r) : Recency(u.residents, q, r) = Recency(t.residents, q, r)
  /\ \A x \in Held(t, r) \ Held(u, r) : \A q \in Held(u, r) :
       Recency(t.residents, x, r) <= Recency(t.residents, q, r)

\* A set of prefixes no eviction takes from.
Spared(F, t, T, P, A, h, r, cap) ==
  /\ F \subseteq Held(t, r)
  /\ \A u : Trimmed(u, t, T, P, A, h, r) /\ F \subseteq Held(u, r) /\ OverCapacity(u, r, cap) =>
       \A v \in Victims(u, r) : F \subseteq Held(Evicted(u, r, v), r)

LEMMA RecencyNat ==
  ASSUME NEW t, NEW T, NEW P, NEW A, NEW h \in Nat, Sound(t, T, P, A, h), NEW r
  PROVE  \A q \in Held(t, r) : Recency(t.residents, q, r) \in 0 .. h
<1>1. Shaped(t.residents, T) /\ DOMAIN t.residents \subseteq Seq(T)
  BY SoundShaped DEF Shaped
<1>2. ASSUME NEW q \in Held(t, r)
      PROVE  Recency(t.residents, q, r) \in 0 .. h
  <2>1. q \in Seq(T) /\ q # <<>> /\ Under(t.residents, q, r) # {}
    BY <1>1, HeldIsUnder
  <2>2. PICK n \in Under(t.residents, q, r) : Recency(t.residents, q, r) = t.residents[n][r]
    BY <1>1, <2>1, RecencyIsLatest
  <2> QED BY <2>2 DEF Under, Sound, Timed
<1> QED BY <1>2

\* The traversal comes to a node at one of the places there are.
LEMMA PlaceIsNat ==
  ASSUME NEW S, NEW order \in Seq(S), NEW n
  PROVE  Place(order, n) \in 1 .. Len(order) + 1
<1> DEFINE I == {i \in DOMAIN order : IsPrefix(n, order[i])} \cup {Len(order) + 1}
<1>1. Len(order) \in Nat /\ DOMAIN order = 1 .. Len(order)
  BY LenProperties
<1>2. I \subseteq 1 .. Len(order) + 1 /\ I \subseteq Nat /\ I # {}
  BY <1>1
<1> HIDE DEF I
<1>3. \E x \in I : \A y \in I : x <= y
  BY <1>2, LeastNat
<1>4. Min(I) \in I
  BY <1>3 DEF Min
<1>5. Place(order, n) = Min(I)
  BY DEF Place, I
<1> QED BY <1>2, <1>4, <1>5

\* Of the oldest the traversal comes to one first.
LEMMA VictimIsOldest ==
  ASSUME NEW S, NEW order \in Seq(S), NEW t, NEW r, Victims(t, r) # {}
  PROVE  Victim(t, r, order) \in Victims(t, r)
<1> DEFINE places == {Place(order, v) : v \in Victims(t, r)}
<1>1. places \subseteq Nat /\ places # {}
  <2>1. Len(order) \in Nat
    BY LenProperties
  <2>2. \A v : Place(order, v) \in Nat
    BY <2>1, PlaceIsNat
  <2> QED BY <2>2
<1>2. PICK x \in places : \A y \in places : x <= y
  BY <1>1, LeastNat
<1>3. \E v \in Victims(t, r) : \A u \in Victims(t, r) : Place(order, v) <= Place(order, u)
  BY <1>2
<1> QED BY <1>3, Zenon DEF Victim

\* One pass of the loop: it takes something, while there is too much.
LEMMA PassTrims ==
  ASSUME NEW t, NEW T, NEW P, NEW A, NEW h \in Nat, Sound(t, T, P, A, h), NEW r \in A,
         NEW cap, cap \in [DOMAIN cap -> Nat], NEW F, Spared(F, t, T, P, A, h, r, cap),
         NEW u, Trimmed(u, t, T, P, A, h, r), F \subseteq Held(u, r),
         NEW S, NEW order \in Seq(S), NEW w, w = Pass(u, r, cap, order)
  PROVE  /\ Trimmed(w, t, T, P, A, h, r) /\ F \subseteq Held(w, r)
         /\ OverCapacity(w, r, cap) => Used(w, r) < Used(u, r)
         /\ r \notin DOMAIN cap => w = u
<1>1. /\ Sound(u, T, P, A, h) /\ Nodes(u) = Nodes(t) /\ Counted(u, r)
      /\ Held(u, r) \subseteq Held(t, r)
      /\ IsFiniteSet(Held(u, r)) /\ Used(u, r) = Cardinality(Held(u, r))
  BY DEF Trimmed, Counted
<1>2. Cardinality(Held(u, r)) \in Nat
  BY <1>1, FS_CardinalityType
<1>3. CASE ~OverCapacity(u, r, cap)
  BY <1>3 DEF Pass
<1>4. CASE OverCapacity(u, r, cap)
  <2>1. r \in DOMAIN cap /\ Used(u, r) > cap[r] /\ cap[r] \in Nat
    BY <1>4 DEF OverCapacity
  <2>2. Held(u, r) # {}
    BY <1>1, <1>2, <2>1, FS_EmptySet
  <2>3. Victims(u, r) # {}
    BY <1>1, <2>2, VictimExists
  <2>4. PICK v \in Victims(u, r) : w = Evicted(u, r, v)
    BY <1>4, <2>3, VictimIsOldest DEF Pass
  <2>5. v \in Evictable(u, r)
    BY DEF Victims
  <2>6. Sound(w, T, P, A, h) /\ Nodes(w) = Nodes(u)
    BY <1>1, <2>4, <2>5, EvictSound, EvictTakesEdge
  <2>7. LostOldest(w, u, r)
    BY <1>1, <2>4, EvictTakesOldest
  <2>8. PICK gone \in (SUBSET Held(u, r)) \ {{}} :
          /\ Held(w, r) = Held(u, r) \ gone
          /\ \A q \in gone : \A x \in Held(u, r) :
               Recency(u.residents, q, r) <= Recency(u.residents, x, r)
    BY <2>7 DEF LostOldest
  <2>9. /\ Counted(w, r) /\ IsFiniteSet(Held(w, r)) /\ Used(w, r) = Cardinality(Held(w, r))
        /\ \A q \in Held(w, r) : Recency(w.residents, q, r) = Recency(u.residents, q, r)
        /\ \A s : s # r => Unaffected(w, u, s)
    BY <2>7 DEF LostOldest, Counted
  <2>10. Cardinality(Held(w, r)) < Cardinality(Held(u, r))
    <3>1. Held(w, r) \subseteq Held(u, r) /\ Held(w, r) # Held(u, r)
      BY <2>8
    <3> QED BY <1>1, <1>2, <2>9, <3>1, FS_Subset, FS_CardinalityType
  <2>11. F \subseteq Held(w, r)
    BY <1>4, <2>4 DEF Spared
  <2>12. Held(w, r) \subseteq Held(t, r) /\ \A s : s # r => Unaffected(w, t, s)
    <3>1. \A s : s # r => Unaffected(u, t, s)
      BY DEF Trimmed
    <3> QED BY <1>1, <2>8, <2>9, <3>1 DEF Unaffected
  <2>13. \A q \in Held(u, r) : Recency(u.residents, q, r) = Recency(t.residents, q, r)
    BY DEF Trimmed
  <2>14. ASSUME NEW x \in Held(t, r) \ Held(w, r), NEW q \in Held(w, r)
         PROVE  Recency(t.residents, x, r) <= Recency(t.residents, q, r)
    <3>1. CASE x \in Held(u, r)
      BY <2>8, <2>13, <3>1
    <3>2. CASE x \notin Held(u, r)
      BY <2>8, <3>2 DEF Trimmed
    <3> QED BY <3>1, <3>2
  <2>15. Trimmed(w, t, T, P, A, h, r)
    BY <1>1, <2>6, <2>8, <2>9, <2>12, <2>13, <2>14 DEF Trimmed
  <2> QED BY <1>1, <2>1, <2>9, <2>10, <2>11, <2>15
<1> QED BY <1>3, <1>4

\* The loop leaves no more than may be there: it never stops for want of a
\* victim, nor goes on when there is room.
LEMMA LoopTrims ==
  ASSUME NEW t, NEW T, NEW P, NEW A, NEW h \in Nat, Sound(t, T, P, A, h), NEW r \in A,
         Counted(t, r),
         NEW cap, cap \in [DOMAIN cap -> Nat], NEW F, Spared(F, t, T, P, A, h, r, cap),
         NEW S, NEW order \in Seq(S), NEW u, u = EnforceCapacity(t, r, cap, order)
  PROVE  /\ Trimmed(u, t, T, P, A, h, r) /\ F \subseteq Held(u, r)
         /\ r \in DOMAIN cap => Used(u, r) <= cap[r]
         /\ r \notin DOMAIN cap => u = t
<1>1. PICK k \in Nat : k = Used(t, r)
  BY FS_CardinalityType DEF Counted
<1>2. PICK g : IsLoop(g, k, t, r, cap, order) /\ u = g[k]
  BY <1>1, EnforceIsLoop
<1>3. /\ g[0] = t
      /\ \A n \in 1 .. k : g[n] = Pass(g[n - 1], r, cap, order)
  BY <1>2, LoopStep
<1> DEFINE Fine(w, n) ==
      /\ Trimmed(w, t, T, P, A, h, r) /\ F \subseteq Held(w, r)
      /\ OverCapacity(w, r, cap) => Used(w, r) + n <= k
      /\ r \notin DOMAIN cap => w = t
    Bad == {n \in 0 .. k : ~Fine(g[n], n)}
<1>4. Fine(t, 0)
  <2>1. Trimmed(t, t, T, P, A, h, r)
    BY DEF Trimmed, Unaffected
  <2> QED BY <1>1, <2>1 DEF Spared
<1>5. Bad = {}
  <2>1. SUFFICES ASSUME Bad # {}
                 PROVE  FALSE
    OBVIOUS
  <2>2. PICK n \in Bad : \A i \in Bad : n <= i
    <3>1. Bad \subseteq Nat
      OBVIOUS
    <3> HIDE DEF Bad
    <3> QED BY <2>1, <3>1, LeastNat
  <2>3. n \in 0 .. k /\ ~Fine(g[n], n)
    BY <2>2
  <2> HIDE DEF Fine
  <2>4. n # 0
    BY <1>3, <1>4, <2>3
  <2>5. n \in 1 .. k /\ n - 1 \in 0 .. k /\ n - 1 \notin Bad
    BY <2>2, <2>3, <2>4
  <2>6. PICK w : w = g[n] /\ ~Fine(w, n)
    BY <2>3
  <2>7. PICK v : v = g[n - 1] /\ w = Pass(v, r, cap, order)
    BY <1>3, <2>5, <2>6
  <2>8. Fine(v, n - 1)
    BY <2>5, <2>7
  <2>9. /\ Trimmed(v, t, T, P, A, h, r) /\ F \subseteq Held(v, r)
        /\ OverCapacity(v, r, cap) => Used(v, r) + (n - 1) <= k
        /\ r \notin DOMAIN cap => v = t
    BY <2>8 DEF Fine
  <2>10. /\ Trimmed(w, t, T, P, A, h, r) /\ F \subseteq Held(w, r)
         /\ OverCapacity(w, r, cap) => Used(w, r) < Used(v, r)
         /\ r \notin DOMAIN cap => w = v
    BY <2>7, <2>9, PassTrims
  <2>11. ASSUME OverCapacity(w, r, cap) PROVE Used(w, r) + n <= k
    <3>1. OverCapacity(v, r, cap)
      <4>1. SUFFICES ASSUME ~OverCapacity(v, r, cap) PROVE FALSE
        OBVIOUS
      <4>2. w = v
        BY <2>7, <4>1 DEF Pass
      <4> QED BY <2>11, <4>1, <4>2
    <3>2. Used(w, r) < Used(v, r) /\ Used(v, r) + (n - 1) <= k
      BY <2>9, <2>10, <2>11, <3>1
    <3>3. Used(w, r) \in Nat /\ Used(v, r) \in Nat
      BY <2>9, <2>10, FS_CardinalityType DEF Trimmed, Counted
    <3> QED BY <2>3, <3>2, <3>3
  <2> QED BY <2>6, <2>9, <2>10, <2>11 DEF Fine
<1>6. Fine(u, k)
  BY <1>2, <1>5
<1>7. r \in DOMAIN cap => Used(u, r) <= cap[r]
  <2>1. Used(u, r) \in Nat
    BY <1>6, FS_CardinalityType DEF Trimmed, Counted
  <2> QED BY <1>6, <2>1 DEF OverCapacity
<1> QED BY <1>6, <1>7

----------------------------------------------------------------------------
\* insert() as a whole.

\* What may remain of an insertion into t.
Kept(u, t, tokens, r, cap) ==
  /\ \A s : s # r => Unaffected(u, t, s)
  /\ Counted(u, r)
  /\ Held(u, r) \subseteq Held(t, r) \cup Cuts(tokens)
  /\ r \notin DOMAIN cap => Held(u, r) = Held(t, r) \cup Cuts(tokens)

LEMMA InsertKeeps ==
  ASSUME NEW t, NEW T, NEW P, NEW A, NEW h \in Nat, P \subseteq Seq(T), Sound(t, T, P, A, h),
         NEW tokens \in P, NEW r \in A, Counted(t, r), NEW at \in Nat, h <= at,
         NEW cap, cap \in [DOMAIN cap -> Nat], NEW order \in Seq(P),
         NEW u, u = Inserted(t, tokens, r, at, cap, order)
  PROVE  Sound(u, T, P, A, at) /\ Kept(u, t, tokens, r, cap)
<1> DEFINE p == InsertPath(t, tokens, r, at)
<1>1. CASE tokens = <<>>
  <2>1. u = t
    BY <1>1 DEF Inserted
  <2>2. Cuts(tokens) = {}
    BY <1>1 DEF Cuts
  <2>3. Sound(u, T, P, A, at)
    BY <2>1, SoundLater
  <2> QED BY <2>1, <2>2, <2>3 DEF Kept, Unaffected
<1>2. CASE tokens # <<>>
  <2>1. Sound(p, T, P, A, at) /\ Stored(p, t, tokens, r, at)
    BY InsertSound, InsertStores
  <2>2. Counted(p, r) /\ Held(p, r) = Held(t, r) \cup Cuts(tokens)
        /\ \A s : s # r => Unaffected(p, t, s)
    BY <2>1 DEF Stored
  <2>3. u = EnforceCapacity(p, r, cap, order)
    BY <1>2 DEF Inserted
  <2> HIDE DEF p
  <2>4. Spared({}, p, T, P, A, at, r, cap)
    BY DEF Spared
  <2>5. Trimmed(u, p, T, P, A, at, r) /\ (r \notin DOMAIN cap => u = p)
    BY <2>1, <2>2, <2>3, <2>4, LoopTrims
  <2>6. \A s : s # r => Unaffected(u, t, s)
    BY <2>2, <2>5 DEF Trimmed, Unaffected
  <2> QED BY <2>2, <2>5, <2>6 DEF Kept, Trimmed
<1> QED BY <1>1, <1>2

----------------------------------------------------------------------------
\* Two trees.

\* Where the walk ends depends on the nodes alone.
LEMMA SameWalk ==
  ASSUME NEW t, NEW u, Nodes(u) = Nodes(t), NEW tokens
  PROVE  MidEdge(u, tokens) = MidEdge(t, tokens) /\ Matched(u, tokens) = Matched(t, tokens)
<1>1. \A n : Children(u, n) = Children(t, n)
  BY DEF Children
<1>2. Walk(u, tokens) = Walk(t, tokens)
  BY DEF Walk
<1>3. Deepest(u, tokens) = Deepest(t, tokens)
  BY <1>2, Zenon DEF Deepest
<1>4. MidEdge(u, tokens) = MidEdge(t, tokens)
  BY <1>1, <1>3, Zenon DEF MidEdge
<1>5. Matched(u, tokens) = Matched(t, tokens)
  <2> DEFINE M(S, n) == IF S = {} THEN Len(n)
                        ELSE Len(LongestCommonPrefix({tokens, CHOOSE c \in S : TRUE}))
  <2>1. \A v : Matched(v, tokens) = M(MidEdge(v, tokens), Deepest(v, tokens))
    BY DEF Matched
  <2> HIDE DEF M
  <2> QED BY <1>3, <1>4, <2>1, Zenon
<1> QED BY <1>4, <1>5

\* And so do the new ones.
LEMMA SameNodesGrowAlike ==
  ASSUME NEW t, NEW u, Nodes(u) = Nodes(t), NEW tokens, NEW r, NEW at
  PROVE  Nodes(InsertPath(u, tokens, r, at)) = Nodes(InsertPath(t, tokens, r, at))
<1>1. Matched(u, tokens) = Matched(t, tokens)
  BY SameWalk
<1>2. \A v : Nodes(InsertPath(v, tokens, r, at)) =
               Nodes(v) \cup {SubSeq(tokens, 1, Matched(v, tokens)), tokens}
  BY DEF InsertPath, Mark, Extended, Nodes
<1> QED BY <1>1, <1>2, Zenon

\* What r used last at one time, it used in one request.
OneAtATime(t, r) ==
  \A x, q \in Held(t, r) : Recency(t.residents, x, r) = Recency(t.residents, q, r) =>
    IsPrefix(x, q) \/ IsPrefix(q, x)

\* The one tree holds of r what the other holds, but for some of the oldest.
Nested(s, l, r) ==
  /\ Held(s, r) \subseteq Held(l, r)
  /\ \A q \in Held(s, r) : Recency(s.residents, q, r) = Recency(l.residents, q, r)
  /\ \A x \in Held(l, r) \ Held(s, r) : \A q \in Held(s, r) :
       Recency(l.residents, x, r) <= Recency(l.residents, q, r)

\* A tree in which r held nothing more recent than now uses now the prefixes of
\* one request.
LEMMA StoredOneAtATime ==
  ASSUME NEW T, NEW tokens \in Seq(T), NEW at \in Nat, NEW u, NEW t, NEW r,
         Stored(u, t, tokens, r, at), OneAtATime(t, r),
         \A q \in Held(t, r) : Recency(t.residents, q, r) < at
  PROVE  OneAtATime(u, r)
<1>1. ASSUME NEW x \in Held(u, r), NEW q \in Held(u, r),
             Recency(u.residents, x, r) = Recency(u.residents, q, r)
      PROVE  IsPrefix(x, q) \/ IsPrefix(q, x)
  <2>1. \A y \in Held(u, r) :
          /\ y \in Cuts(tokens) => Recency(u.residents, y, r) = at
          /\ y \notin Cuts(tokens) => /\ y \in Held(t, r)
                                     /\ Recency(u.residents, y, r) = Recency(t.residents, y, r)
    BY DEF Stored
  <2>2. CASE x \in Cuts(tokens) /\ q \in Cuts(tokens)
    <3>1. /\ x \in Seq(T) /\ q \in Seq(T) /\ IsPrefix(x, tokens) /\ IsPrefix(q, tokens)
          /\ Len(x) \in Nat /\ Len(q) \in Nat
      BY <2>2, CutsArePrefixes, LenProperties
    <3>2. Len(x) <= Len(q) \/ Len(q) <= Len(x)
      BY <3>1
    <3> QED BY <3>1, <3>2, PrefixOrder
  <2>3. CASE x \notin Cuts(tokens) /\ q \notin Cuts(tokens)
    BY <1>1, <2>1, <2>3 DEF OneAtATime
  <2>4. CASE ~(x \in Cuts(tokens) <=> q \in Cuts(tokens))
    <3>1. at < at
      BY <1>1, <2>1, <2>4
    <3> QED BY <3>1
  <2> QED BY <2>2, <2>3, <2>4
<1> QED BY <1>1 DEF OneAtATime

LEMMA TrimmedOneAtATime ==
  ASSUME NEW t, NEW T, NEW P, NEW A, NEW h, NEW u, NEW r, NEW s,
         Trimmed(u, t, T, P, A, h, r), OneAtATime(t, s)
  PROVE  OneAtATime(u, s)
<1>1. /\ Held(u, s) \subseteq Held(t, s)
      /\ \A q \in Held(u, s) : Recency(u.residents, q, s) = Recency(t.residents, q, s)
  BY DEF Trimmed, Unaffected
<1> QED BY <1>1 DEF OneAtATime

\* The same request stored in both: they stay nested.
LEMMA StoredNested ==
  ASSUME NEW tokens, NEW at \in Nat, NEW r, NEW s, NEW t, NEW l, NEW u,
         Nested(s, l, r), Stored(t, s, tokens, r, at), Stored(u, l, tokens, r, at),
         \A q \in Held(l, r) : Recency(l.residents, q, r) \in Nat /\ Recency(l.residents, q, r) < at
  PROVE  Nested(t, u, r)
<1>1. /\ Held(t, r) = Held(s, r) \cup Cuts(tokens)
      /\ Held(u, r) = Held(l, r) \cup Cuts(tokens)
      /\ \A q \in Held(t, r) :
           /\ q \in Cuts(tokens) => Recency(t.residents, q, r) = at
           /\ q \notin Cuts(tokens) => Recency(t.residents, q, r) = Recency(s.residents, q, r)
      /\ \A q \in Held(u, r) :
           /\ q \in Cuts(tokens) => Recency(u.residents, q, r) = at
           /\ q \notin Cuts(tokens) => Recency(u.residents, q, r) = Recency(l.residents, q, r)
  BY DEF Stored
<1>2. /\ Held(s, r) \subseteq Held(l, r)
      /\ \A q \in Held(s, r) : Recency(s.residents, q, r) = Recency(l.residents, q, r)
      /\ \A x \in Held(l, r) \ Held(s, r) : \A q \in Held(s, r) :
           Recency(l.residents, x, r) <= Recency(l.residents, q, r)
  BY DEF Nested
<1>3. ASSUME NEW x \in Held(u, r) \ Held(t, r), NEW q \in Held(t, r)
      PROVE  Recency(u.residents, x, r) <= Recency(u.residents, q, r)
  <2>1. /\ x \in Held(l, r) \ Held(s, r) /\ x \notin Cuts(tokens) /\ q \in Held(u, r)
        /\ Recency(u.residents, x, r) = Recency(l.residents, x, r)
        /\ Recency(l.residents, x, r) \in Nat /\ Recency(l.residents, x, r) < at
    BY <1>1, <1>2
  <2>2. CASE q \in Cuts(tokens)
    BY <1>1, <2>1, <2>2
  <2>3. CASE q \notin Cuts(tokens)
    BY <1>1, <1>2, <2>1, <2>3
  <2> QED BY <2>2, <2>3
<1>4. \A q \in Held(t, r) : Recency(t.residents, q, r) = Recency(u.residents, q, r)
  BY <1>1, <1>2
<1>5. Held(t, r) \subseteq Held(u, r)
  BY <1>1, <1>2
<1> QED BY <1>3, <1>4, <1>5 DEF Nested

\* What the loop leaves of the smaller is spared by the loop on the larger.
LEMMA SmallerIsSpared ==
  ASSUME NEW T, NEW P, NEW A, NEW h \in Nat, NEW r \in A,
         NEW s, Sound(s, T, P, A, h),
         NEW l, Sound(l, T, P, A, h), Counted(l, r), OneAtATime(l, r),
         Nodes(s) = Nodes(l), Nested(s, l, r),
         NEW cs, NEW cl, cl \in [DOMAIN cl -> Nat], cs \in [DOMAIN cs -> Nat], NoMore(cs, cl, r),
         NEW f, Trimmed(f, s, T, P, A, h, r), r \in DOMAIN cs => Used(f, r) <= cs[r]
  PROVE  Spared(Held(f, r), l, T, P, A, h, r, cl)
<1>1. /\ Held(s, r) \subseteq Held(l, r)
      /\ \A q \in Held(s, r) : Recency(s.residents, q, r) = Recency(l.residents, q, r)
      /\ \A x \in Held(l, r) \ Held(s, r) : \A q \in Held(s, r) :
           Recency(l.residents, x, r) <= Recency(l.residents, q, r)
  BY DEF Nested
<1>2. /\ Sound(f, T, P, A, h) /\ Nodes(f) = Nodes(s) /\ Counted(f, r)
      /\ Held(f, r) \subseteq Held(s, r)
      /\ \A x \in Held(s, r) \ Held(f, r) : \A q \in Held(f, r) :
           Recency(s.residents, x, r) <= Recency(s.residents, q, r)
  BY DEF Trimmed
<1>3. ASSUME NEW x \in Held(l, r) \ Held(f, r), NEW q \in Held(f, r)
      PROVE  Recency(l.residents, x, r) <= Recency(l.residents, q, r)
  <2>1. CASE x \in Held(s, r)
    BY <1>1, <1>2, <2>1
  <2>2. CASE x \notin Held(s, r)
    BY <1>1, <1>2, <2>2
  <2> QED BY <2>1, <2>2
<1>4. Shaped(f.residents, T) /\ DOMAIN f.residents \subseteq Seq(T)
  BY <1>2, SoundShaped DEF Shaped
<1>5. ASSUME NEW u, Trimmed(u, l, T, P, A, h, r), Held(f, r) \subseteq Held(u, r),
             OverCapacity(u, r, cl), NEW v \in Victims(u, r)
      PROVE  Held(f, r) \subseteq Held(Evicted(u, r, v), r)
  <2> DEFINE w == Evicted(u, r, v)
  <2>1. /\ Sound(u, T, P, A, h) /\ Nodes(u) = Nodes(l) /\ Counted(u, r)
        /\ Held(u, r) \subseteq Held(l, r)
        /\ \A q \in Held(u, r) : Recency(u.residents, q, r) = Recency(l.residents, q, r)
    BY <1>5 DEF Trimmed
  <2>2. v \in Evictable(u, r)
    BY DEF Victims
  <2>3. LostEdge(w, u, T, r) /\ LostOldest(w, u, r)
    BY <2>1, <2>2, EvictTakesEdge, EvictTakesOldest
  <2> HIDE DEF w
  <2>4. PICK e \in Held(u, r) \ Held(w, r) :
          /\ \A x \in Held(u, r) : IsPrefix(e, x) => x = e
          /\ \A q \in Held(u, r) \ Held(w, r) : \A z :
               Shaped(z.residents, T) /\ Nodes(z) = Nodes(u) /\ q \in Held(z, r)
                 => e \in Held(z, r)
    BY <2>3 DEF LostEdge
  <2>5. \A x \in Held(u, r) : Recency(u.residents, e, r) <= Recency(u.residents, x, r)
    BY <2>3, <2>4 DEF LostOldest
  <2>6. SUFFICES ASSUME NEW q \in Held(f, r), q \notin Held(w, r)
                 PROVE  FALSE
    BY DEF w
  <2>7. e \in Held(f, r)
    BY <1>2, <1>4, <1>5, <2>1, <2>4, <2>6
  <2>8. PICK x \in Held(u, r) : x \notin Held(f, r)
    <3>1. SUFFICES ASSUME Held(u, r) = Held(f, r)
                   PROVE  FALSE
      BY <1>5
    <3>2. Used(u, r) = Used(f, r) /\ Used(u, r) \in Nat
      BY <1>2, <2>1, <3>1, FS_CardinalityType DEF Counted
    <3>3. r \in DOMAIN cl /\ Used(u, r) > cl[r] /\ cl[r] \in Nat
      BY <1>5 DEF OverCapacity
    <3>4. r \in DOMAIN cs /\ cs[r] <= cl[r] /\ cs[r] \in Nat
      BY <3>3 DEF NoMore, Unbounded
    <3> QED BY <3>2, <3>3, <3>4
  <2>9. Recency(u.residents, x, r) = Recency(u.residents, e, r)
    <3>1. Recency(l.residents, x, r) <= Recency(l.residents, e, r)
      BY <1>3, <2>1, <2>7, <2>8
    <3>2. Recency(u.residents, e, r) \in Nat /\ Recency(u.residents, x, r) \in Nat
      BY <2>1, <2>4, <2>8, RecencyNat
    <3>3. Recency(u.residents, e, r) <= Recency(u.residents, x, r)
      BY <2>5, <2>8
    <3>4. /\ Recency(u.residents, e, r) = Recency(l.residents, e, r)
          /\ Recency(u.residents, x, r) = Recency(l.residents, x, r)
      BY <2>1, <2>4, <2>8
    <3> QED BY <3>1, <3>2, <3>3, <3>4
  <2>10. IsPrefix(x, e) \/ IsPrefix(e, x)
    BY <2>1, <2>4, <2>8, <2>9 DEF OneAtATime
  <2>11. IsPrefix(x, e)
    BY <2>4, <2>7, <2>8, <2>10
  <2>12. DOMAIN u.residents \subseteq Seq(T)
    BY <2>1, SoundShaped DEF Shaped
  <2>13. x \in Seq(T) /\ x # <<>>
    BY <2>8, <2>12, HeldIsUnder
  <2>14. x \in Held(f, r)
    BY <1>4, <2>7, <2>11, <2>13, ShorterHeld
  <2> QED BY <2>8, <2>14
<1>6. Held(f, r) \subseteq Held(l, r)
  BY <1>1, <1>2
<1> QED BY <1>5, <1>6 DEF Spared

\* The loops on both leave them nested.
LEMMA TrimmedNested ==
  ASSUME NEW T, NEW P, NEW A, NEW h \in Nat, NEW r,
         NEW s, NEW l, Nested(s, l, r),
         NEW f, Trimmed(f, s, T, P, A, h, r),
         NEW u, Trimmed(u, l, T, P, A, h, r), Held(f, r) \subseteq Held(u, r)
  PROVE  Nested(f, u, r)
<1>1. /\ Held(s, r) \subseteq Held(l, r)
      /\ \A q \in Held(s, r) : Recency(s.residents, q, r) = Recency(l.residents, q, r)
      /\ \A x \in Held(l, r) \ Held(s, r) : \A q \in Held(s, r) :
           Recency(l.residents, x, r) <= Recency(l.residents, q, r)
  BY DEF Nested
<1>2. /\ Held(f, r) \subseteq Held(s, r)
      /\ \A q \in Held(f, r) : Recency(f.residents, q, r) = Recency(s.residents, q, r)
      /\ \A x \in Held(s, r) \ Held(f, r) : \A q \in Held(f, r) :
           Recency(s.residents, x, r) <= Recency(s.residents, q, r)
  BY DEF Trimmed
<1>3. /\ Held(u, r) \subseteq Held(l, r)
      /\ \A q \in Held(u, r) : Recency(u.residents, q, r) = Recency(l.residents, q, r)
  BY DEF Trimmed
<1>4. ASSUME NEW x \in Held(u, r) \ Held(f, r), NEW q \in Held(f, r)
      PROVE  Recency(u.residents, x, r) <= Recency(u.residents, q, r)
  <2>1. CASE x \in Held(s, r)
    BY <1>1, <1>2, <1>3, <2>1
  <2>2. CASE x \notin Held(s, r)
    BY <1>1, <1>2, <1>3, <2>2
  <2> QED BY <2>1, <2>2
<1>5. \A q \in Held(f, r) : Recency(f.residents, q, r) = Recency(u.residents, q, r)
  BY <1>1, <1>2, <1>3
<1> QED BY <1>4, <1>5 DEF Nested

\* To another replica than the one that is sent the request nothing happens.
LEMMA ElsewhereNested ==
  ASSUME NEW r, NEW s, NEW l, Nested(s, l, r),
         NEW t, Unaffected(t, s, r), NEW u, Unaffected(u, l, r)
  PROVE  Nested(t, u, r)
BY DEF Nested, Unaffected

LEMMA ElsewhereOneAtATime ==
  ASSUME NEW r, NEW s, OneAtATime(s, r), NEW t, Unaffected(t, s, r)
  PROVE  OneAtATime(t, r)
BY DEF OneAtATime, Unaffected

\* A tree of the replay: r is counted in it, and used one request at a time.
Kempt(t, r) == Counted(t, r) /\ OneAtATime(t, r)

\* What insert() does on the way to the loop.
LEMMA InsertStaysKempt ==
  ASSUME NEW t, NEW T, NEW P, NEW A, NEW h \in Nat, P \subseteq Seq(T), Sound(t, T, P, A, h),
         NEW tokens \in P, NEW r \in A, NEW at \in Nat, h < at, Kempt(t, r)
  PROVE  LET p == InsertPath(t, tokens, r, at)
         IN  Sound(p, T, P, A, at) /\ Stored(p, t, tokens, r, at) /\ Kempt(p, r)
<1> DEFINE p == InsertPath(t, tokens, r, at)
<1>1. Sound(p, T, P, A, at) /\ Stored(p, t, tokens, r, at)
  BY InsertSound, InsertStores
<1>2. \A q \in Held(t, r) : Recency(t.residents, q, r) < at
  <2>1. \A q \in Held(t, r) : Recency(t.residents, q, r) \in 0 .. h
    BY RecencyNat
  <2> QED BY <2>1
<1> HIDE DEF p
<1>3. Counted(t, r) /\ OneAtATime(t, r)
  BY DEF Kempt
<1>4. tokens \in Seq(T)
  OBVIOUS
<1>5. OneAtATime(p, r)
  BY <1>1, <1>2, <1>3, <1>4, StoredOneAtATime
<1>6. Counted(p, r)
  BY <1>1, <1>3 DEF Stored
<1> QED BY <1>1, <1>5, <1>6 DEF p, Kempt

LEMMA InsertedKempt ==
  ASSUME NEW t, NEW T, NEW P, NEW A, NEW h \in Nat, P \subseteq Seq(T), Sound(t, T, P, A, h),
         NEW tokens \in P, NEW r \in A, NEW at \in Nat, h < at,
         NEW s \in A, Kempt(t, s), Kempt(t, r),
         NEW cap, cap \in [DOMAIN cap -> Nat], NEW order \in Seq(P),
         NEW u, u = Inserted(t, tokens, r, at, cap, order)
  PROVE  Kempt(u, s)
<1>1. Counted(t, r) /\ Counted(t, s) /\ OneAtATime(t, s)
  BY DEF Kempt
<1>2. Sound(u, T, P, A, at) /\ Kept(u, t, tokens, r, cap)
  BY <1>1, InsertKeeps
<1>3. CASE s # r
  <2>1. Unaffected(u, t, s)
    BY <1>2, <1>3 DEF Kept
  <2>2. Counted(u, s) /\ OneAtATime(u, s)
    BY <1>1, <2>1, ElsewhereOneAtATime DEF Counted, Unaffected
  <2> QED BY <2>2 DEF Kempt
<1>4. CASE s = r /\ tokens = <<>>
  <2>1. u = t
    BY <1>4 DEF Inserted
  <2> QED BY <2>1
<1>5. CASE s = r /\ tokens # <<>>
  <2> DEFINE p == InsertPath(t, tokens, r, at)
  <2>1. Sound(p, T, P, A, at) /\ Kempt(p, r)
    BY InsertStaysKempt
  <2>2. u = EnforceCapacity(p, r, cap, order)
    BY <1>5 DEF Inserted
  <2> HIDE DEF p
  <2>3. Counted(p, r) /\ OneAtATime(p, r)
    BY <2>1 DEF Kempt
  <2>4. Spared({}, p, T, P, A, at, r, cap)
    BY DEF Spared
  <2>5. Trimmed(u, p, T, P, A, at, r)
    BY <2>1, <2>2, <2>3, <2>4, LoopTrims
  <2>6. OneAtATime(u, r)
    BY <2>3, <2>5, TrimmedOneAtATime
  <2>7. Counted(u, r)
    BY <2>5 DEF Trimmed
  <2> QED BY <1>5, <2>6, <2>7 DEF Kempt
<1> QED BY <1>3, <1>4, <1>5

\* The nodes of a tree after an insertion, whatever is evicted.
LEMMA InsertedNodes ==
  ASSUME NEW t, NEW T, NEW P, NEW A, NEW h \in Nat, P \subseteq Seq(T), Sound(t, T, P, A, h),
         NEW tokens \in P, NEW r \in A, NEW at \in Nat, h <= at, Counted(t, r),
         NEW cap, cap \in [DOMAIN cap -> Nat], NEW order \in Seq(P),
         NEW u, u = Inserted(t, tokens, r, at, cap, order)
  PROVE  /\ tokens = <<>> => Nodes(u) = Nodes(t)
         /\ tokens # <<>> => Nodes(u) = Nodes(InsertPath(t, tokens, r, at))
<1>1. CASE tokens = <<>>
  BY <1>1 DEF Inserted
<1>2. CASE tokens # <<>>
  <2> DEFINE p == InsertPath(t, tokens, r, at)
  <2>1. Sound(p, T, P, A, at) /\ Stored(p, t, tokens, r, at)
    BY InsertSound, InsertStores
  <2>2. u = EnforceCapacity(p, r, cap, order)
    BY <1>2 DEF Inserted
  <2> HIDE DEF p
  <2>3. Counted(p, r)
    BY <2>1 DEF Stored
  <2>4. Spared({}, p, T, P, A, at, r, cap)
    BY DEF Spared
  <2>5. Trimmed(u, p, T, P, A, at, r)
    BY <2>1, <2>2, <2>3, <2>4, LoopTrims
  <2>6. Nodes(u) = Nodes(p)
    BY <2>5 DEF Trimmed
  <2> QED BY <1>2, <2>6 DEF p
<1> QED BY <1>1, <1>2

\* Two least recently used caches that see the same requests stay nested, the
\* one with less capacity in the other.
LEMMA InsertedNested ==
  ASSUME NEW T, NEW P, NEW A, NEW h \in Nat, P \subseteq Seq(T),
         NEW s, Sound(s, T, P, A, h), NEW l, Sound(l, T, P, A, h), Nodes(s) = Nodes(l),
         NEW tokens \in P, NEW r \in A, NEW at \in Nat, h < at,
         Kempt(s, r), Kempt(l, r),
         NEW cs, cs \in [DOMAIN cs -> Nat], NEW cl, cl \in [DOMAIN cl -> Nat],
         NEW order \in Seq(P),
         NEW f, f = Inserted(s, tokens, r, at, cs, order),
         NEW u, u = Inserted(l, tokens, r, at, cl, order),
         NEW q \in A, NoMore(cs, cl, q), Nested(s, l, q)
  PROVE  Nested(f, u, q)
<1>1. Counted(s, r) /\ Counted(l, r)
  BY DEF Kempt
<1>2. CASE q # r
  <2>1. Kept(f, s, tokens, r, cs) /\ Kept(u, l, tokens, r, cl)
    BY <1>1, InsertKeeps
  <2>2. Unaffected(f, s, q) /\ Unaffected(u, l, q)
    BY <1>2, <2>1 DEF Kept
  <2> QED BY <2>2, ElsewhereNested
<1>3. CASE q = r /\ tokens = <<>>
  <2>1. f = s /\ u = l
    BY <1>3 DEF Inserted
  <2> QED BY <2>1
<1>4. CASE q = r /\ tokens # <<>>
  <2> DEFINE p == InsertPath(s, tokens, r, at)
             m == InsertPath(l, tokens, r, at)
  <2>1. /\ Sound(p, T, P, A, at) /\ Stored(p, s, tokens, r, at) /\ Kempt(p, r)
        /\ Sound(m, T, P, A, at) /\ Stored(m, l, tokens, r, at) /\ Kempt(m, r)
    BY InsertStaysKempt
  <2>2. f = EnforceCapacity(p, r, cs, order) /\ u = EnforceCapacity(m, r, cl, order)
    BY <1>4 DEF Inserted
  <2>3. Nodes(p) = Nodes(m)
    BY SameNodesGrowAlike
  <2> HIDE DEF p, m
  <2>4. Counted(p, r) /\ Counted(m, r) /\ OneAtATime(m, r)
    BY <2>1 DEF Kempt
  <2>5. \A x \in Held(l, r) : Recency(l.residents, x, r) \in Nat /\ Recency(l.residents, x, r) < at
    <3>1. \A x \in Held(l, r) : Recency(l.residents, x, r) \in 0 .. h
      BY RecencyNat
    <3> QED BY <3>1
  <2>6. Nested(p, m, r)
    BY <1>4, <2>1, <2>5, StoredNested
  <2>7. Spared({}, p, T, P, A, at, r, cs)
    BY DEF Spared
  <2>8. Trimmed(f, p, T, P, A, at, r) /\ (r \in DOMAIN cs => Used(f, r) <= cs[r])
    BY <2>1, <2>2, <2>4, <2>7, LoopTrims
  <2>9. NoMore(cs, cl, r)
    BY <1>4
  <2>10. Spared(Held(f, r), m, T, P, A, at, r, cl)
    BY <2>1, <2>3, <2>4, <2>6, <2>8, <2>9, SmallerIsSpared
  <2>11. Trimmed(u, m, T, P, A, at, r) /\ Held(f, r) \subseteq Held(u, r)
    BY <2>1, <2>2, <2>4, <2>10, LoopTrims
  <2> QED BY <1>4, <2>6, <2>8, <2>11, TrimmedNested
<1> QED BY <1>2, <1>3, <1>4

----------------------------------------------------------------------------
\* Two trees that evict alike, ties and all.

\* Of r the two trees say the same, node by node and time by time.
Alike(u, t, r) ==
  /\ Nodes(u) = Nodes(t) /\ Used(u, r) = Used(t, r)
  /\ \A n \in Nodes(t) : Holds(u, n, r) <=> Holds(t, n, r)
  /\ \A n \in Nodes(t) : Holds(t, n, r) => u.residents[n][r] = t.residents[n][r]

\* The two capacities bound r alike.
SameBound(cu, ct, r) ==
  /\ r \in DOMAIN cu <=> r \in DOMAIN ct
  /\ r \in DOMAIN ct => cu[r] = ct[r]

LEMMA AlikeHolds ==
  ASSUME NEW u, NEW t, NEW r, Alike(u, t, r)
  PROVE  Held(u, r) = Held(t, r)
<1>1. {m \in Nodes(u) : Holds(u, m, r)} = {m \in Nodes(t) : Holds(t, m, r)}
  BY DEF Alike
<1> QED BY <1>1, Zenon DEF Held

LEMMA AlikeThrough ==
  ASSUME NEW r, NEW s, NEW t, NEW u, NEW w, Alike(u, s, r), Alike(w, t, r), Alike(s, t, r)
  PROVE  Alike(u, w, r)
BY DEF Alike

LEMMA SameChildren ==
  ASSUME NEW u, NEW t, Nodes(u) = Nodes(t)
  PROVE  \A n : Children(u, n) = Children(t, n)
BY DEF Children

\* The same eviction in both.
LEMMA EvictedAlike ==
  ASSUME NEW u, NEW t, NEW r, Alike(u, t, r), NEW v
  PROVE  Alike(Evicted(u, r, v), Evicted(t, r, v), r)
<1>1. \A n : Children(u, n) = Children(t, n)
  BY SameChildren DEF Alike
<1>2. Edge(u, v) = Edge(t, v)
  <2>1. Nodes(u) = Nodes(t)
    BY DEF Alike
  <2> DEFINE Above(w) == {p \in Nodes(w) : v \in Children(w, p)}
  <2>2. \A w : Edge(w, v) = Len(v) - Len(CHOOSE p : p \in Above(w))
    BY DEF Edge
  <2>3. Above(u) = Above(t)
    BY <1>1, <2>1
  <2> HIDE DEF Above
  <2> QED BY <2>2, <2>3, Zenon
<1>3. \A w : /\ Nodes(Evicted(w, r, v)) = Nodes(w)
             /\ Used(Evicted(w, r, v), r) = Used(w, r) - Edge(w, v)
             /\ \A n \in Nodes(w) : /\ Holds(Evicted(w, r, v), n, r) <=> n # v /\ Holds(w, n, r)
                                    /\ n # v => Evicted(w, r, v).residents[n] = w.residents[n]
  BY DEF Evicted, Nodes, Used, Put, Drop, Holds
<1> QED BY <1>2, <1>3 DEF Alike

\* Another replica's eviction.
LEMMA EvictedElsewhere ==
  ASSUME NEW t, NEW r, NEW q, q # r, NEW v
  PROVE  Alike(Evicted(t, r, v), t, q)
<1>1. /\ Nodes(Evicted(t, r, v)) = Nodes(t)
      /\ \A n \in Nodes(t) : Evicted(t, r, v).residents[n] = IF n = v THEN Drop(t.residents[n], r)
                                                             ELSE t.residents[n]
  BY DEF Evicted, Nodes
<1>2. Used(Evicted(t, r, v), q) = Used(t, q)
  BY DEF Evicted, Used, Put
<1>3. \A f : /\ q \in DOMAIN Drop(f, r) <=> q \in DOMAIN f
             /\ q \in DOMAIN f => Drop(f, r)[q] = f[q]
  BY DEF Drop
<1> QED BY <1>1, <1>2, <1>3 DEF Alike, Holds

\* The same nodes can be evicted, one of them is taken first.
LEMMA SameVictim ==
  ASSUME NEW u, NEW t, NEW r, Alike(u, t, r), NEW order
  PROVE  Victims(u, r) = Victims(t, r) /\ Victim(u, r, order) = Victim(t, r, order)
<1>1. \A n : Children(u, n) = Children(t, n) /\ Children(t, n) \subseteq Nodes(t)
  BY SameChildren DEF Alike, Children
<1>2. \A n \in Nodes(t) : IsTailFor(u, n, r) <=> IsTailFor(t, n, r)
  BY <1>1 DEF IsTailFor, Alike
<1>3. Evictable(u, r) = Evictable(t, r)
  BY <1>2 DEF Evictable, Alike
<1>4. \A n \in Evictable(t, r) : u.residents[n][r] = t.residents[n][r]
  BY DEF Evictable, Alike
<1>5. Victims(u, r) = Victims(t, r)
  BY <1>3, <1>4 DEF Victims
<1>6. Victim(u, r, order) = Victim(t, r, order)
  BY <1>5, Zenon DEF Victim
<1> QED BY <1>5, <1>6

LEMMA PassAlike ==
  ASSUME NEW u, NEW t, NEW r, Alike(u, t, r), NEW cu, NEW ct, SameBound(cu, ct, r), NEW order
  PROVE  Alike(Pass(u, r, cu, order), Pass(t, r, ct, order), r)
<1>1. OverCapacity(u, r, cu) <=> OverCapacity(t, r, ct)
  BY DEF OverCapacity, SameBound, Alike
<1>2. Victims(u, r) = Victims(t, r) /\ Victim(u, r, order) = Victim(t, r, order)
  BY SameVictim
<1>3. CASE OverCapacity(t, r, ct) /\ Victims(t, r) # {}
  <2>1. /\ Pass(u, r, cu, order) = Evicted(u, r, Victim(t, r, order))
        /\ Pass(t, r, ct, order) = Evicted(t, r, Victim(t, r, order))
    BY <1>1, <1>2, <1>3 DEF Pass
  <2> QED BY <2>1, EvictedAlike
<1>4. CASE ~(OverCapacity(t, r, ct) /\ Victims(t, r) # {})
  <2>1. Pass(u, r, cu, order) = u /\ Pass(t, r, ct, order) = t
    BY <1>1, <1>2, <1>4 DEF Pass
  <2> QED BY <2>1
<1> QED BY <1>3, <1>4

\* The loop takes the same from both.
LEMMA LoopAlike ==
  ASSUME NEW u, NEW t, NEW r, Alike(u, t, r), Used(t, r) \in Nat,
         NEW cu, NEW ct, SameBound(cu, ct, r), NEW order
  PROVE  Alike(EnforceCapacity(u, r, cu, order), EnforceCapacity(t, r, ct, order), r)
<1>1. PICK k \in Nat : k = Used(t, r) /\ k = Used(u, r)
  BY DEF Alike
<1>2. PICK g : IsLoop(g, k, u, r, cu, order) /\ EnforceCapacity(u, r, cu, order) = g[k]
  BY <1>1, EnforceIsLoop
<1>3. PICK f : IsLoop(f, k, t, r, ct, order) /\ EnforceCapacity(t, r, ct, order) = f[k]
  BY <1>1, EnforceIsLoop
<1>4. g[0] = u /\ \A n \in 1 .. k : g[n] = Pass(g[n - 1], r, cu, order)
  BY <1>2, LoopStep
<1>5. f[0] = t /\ \A n \in 1 .. k : f[n] = Pass(f[n - 1], r, ct, order)
  BY <1>3, LoopStep
<1> DEFINE Bad == {n \in 0 .. k : ~Alike(g[n], f[n], r)}
<1>6. Bad = {}
  <2>1. SUFFICES ASSUME Bad # {}
                 PROVE  FALSE
    OBVIOUS
  <2>2. PICK n \in Bad : \A i \in Bad : n <= i
    <3>1. Bad \subseteq Nat
      OBVIOUS
    <3> HIDE DEF Bad
    <3> QED BY <2>1, <3>1, LeastNat
  <2>3. n \in 0 .. k /\ ~Alike(g[n], f[n], r)
    BY <2>2
  <2>4. n # 0
    BY <1>4, <1>5, <2>3
  <2>5. n \in 1 .. k /\ n - 1 \in 0 .. k /\ n - 1 \notin Bad
    BY <2>2, <2>3, <2>4
  <2>6. Alike(g[n - 1], f[n - 1], r)
    BY <2>5
  <2>7. g[n] = Pass(g[n - 1], r, cu, order) /\ f[n] = Pass(f[n - 1], r, ct, order)
    BY <1>4, <1>5, <2>5
  <2> QED BY <2>3, <2>6, <2>7, PassAlike
<1> QED BY <1>2, <1>3, <1>6

\* And nothing of what another replica has.
LEMMA LoopElsewhere ==
  ASSUME NEW t, NEW r, Used(t, r) \in Nat, NEW q, q # r, NEW cap, NEW order
  PROVE  Alike(EnforceCapacity(t, r, cap, order), t, q)
<1>1. PICK k \in Nat : k = Used(t, r)
  OBVIOUS
<1>2. PICK g : IsLoop(g, k, t, r, cap, order) /\ EnforceCapacity(t, r, cap, order) = g[k]
  BY <1>1, EnforceIsLoop
<1>3. g[0] = t /\ \A n \in 1 .. k : g[n] = Pass(g[n - 1], r, cap, order)
  BY <1>2, LoopStep
<1> DEFINE Bad == {n \in 0 .. k : ~Alike(g[n], t, q)}
<1>4. Bad = {}
  <2>1. SUFFICES ASSUME Bad # {}
                 PROVE  FALSE
    OBVIOUS
  <2>2. PICK n \in Bad : \A i \in Bad : n <= i
    <3>1. Bad \subseteq Nat
      OBVIOUS
    <3> HIDE DEF Bad
    <3> QED BY <2>1, <3>1, LeastNat
  <2>3. n \in 0 .. k /\ ~Alike(g[n], t, q)
    BY <2>2
  <2>4. Alike(t, t, q)
    BY DEF Alike
  <2>5. n # 0
    BY <1>3, <2>3, <2>4
  <2>6. n \in 1 .. k /\ n - 1 \in 0 .. k /\ n - 1 \notin Bad
    BY <2>2, <2>3, <2>5
  <2>7. Alike(g[n - 1], t, q)
    BY <2>6
  <2>8. g[n] = Pass(g[n - 1], r, cap, order)
    BY <1>3, <2>6
  <2>9. g[n] = g[n - 1] \/ \E v : g[n] = Evicted(g[n - 1], r, v)
    BY <2>8 DEF Pass
  <2>10. Alike(g[n], g[n - 1], q)
    <3>1. \A w : Alike(w, w, q)
      BY DEF Alike
    <3> QED BY <2>9, <3>1, EvictedElsewhere
  <2>11. Alike(g[n], t, q)
    BY <2>4, <2>7, <2>10, AlikeThrough
  <2> QED BY <2>3, <2>11
<1> QED BY <1>1, <1>2, <1>4

\* The same path in both: what was alike of q stays so.
LEMMA PathAlike ==
  ASSUME NEW T, NEW P, NEW A, NEW h \in Nat, P \subseteq Seq(T),
         NEW t, Sound(t, T, P, A, h), NEW u, Sound(u, T, P, A, h),
         NEW tokens \in P, NEW r \in A, NEW at \in Nat, h <= at,
         NEW q, Alike(u, t, q), Counted(t, q), Counted(u, q)
  PROVE  Alike(InsertPath(u, tokens, r, at), InsertPath(t, tokens, r, at), q)
<1> DEFINE G    == Extended(t, tokens)
           H    == Extended(u, tokens)
           mid  == SubSeq(tokens, 1, Matched(t, tokens))
           p    == InsertPath(t, tokens, r, at)
           m    == InsertPath(u, tokens, r, at)
           Same(f, g) == /\ q \in DOMAIN f <=> q \in DOMAIN g
                         /\ q \in DOMAIN g => f[q] = g[q]
<1>1. Nodes(u) = Nodes(t) /\ \A n \in Nodes(t) : Same(u.residents[n], t.residents[n])
  BY DEF Alike, Holds
<1>2. MidEdge(u, tokens) = MidEdge(t, tokens) /\ Matched(u, tokens) = Matched(t, tokens)
  BY <1>1, SameWalk
<1>3. PICK c : c = CHOOSE x \in MidEdge(t, tokens) : TRUE
  OBVIOUS
<1>4. mid \notin Nodes(t) => c \in Nodes(t)
  <2>1. tokens \in Seq(T) /\ Rooted(t, T)
    BY SoundShaped
  <2>2. Deepest(t, tokens) \in Nodes(t)
    BY <2>1, DeepestIsLongest
  <2>3. MidEdge(t, tokens) = {} => mid = Deepest(t, tokens)
    BY <2>1, WalkStops
  <2>4. MidEdge(t, tokens) # {} => c \in Nodes(t)
    BY <1>3, <2>1, WalkStops
  <2> QED BY <2>2, <2>3, <2>4
<1>5. /\ DOMAIN G = Nodes(t) \cup {mid, tokens} /\ DOMAIN H = DOMAIN G
      /\ \A n \in DOMAIN G : /\ G[n] = IF n \in Nodes(t) THEN t.residents[n]
                                       ELSE IF n = mid THEN t.residents[c] ELSE NoResidents
                             /\ H[n] = IF n \in Nodes(t) THEN u.residents[n]
                                       ELSE IF n = mid THEN u.residents[c] ELSE NoResidents
  BY <1>1, <1>2, <1>3 DEF Extended
<1>6. \A n \in DOMAIN G : Same(H[n], G[n])
  BY <1>1, <1>4, <1>5
<1>7. /\ Nodes(p) = DOMAIN G /\ Nodes(m) = DOMAIN G
      /\ \A n \in DOMAIN G :
           /\ p.residents[n] = IF n # <<>> /\ IsPrefix(n, tokens) THEN Put(G[n], r, at) ELSE G[n]
           /\ m.residents[n] = IF n # <<>> /\ IsPrefix(n, tokens) THEN Put(H[n], r, at) ELSE H[n]
  BY <1>5 DEF InsertPath, Mark, Nodes
<1> HIDE DEF G, H, mid
<1>8. \A f, g : Same(f, g) => Same(Put(f, r, at), Put(g, r, at))
  BY DEF Put
<1>9. \A n \in DOMAIN G : Same(m.residents[n], p.residents[n])
  BY <1>6, <1>7, <1>8
<1>10. Stored(p, t, tokens, r, at) /\ Stored(m, u, tokens, r, at)
  BY InsertStores
<1> HIDE DEF p, m
<1>11. Held(m, q) = Held(p, q)
  <2>1. {n \in Nodes(m) : Holds(m, n, q)} = {n \in Nodes(p) : Holds(p, n, q)}
    BY <1>7, <1>9 DEF Holds
  <2> QED BY <2>1, Zenon DEF Held
<1>12. Counted(p, q) /\ Counted(m, q)
  BY <1>10 DEF Stored, Unaffected, Counted
<1>13. Used(m, q) = Used(p, q)
  BY <1>11, <1>12 DEF Counted
<1> QED BY <1>7, <1>9, <1>13 DEF Alike, Holds, p, m

\* Two trees that bound a replica alike stay alike for it, whatever arrives
\* together, and whatever bounds the others.
LEMMA InsertedAlike ==
  ASSUME NEW T, NEW P, NEW A, NEW h \in Nat, P \subseteq Seq(T),
         NEW t, Sound(t, T, P, A, h), NEW u, Sound(u, T, P, A, h),
         NEW tokens \in P, NEW r \in A, NEW at \in Nat, h <= at,
         NEW ct, NEW cu, NEW order, NEW q, SameBound(cu, ct, q),
         Alike(u, t, q), Counted(t, q), Counted(u, q), Counted(t, r), Counted(u, r)
  PROVE  Alike(Inserted(u, tokens, r, at, cu, order), Inserted(t, tokens, r, at, ct, order), q)
<1>1. CASE tokens = <<>>
  BY <1>1 DEF Inserted
<1>2. CASE tokens # <<>>
  <2> DEFINE p == InsertPath(t, tokens, r, at)
             m == InsertPath(u, tokens, r, at)
  <2>1. Alike(m, p, q)
    BY PathAlike
  <2>2. Stored(p, t, tokens, r, at) /\ Stored(m, u, tokens, r, at)
    BY InsertStores
  <2>3. /\ Inserted(t, tokens, r, at, ct, order) = EnforceCapacity(p, r, ct, order)
        /\ Inserted(u, tokens, r, at, cu, order) = EnforceCapacity(m, r, cu, order)
    BY <1>2 DEF Inserted
  <2> HIDE DEF p, m
  <2>4. Counted(p, r) /\ Counted(m, r)
    BY <2>2 DEF Stored
  <2>5. Used(p, r) \in Nat /\ Used(m, r) \in Nat
    BY <2>4, FS_CardinalityType DEF Counted
  <2>6. CASE q = r
    BY <2>1, <2>3, <2>5, <2>6, LoopAlike
  <2>7. CASE q # r
    <3>1. /\ Alike(EnforceCapacity(p, r, ct, order), p, q)
          /\ Alike(EnforceCapacity(m, r, cu, order), m, q)
      BY <2>5, <2>7, LoopElsewhere
    <3> QED BY <2>1, <2>3, <3>1, AlikeThrough
  <2> QED BY <2>6, <2>7
<1> QED BY <1>1, <1>2

\* Trees of the same nodes are traversed in one order.
LEMMA OrderedAlike ==
  ASSUME NEW u, NEW t, Nodes(u) = Nodes(t), NEW order, NEW tokens
  PROVE  Ordered(order, u, tokens) = Ordered(order, t, tokens)
<1>1. Matched(u, tokens) = Matched(t, tokens)
  BY SameWalk
<1> QED BY <1>1, Zenon DEF Ordered

\* The traversal of prompts comes to prompts.
LEMMA OrderedIsSeq ==
  ASSUME NEW S, NEW order \in Seq(S), NEW t, NEW tokens \in S
  PROVE  Ordered(order, t, tokens) \in Seq(S)
<1> DEFINE i == Place(order, SubSeq(tokens, 1, Matched(t, tokens)))
<1>1. i \in 1 .. Len(order) + 1 /\ Len(order) \in Nat
  BY PlaceIsNat, LenProperties
<1> HIDE DEF i
<1>2. InsertAt(order, i, tokens) \in Seq(S)
  <2>1. SubSeq(order, 1, i - 1) \in Seq(S) /\ SubSeq(order, i, Len(order)) \in Seq(S)
    BY <1>1
  <2> QED BY <2>1 DEF InsertAt
<1> QED BY <1>2 DEF Ordered, i

----------------------------------------------------------------------------
\* The invariant.

Handle == [replica_id : replica_ids, tokens : Prompts, believed : Nat, uncached_tokens : Int]

Arguments ==
  /\ oracle \in BOOLEAN /\ belief_capacity \in BeliefCapacities \cup {capacity}
  /\ concurrency \in Concurrencies

\* Who is in flight has been served, and is not more than may be; each arrival
\* moves the clock at most once.
Line ==
  /\ inflight \in Seq(Handle)
  /\ Len(inflight) <= concurrency /\ Len(inflight) <= served
  /\ served \in 0 .. MaxRequests /\ mispredicted \in 0 .. served /\ others \in Nat
  /\ arrival \in Nat /\ arrival <= served + others
  /\ truth_order \in Seq(Prompts) /\ belief_order \in Seq(Prompts)

\* Both trees are sound and counted; the ceiling's never says when.
Trees ==
  /\ arrival \in Nat
  /\ Sound(truth, Token, Prompts, replica_ids, arrival)
  /\ Sound(belief, Token, Prompts, replica_ids, arrival)
  /\ Sound(ceiling, Token, Prompts, {"oracle"}, 0)
  /\ \A r \in replica_ids : Counted(truth, r) /\ Counted(belief, r)

\* The ceiling holds what any replica does.
Ceiling == others = 0 => \A r \in replica_ids : Held(truth, r) \subseteq Held(ceiling, "oracle")

\* Before the first completion the two trees are two caches of the same
\* requests: the conclusion of CapacityOrdersHoldings, node by node where the
\* capacities are equal, and with the times that make it inductive where they
\* are not.
Sorted ==
  \A r \in replica_ids :
    /\ Kempt(truth, r) /\ Kempt(belief, r)
    /\ NoMore(belief_capacity, capacity, r) => Nested(belief, truth, r)
    /\ NoMore(capacity, belief_capacity, r) => Nested(truth, belief, r)

Compared ==
  Undisturbed =>
    /\ Nodes(truth) = Nodes(belief) /\ truth_order = belief_order
    /\ \A r \in replica_ids : SameBound(belief_capacity, capacity, r) => Alike(belief, truth, r)
    /\ NoTies => Sorted

ReplayInv == Arguments /\ Line /\ Trees /\ BlindNeverUnderestimates /\ Ceiling /\ Compared

LEMMA Capacities ==
  ASSUME Arguments
  PROVE  /\ belief_capacity \in [DOMAIN belief_capacity -> Nat]
         /\ capacity \in [DOMAIN capacity -> Nat]
         /\ concurrency \in Nat /\ concurrency # 0
         /\ Prompts \subseteq Seq(Token) /\ prefix_match_unit \in Nat \ {0}
BY ReplayAssumption DEF Arguments

LEMMA EmptyHolds ==
  ASSUME NEW r
  PROVE  Held(EmptyTree, r) = {} /\ Counted(EmptyTree, r) /\ Kempt(EmptyTree, r)
<1>1. Held(EmptyTree, r) = {} /\ Used(EmptyTree, r) = 0
  BY DEF Held, EmptyTree, Nodes, Holds, NoResidents, Used
<1>2. Counted(EmptyTree, r)
  BY <1>1, FS_EmptySet DEF Counted
<1> QED BY <1>1, <1>2 DEF Kempt, OneAtATime

LEMMA InitReplay == Init => ReplayInv
<1> SUFFICES ASSUME Init PROVE ReplayInv
  OBVIOUS
<1>1. /\ truth = EmptyTree /\ belief = EmptyTree /\ ceiling = EmptyTree
      /\ inflight = <<>> /\ arrival = 0 /\ served = 0 /\ others = 0 /\ mispredicted = 0
      /\ truth_order = <<>> /\ belief_order = <<>>
  BY DEF Init
<1>2. Arguments
  BY ReplayAssumption DEF Init, Arguments
<1>3. Line
  <2>1. MaxRequests \in Nat /\ concurrency \in Nat
    BY <1>2, ReplayAssumption DEF Arguments
  <2> QED BY <1>1, <2>1 DEF Line
<1>4. Trees
  BY <1>1, EmptySound, EmptyHolds DEF Trees
<1>5. BlindNeverUnderestimates /\ Ceiling
  BY <1>1, EmptyHolds DEF BlindNeverUnderestimates, Ceiling
<1>6. \A r : Nested(EmptyTree, EmptyTree, r)
  BY DEF Nested
<1>7. Compared
  BY <1>1, <1>6, EmptyHolds DEF Compared, Sorted, Alike
<1> QED BY <1>2, <1>3, <1>4, <1>5, <1>7 DEF ReplayInv

----------------------------------------------------------------------------
\* What the actions do to the trees.

\* c is t with at most one completion, and none while there is room.
Completed(c, t, at) ==
  /\ \/ c = t
     \/ \E d \in Handle : c = Touched(t, d.tokens, d.replica_id, at)
  /\ Len(inflight) < concurrency => c = t

LEMMA CompletedKeeps ==
  ASSUME Arguments, NEW t, NEW h \in Nat, Sound(t, Token, Prompts, replica_ids, h),
         NEW at \in Nat, h <= at, NEW c, Completed(c, t, at)
  PROVE  /\ Sound(c, Token, Prompts, replica_ids, at)
         /\ \A s : Held(c, s) = Held(t, s) /\ (Counted(t, s) => Counted(c, s))
<1>1. Prompts \subseteq Seq(Token)
  BY Capacities
<1>2. CASE c = t
  BY <1>2, SoundLater
<1>3. CASE c # t
  <2>1. PICK d \in Handle : c = Touched(t, d.tokens, d.replica_id, at)
    BY <1>3 DEF Completed
  <2>2. d.tokens \in Prompts /\ d.replica_id \in replica_ids
    BY DEF Handle
  <2>3. Sound(c, Token, Prompts, replica_ids, at)
    BY <1>1, <2>1, <2>2, TouchSound
  <2>4. UsedUpTo(c, t, d.tokens, d.replica_id, at)
    BY <1>1, <2>1, <2>2, TouchUses
  <2>5. \A s : Held(c, s) = Held(t, s) /\ Used(c, s) = Used(t, s)
    BY <2>4 DEF UsedUpTo, Unaffected
  <2> QED BY <2>3, <2>5 DEF Counted
<1> QED BY <1>2, <1>3

\* One request, on one tree or on two.
OnOneTree(tokens, r, at) ==
  /\ belief' = belief
  /\ \E c, stored : /\ Completed(c, truth, at)
                    /\ stored = Inserted(c, tokens, r, at, capacity, truth_order')
                    /\ truth' = Inserted(stored, tokens, r, at, belief_capacity, truth_order')

OnTwoTrees(tokens, r, at) ==
  /\ truth' = Inserted(truth, tokens, r, at, capacity, truth_order')
  /\ \E c : /\ Completed(c, belief, at)
            /\ belief' = Inserted(c, tokens, r, at, belief_capacity, belief_order')

LEMMA FullHasOldest ==
  ASSUME Arguments, Line, AtConcurrency
  PROVE  inflight # <<>> /\ Head(inflight) \in Handle /\ Tail(inflight) \in Seq(Handle)
         /\ Len(Tail(inflight)) = Len(inflight) - 1
<1>1. concurrency \in Nat /\ concurrency # 0
  BY Capacities
<1>2. inflight \in Seq(Handle) /\ Len(inflight) >= concurrency /\ Len(inflight) \in Nat
  BY DEF Line, AtConcurrency
<1>3. inflight # <<>>
  BY <1>1, <1>2, EmptySeq
<1> QED BY <1>2, <1>3, HeadTailProperties

\* The clock does not go back, and goes on by one at most.
LEMMA ServeMoves ==
  ASSUME Line, NEW tokens \in Prompts, NEW r \in replica_ids, Serve(tokens, r)
  PROVE  /\ arrival' \in Nat /\ arrival <= arrival' /\ arrival' <= served' + others'
         /\ NoTies' => NoTies /\ arrival < arrival'
         /\ truth_order' \in Seq(Prompts) /\ belief_order' \in Seq(Prompts)
<1>1. arrival' \in arrival .. (arrival + 1) /\ served' = served + 1 /\ others' = others
  BY DEF Serve, Advance
<1>2. arrival \in Nat /\ served \in Nat /\ others \in Nat /\ arrival <= served + others
  BY ReplayAssumption DEF Line
<1>3. truth_order' \in Seq(Prompts) /\ belief_order' \in Seq(Prompts)
  BY OrderedIsSeq DEF Line, Serve
<1> QED BY <1>1, <1>2, <1>3 DEF NoTies

LEMMA ServeDoes ==
  ASSUME Arguments, Line, NEW tokens \in Prompts, NEW r \in replica_ids, Serve(tokens, r),
         NEW at, at = arrival'
  PROVE  /\ oracle => OnOneTree(tokens, r, at)
         /\ ~oracle => OnTwoTrees(tokens, r, at)
<1> DEFINE model     == IF oracle THEN truth ELSE belief
           completed == IF AtConcurrency THEN Touched(model, Head(inflight).tokens, Head(inflight).replica_id, at) ELSE model
           replicas  == IF oracle THEN completed ELSE truth
<1>1. PICK stored, dispatched :
          /\ stored = Inserted(replicas, tokens, r, at, capacity, truth_order')
          /\ dispatched = Inserted(IF oracle THEN stored ELSE completed, tokens, r, at,
                                   belief_capacity, IF oracle THEN truth_order' ELSE belief_order')
          /\ truth'  = IF oracle THEN dispatched ELSE stored
          /\ belief' = IF oracle THEN belief ELSE dispatched
  BY DEF Serve
<1>2. Completed(completed, model, at)
  <2>1. CASE AtConcurrency
    <3>1. Head(inflight) \in Handle
      BY <2>1, FullHasOldest
    <3>2. ~(Len(inflight) < concurrency)
      BY <2>1, Capacities DEF AtConcurrency, Line
    <3> QED BY <2>1, <3>1, <3>2 DEF Completed
  <2>2. CASE ~AtConcurrency
    BY <2>2 DEF Completed
  <2> QED BY <2>1, <2>2
<1> HIDE DEF completed
<1>3. CASE oracle
  BY <1>1, <1>2, <1>3 DEF OnOneTree
<1>4. CASE ~oracle
  BY <1>1, <1>2, <1>4 DEF OnTwoTrees
<1> QED BY <1>3, <1>4

LEMMA ServeHandle ==
  ASSUME Arguments, Line, Trees, NEW tokens \in Prompts, NEW r \in replica_ids, Serve(tokens, r)
  PROVE  /\ \E d \in Handle :
              inflight' = Append(IF AtConcurrency THEN Tail(inflight) ELSE inflight, d)
         /\ served < MaxRequests /\ served' = served + 1
         /\ mispredicted' = mispredicted \/ mispredicted' = mispredicted + 1
<1> DEFINE at        == arrival'
           model     == IF oracle THEN truth ELSE belief
           completed == IF AtConcurrency
                        THEN Touched(model, Head(inflight).tokens, Head(inflight).replica_id, at)
                        ELSE model
           replicas  == IF oracle THEN completed ELSE truth
           current(stored) == IF oracle THEN stored ELSE completed
<1>1. PICK stored :
        /\ stored = Inserted(replicas, tokens, r, at, capacity, truth_order')
        /\ inflight' = Append(IF AtConcurrency THEN Tail(inflight) ELSE inflight,
                              [replica_id |-> r, tokens |-> tokens,
                               believed |-> Hit(completed, tokens, r),
                               uncached_tokens |-> Len(tokens) - Hit(current(stored), tokens, r)])
  BY DEF Serve
<1>2. /\ at \in Nat /\ arrival \in Nat /\ arrival <= at
      /\ truth_order' \in Seq(Prompts)
  BY ServeMoves DEF Trees
<1>3. Prompts \subseteq Seq(Token) /\ prefix_match_unit \in Nat \ {0} /\ tokens \in Seq(Token)
      /\ capacity \in [DOMAIN capacity -> Nat]
  BY Capacities
<1>4. Sound(model, Token, Prompts, replica_ids, arrival) /\ Counted(model, r)
  BY DEF Trees
<1>5. Sound(completed, Token, Prompts, replica_ids, at) /\ Counted(completed, r)
  <2>1. CASE AtConcurrency
    <3>1. Head(inflight) \in Handle
      BY <2>1, FullHasOldest
    <3>2. ~(Len(inflight) < concurrency)
      BY <2>1, Capacities DEF AtConcurrency, Line
    <3>3. Completed(completed, model, at)
      BY <2>1, <3>1, <3>2 DEF Completed
    <3> HIDE DEF completed, model, at
    <3> QED BY <1>2, <1>4, <3>3, CompletedKeeps
  <2>2. CASE ~AtConcurrency
    BY <1>2, <1>4, <2>2, SoundLater
  <2> QED BY <2>1, <2>2
<1>6. Sound(replicas, Token, Prompts, replica_ids, at) /\ Counted(replicas, r)
  <2>1. CASE oracle
    BY <1>5, <2>1
  <2>2. CASE ~oracle
    BY <1>2, <2>2, SoundLater DEF Trees
  <2> QED BY <2>1, <2>2
<1> HIDE DEF replicas, completed, model, at
<1>7. Sound(stored, Token, Prompts, replica_ids, at)
  <2>1. at <= at /\ capacity \in [DOMAIN capacity -> Nat]
    BY <1>2, <1>3
  <2> QED BY <1>1, <1>2, <1>3, <1>6, <2>1, InsertKeeps, Zenon
<1>8. ASSUME NEW t, Sound(t, Token, Prompts, replica_ids, at)
      PROVE  Hit(t, tokens, r) \in 0 .. Len(tokens)
  BY <1>3, <1>8, SoundShaped, MatchWithinPrompt DEF Hit
<1>9. Hit(completed, tokens, r) \in Nat
  BY <1>5, <1>8
<1>10. Len(tokens) - Hit(current(stored), tokens, r) \in Int
  <2>1. Hit(current(stored), tokens, r) \in 0 .. Len(tokens)
    BY <1>5, <1>7, <1>8
  <2>2. Len(tokens) \in Nat
    BY <1>3, LenProperties
  <2> HIDE DEF current
  <2> QED BY <2>1, <2>2
<1> HIDE DEF current
<1>11. [replica_id |-> r, tokens |-> tokens, believed |-> Hit(completed, tokens, r),
        uncached_tokens |-> Len(tokens) - Hit(current(stored), tokens, r)] \in Handle
  BY <1>9, <1>10 DEF Handle
<1>12. served < MaxRequests /\ served' = served + 1
  BY DEF Serve
<1>13. mispredicted' = mispredicted \/ mispredicted' = mispredicted + 1
  BY DEF Serve
<1> QED BY <1>1, <1>11, <1>12, <1>13

\* Serving keeps the line, and grows it exactly while there is room.
LEMMA ServeLine ==
  ASSUME Arguments, Line, Trees, NEW tokens \in Prompts, NEW r \in replica_ids, Serve(tokens, r)
  PROVE  /\ Line' /\ served' = served + 1
         /\ served' = Len(inflight') => served = Len(inflight) /\ Len(inflight) < concurrency
<1>1. PICK d \in Handle :
        inflight' = Append(IF AtConcurrency THEN Tail(inflight) ELSE inflight, d)
  BY ServeHandle
<1>2. /\ served < MaxRequests /\ served' = served + 1
      /\ mispredicted' = mispredicted \/ mispredicted' = mispredicted + 1
      /\ UNCHANGED <<concurrency, others>>
  BY ServeHandle DEF Serve
<1>3. /\ inflight \in Seq(Handle) /\ Len(inflight) \in Nat /\ Len(inflight) <= concurrency
      /\ Len(inflight) <= served /\ served \in 0 .. MaxRequests /\ MaxRequests \in Nat
      /\ mispredicted \in 0 .. served /\ others \in Nat /\ concurrency \in Nat
  BY Capacities, ReplayAssumption DEF Line
<1>4. /\ inflight' \in Seq(Handle) /\ Len(inflight') <= concurrency
      /\ Len(inflight') <= served + 1
      /\ served + 1 = Len(inflight') => served = Len(inflight) /\ Len(inflight) < concurrency
  <2>1. CASE AtConcurrency
    <3>1. /\ inflight # <<>> /\ Tail(inflight) \in Seq(Handle)
          /\ Len(Tail(inflight)) = Len(inflight) - 1
      BY <2>1, FullHasOldest
    <3>2. inflight' = Append(Tail(inflight), d)
      BY <1>1, <2>1
    <3>3. inflight' \in Seq(Handle) /\ Len(inflight') = Len(inflight)
      BY <1>3, <3>1, <3>2, AppendProperties
    <3> QED BY <1>3, <3>3
  <2>2. CASE ~AtConcurrency
    <3>1. inflight' = Append(inflight, d)
      BY <1>1, <2>2
    <3>2. inflight' \in Seq(Handle) /\ Len(inflight') = Len(inflight) + 1
      BY <1>3, <3>1, AppendProperties
    <3>3. Len(inflight) < concurrency
      BY <1>3, <2>2 DEF AtConcurrency
    <3> QED BY <1>3, <3>2, <3>3
  <2> QED BY <2>1, <2>2
<1>5. served' \in 0 .. MaxRequests /\ mispredicted' \in 0 .. served'
  BY <1>2, <1>3
<1>6. Line'
  BY <1>2, <1>3, <1>4, <1>5, ServeMoves DEF Line
<1> QED BY <1>2, <1>4, <1>6

----------------------------------------------------------------------------
\* Each part of the invariant, over a request that is served.

LEMMA KeptCounts ==
  ASSUME NEW u, NEW t, NEW tokens, NEW r, NEW cap, Kept(u, t, tokens, r, cap),
         \A s \in replica_ids : Counted(t, s)
  PROVE  \A s \in replica_ids : Counted(u, s)
BY DEF Kept, Unaffected, Counted

\* After an insertion, what a replica holds it held before, or was sent.
LEMMA KeptHolds ==
  ASSUME NEW u, NEW t, NEW tokens, NEW r, NEW cap, Kept(u, t, tokens, r, cap)
  PROVE  /\ \A s : s # r => Held(u, s) = Held(t, s)
         /\ Held(u, r) \subseteq Held(t, r) \cup Cuts(tokens)
         /\ Unbounded(cap, r) => Held(u, r) = Held(t, r) \cup Cuts(tokens)
BY DEF Kept, Unaffected, Unbounded

LEMMA OneTreeKeeps ==
  ASSUME Arguments, Trees, NEW tokens \in Prompts, NEW r \in replica_ids,
         NEW at \in Nat, arrival <= at, OnOneTree(tokens, r, at), truth_order' \in Seq(Prompts)
  PROVE  /\ Sound(truth', Token, Prompts, replica_ids, at)
         /\ \A s \in replica_ids : Counted(truth', s)
         /\ \A s \in replica_ids : s # r => Held(truth', s) = Held(truth, s)
         /\ Held(truth', r) \subseteq Held(truth, r) \cup Cuts(tokens)
<1>1. PICK c, stored : /\ Completed(c, truth, at)
                       /\ stored = Inserted(c, tokens, r, at, capacity, truth_order')
                       /\ truth' = Inserted(stored, tokens, r, at, belief_capacity, truth_order')
  BY DEF OnOneTree
<1>2. /\ Prompts \subseteq Seq(Token) /\ capacity \in [DOMAIN capacity -> Nat]
      /\ belief_capacity \in [DOMAIN belief_capacity -> Nat]
  BY Capacities
<1>3. /\ Sound(truth, Token, Prompts, replica_ids, arrival) /\ arrival \in Nat
      /\ \A s \in replica_ids : Counted(truth, s)
  BY DEF Trees
<1>4. /\ Sound(c, Token, Prompts, replica_ids, at)
      /\ \A s : Held(c, s) = Held(truth, s) /\ (Counted(truth, s) => Counted(c, s))
  BY <1>1, <1>3, CompletedKeeps
<1>now. at <= at
  OBVIOUS
<1>5. \A s \in replica_ids : Counted(c, s)
  BY <1>3, <1>4
<1>6. Sound(stored, Token, Prompts, replica_ids, at) /\ Kept(stored, c, tokens, r, capacity)
  BY <1>1, <1>2, <1>4, <1>5, <1>now, InsertKeeps, Zenon
<1>7. \A s \in replica_ids : Counted(stored, s)
  BY <1>5, <1>6, KeptCounts
<1>8. /\ Sound(truth', Token, Prompts, replica_ids, at)
      /\ Kept(truth', stored, tokens, r, belief_capacity)
  BY <1>1, <1>2, <1>6, <1>7, <1>now, InsertKeeps, Zenon
<1>9. \A s \in replica_ids : Counted(truth', s)
  BY <1>7, <1>8, KeptCounts
<1>10. /\ \A s : s # r => Held(stored, s) = Held(c, s)
       /\ Held(stored, r) \subseteq Held(c, r) \cup Cuts(tokens)
  BY <1>6, KeptHolds
<1>11. /\ \A s : s # r => Held(truth', s) = Held(stored, s)
       /\ Held(truth', r) \subseteq Held(stored, r) \cup Cuts(tokens)
  BY <1>8, KeptHolds
<1> QED BY <1>4, <1>8, <1>9, <1>10, <1>11

LEMMA TwoTreesKeep ==
  ASSUME Arguments, Trees, NEW tokens \in Prompts, NEW r \in replica_ids,
         NEW at \in Nat, arrival <= at, OnTwoTrees(tokens, r, at),
         truth_order' \in Seq(Prompts), belief_order' \in Seq(Prompts)
  PROVE  /\ Sound(truth', Token, Prompts, replica_ids, at)
         /\ Sound(belief', Token, Prompts, replica_ids, at)
         /\ \A s \in replica_ids : Counted(truth', s) /\ Counted(belief', s)
         /\ \A s \in replica_ids :
              s # r => Held(truth', s) = Held(truth, s) /\ Held(belief', s) = Held(belief, s)
         /\ Held(truth', r) \subseteq Held(truth, r) \cup Cuts(tokens)
         /\ Unbounded(belief_capacity, r) => Held(belief', r) = Held(belief, r) \cup Cuts(tokens)
<1>1. PICK c : /\ Completed(c, belief, at)
               /\ belief' = Inserted(c, tokens, r, at, belief_capacity, belief_order')
  BY DEF OnTwoTrees
<1>2. /\ Prompts \subseteq Seq(Token) /\ capacity \in [DOMAIN capacity -> Nat]
      /\ belief_capacity \in [DOMAIN belief_capacity -> Nat]
  BY Capacities
<1>3. /\ Sound(truth, Token, Prompts, replica_ids, arrival) /\ arrival \in Nat
      /\ Sound(belief, Token, Prompts, replica_ids, arrival)
      /\ \A s \in replica_ids : Counted(truth, s) /\ Counted(belief, s)
  BY DEF Trees
<1>4. /\ Sound(c, Token, Prompts, replica_ids, at)
      /\ \A s : Held(c, s) = Held(belief, s) /\ (Counted(belief, s) => Counted(c, s))
  BY <1>1, <1>3, CompletedKeeps
<1>now. at <= at
  OBVIOUS
<1>5. \A s \in replica_ids : Counted(c, s)
  BY <1>3, <1>4
<1>6. truth' = Inserted(truth, tokens, r, at, capacity, truth_order')
  BY DEF OnTwoTrees
<1>7. Sound(truth', Token, Prompts, replica_ids, at) /\ Kept(truth', truth, tokens, r, capacity)
  BY <1>2, <1>3, <1>6, InsertKeeps, Zenon
<1>8. /\ Sound(belief', Token, Prompts, replica_ids, at)
      /\ Kept(belief', c, tokens, r, belief_capacity)
  BY <1>1, <1>2, <1>4, <1>5, <1>now, InsertKeeps, Zenon
<1>9. \A s \in replica_ids : Counted(truth', s)
  BY <1>3, <1>7, KeptCounts
<1>10. \A s \in replica_ids : Counted(belief', s)
  BY <1>5, <1>8, KeptCounts
<1>11. /\ \A s : s # r => Held(truth', s) = Held(truth, s)
       /\ Held(truth', r) \subseteq Held(truth, r) \cup Cuts(tokens)
  BY <1>7, KeptHolds
<1>12. /\ \A s : s # r => Held(belief', s) = Held(c, s)
       /\ Unbounded(belief_capacity, r) => Held(belief', r) = Held(c, r) \cup Cuts(tokens)
  BY <1>8, KeptHolds
<1> QED BY <1>4, <1>7, <1>8, <1>9, <1>10, <1>11, <1>12

\* reuse_ceiling() forgets nothing.
LEMMA CeilingGrows ==
  ASSUME Arguments, Trees, NEW tokens \in Prompts, ceiling' = CeilingWith(tokens)
  PROVE  /\ Sound(ceiling', Token, Prompts, {"oracle"}, 0)
         /\ Held(ceiling', "oracle") = Held(ceiling, "oracle") \cup Cuts(tokens)
<1>1. Prompts \subseteq Seq(Token) /\ Sound(ceiling, Token, Prompts, {"oracle"}, 0)
  BY Capacities DEF Trees
<1> DEFINE r == "oracle"
<1>2. r \in {"oracle"} /\ ceiling' = InsertPath(ceiling, tokens, r, 0)
  BY DEF CeilingWith
<1>3. /\ Sound(ceiling', Token, Prompts, {"oracle"}, 0)
      /\ Stored(ceiling', ceiling, tokens, r, 0)
  BY <1>1, <1>2, InsertSound, InsertStores
<1> QED BY <1>3 DEF Stored

\* What a request does to all three.
LEMMA ServeTrees ==
  ASSUME ReplayInv, NEW tokens \in Prompts, NEW r \in replica_ids, Serve(tokens, r)
  PROVE  Trees' /\ BlindNeverUnderestimates' /\ Ceiling'
<1>1. /\ Arguments /\ Line /\ Trees /\ BlindNeverUnderestimates /\ Ceiling
  BY DEF ReplayInv
<1>2. PICK at \in Nat : at = arrival' /\ arrival <= at
  BY <1>1, ServeMoves
<1>orders. truth_order' \in Seq(Prompts) /\ belief_order' \in Seq(Prompts)
  BY <1>1, ServeMoves
<1>3. /\ arrival' = at /\ ceiling' = CeilingWith(tokens)
      /\ UNCHANGED <<oracle, belief_capacity, concurrency, others>>
  BY <1>2 DEF Serve
<1>4. /\ Sound(ceiling', Token, Prompts, {"oracle"}, 0)
      /\ Held(ceiling', "oracle") = Held(ceiling, "oracle") \cup Cuts(tokens)
  BY <1>1, <1>3, CeilingGrows
<1>5. CASE oracle
  <2>1. OnOneTree(tokens, r, at)
    BY <1>1, <1>2, <1>5, ServeDoes
  <2>2. /\ Sound(truth', Token, Prompts, replica_ids, at)
        /\ \A s \in replica_ids : Counted(truth', s)
        /\ \A s \in replica_ids : s # r => Held(truth', s) = Held(truth, s)
        /\ Held(truth', r) \subseteq Held(truth, r) \cup Cuts(tokens)
    BY <1>1, <1>2, <1>orders, <2>1, OneTreeKeeps
  <2>3. belief' = belief
    BY <2>1 DEF OnOneTree
  <2>4. Sound(belief', Token, Prompts, replica_ids, at)
    BY <1>1, <1>2, <2>3, SoundLater DEF Trees
  <2>5. \A s \in replica_ids : Counted(belief', s)
    BY <1>1, <2>3 DEF Trees
  <2>6. Trees'
    BY <1>2, <1>3, <1>4, <2>2, <2>4, <2>5 DEF Trees
  <2>7. BlindNeverUnderestimates'
    BY <1>3, <1>5 DEF BlindNeverUnderestimates
  <2>8. Ceiling'
    BY <1>1, <1>3, <1>4, <2>2 DEF Ceiling
  <2> QED BY <2>6, <2>7, <2>8
<1>6. CASE ~oracle
  <2>1. OnTwoTrees(tokens, r, at)
    BY <1>1, <1>2, <1>6, ServeDoes
  <2>2. /\ Sound(truth', Token, Prompts, replica_ids, at)
        /\ Sound(belief', Token, Prompts, replica_ids, at)
        /\ \A s \in replica_ids : Counted(truth', s) /\ Counted(belief', s)
        /\ \A s \in replica_ids :
             s # r => Held(truth', s) = Held(truth, s) /\ Held(belief', s) = Held(belief, s)
        /\ Held(truth', r) \subseteq Held(truth, r) \cup Cuts(tokens)
        /\ Unbounded(belief_capacity, r) =>
             Held(belief', r) = Held(belief, r) \cup Cuts(tokens)
    BY <1>1, <1>2, <1>orders, <2>1, TwoTreesKeep
  <2>3. Trees'
    BY <1>2, <1>3, <1>4, <2>2 DEF Trees
  <2>4. BlindNeverUnderestimates'
    <3>1. SUFFICES ASSUME others = 0, NEW s \in replica_ids, Unbounded(belief_capacity, s)
                   PROVE  Held(truth', s) \subseteq Held(belief', s)
      BY <1>3 DEF BlindNeverUnderestimates, Unbounded
    <3>2. Held(truth, s) \subseteq Held(belief, s)
      BY <1>1, <1>6, <3>1 DEF BlindNeverUnderestimates
    <3> QED BY <2>2, <3>1, <3>2
  <2>5. Ceiling'
    BY <1>1, <1>3, <1>4, <2>2 DEF Ceiling
  <2> QED BY <2>3, <2>4, <2>5
<1> QED BY <1>5, <1>6

\* Two trees before the first completion: the belief is sent what the truth is.
LEMMA ServeCompared ==
  ASSUME ReplayInv, NEW tokens \in Prompts, NEW r \in replica_ids, Serve(tokens, r)
  PROVE  Compared'
<1>1. Arguments /\ Line /\ Trees /\ Compared
  BY DEF ReplayInv
<1>2. PICK at \in Nat : at = arrival' /\ arrival <= at
  BY <1>1, ServeMoves
<1>now. arrival <= at
  BY <1>2
<1>3. UNCHANGED <<oracle, belief_capacity, concurrency, others>>
  BY DEF Serve
<1>4. SUFFICES ASSUME Undisturbed'
               PROVE  /\ Nodes(truth') = Nodes(belief') /\ truth_order' = belief_order'
                      /\ \A q \in replica_ids :
                           SameBound(belief_capacity, capacity, q) => Alike(belief', truth', q)
                      /\ NoTies' => Sorted'
  BY <1>3 DEF Compared, SameBound
<1>5. ~oracle /\ others = 0 /\ served = Len(inflight) /\ Len(inflight) < concurrency
  BY <1>1, <1>3, <1>4, ServeLine DEF Undisturbed
<1>6. /\ Nodes(truth) = Nodes(belief) /\ truth_order = belief_order
      /\ \A q \in replica_ids : SameBound(belief_capacity, capacity, q) => Alike(belief, truth, q)
      /\ NoTies => Sorted
  BY <1>1, <1>5 DEF Compared, Undisturbed
<1>7. /\ truth' = Inserted(truth, tokens, r, at, capacity, truth_order')
      /\ belief' = Inserted(belief, tokens, r, at, belief_capacity, belief_order')
  BY <1>1, <1>2, <1>5, ServeDoes DEF OnTwoTrees, Completed
<1>8. /\ Sound(truth, Token, Prompts, replica_ids, arrival) /\ arrival \in Nat
      /\ Sound(belief, Token, Prompts, replica_ids, arrival)
      /\ \A q \in replica_ids : Counted(truth, q) /\ Counted(belief, q)
  BY <1>1 DEF Trees
<1>9. /\ Prompts \subseteq Seq(Token) /\ capacity \in [DOMAIN capacity -> Nat]
      /\ belief_capacity \in [DOMAIN belief_capacity -> Nat]
      /\ truth_order' \in Seq(Prompts) /\ belief_order' \in Seq(Prompts)
  BY <1>1, Capacities, ServeMoves
<1>10. /\ truth_order' = belief_order'
       /\ belief' = Inserted(belief, tokens, r, at, belief_capacity, truth_order')
  <2>1. truth_order' = belief_order'
    BY <1>5, <1>6, OrderedAlike DEF Serve
  <2> QED BY <1>7, <2>1
<1>11. Nodes(truth') = Nodes(belief')
  <2>1. /\ tokens = <<>> => Nodes(truth') = Nodes(truth)
        /\ tokens # <<>> => Nodes(truth') = Nodes(InsertPath(truth, tokens, r, at))
    BY <1>now, <1>7, <1>8, <1>9, InsertedNodes
  <2>2. /\ tokens = <<>> => Nodes(belief') = Nodes(belief)
        /\ tokens # <<>> => Nodes(belief') = Nodes(InsertPath(belief, tokens, r, at))
    BY <1>now, <1>7, <1>8, <1>9, InsertedNodes
  <2>3. Nodes(InsertPath(truth, tokens, r, at)) = Nodes(InsertPath(belief, tokens, r, at))
    BY <1>6, SameNodesGrowAlike
  <2> QED BY <1>6, <2>1, <2>2, <2>3, Zenon
<1>12. ASSUME NEW q \in replica_ids, SameBound(belief_capacity, capacity, q)
       PROVE  Alike(belief', truth', q)
  BY <1>2, <1>6, <1>7, <1>8, <1>9, <1>10, <1>12, InsertedAlike
<1>13. ASSUME NoTies'
       PROVE  Sorted'
  <2>1. Sorted /\ arrival < at
    BY <1>1, <1>2, <1>6, <1>13, ServeMoves
  <2>now. arrival < at
    BY <2>1
  <2>2. SUFFICES ASSUME NEW q \in replica_ids
                 PROVE  /\ Kempt(truth', q) /\ Kempt(belief', q)
                        /\ NoMore(belief_capacity, capacity, q) => Nested(belief', truth', q)
                        /\ NoMore(capacity, belief_capacity, q) => Nested(truth', belief', q)
    BY <1>3 DEF Sorted, NoMore, Unbounded
  <2>3. Kempt(truth, r) /\ Kempt(belief, r) /\ Kempt(truth, q) /\ Kempt(belief, q)
    BY <2>1 DEF Sorted
  <2>4. Kempt(truth', q)
    BY <1>2, <1>7, <1>8, <1>9, <2>1, <2>3, InsertedKempt, Zenon
  <2>5. Kempt(belief', q)
    BY <1>2, <1>7, <1>8, <1>9, <2>1, <2>3, InsertedKempt, Zenon
  <2>6. ASSUME NoMore(belief_capacity, capacity, q)
        PROVE  Nested(belief', truth', q)
    <3>1. Nested(belief, truth, q) /\ Nodes(belief) = Nodes(truth)
      BY <1>6, <2>1, <2>6 DEF Sorted
    <3> QED BY <1>7, <1>8, <1>9, <1>10, <2>now, <2>3, <2>6, <3>1, InsertedNested, SMTT(60)
  <2>7. ASSUME NoMore(capacity, belief_capacity, q)
        PROVE  Nested(truth', belief', q)
    <3>1. Nested(truth, belief, q) /\ Nodes(truth) = Nodes(belief)
      BY <1>6, <2>1, <2>7 DEF Sorted
    <3> QED BY <1>7, <1>8, <1>9, <1>10, <2>now, <2>3, <2>7, <3>1, InsertedNested, SMTT(60)
  <2> QED BY <2>4, <2>5, <2>6, <2>7
<1> QED BY <1>10, <1>11, <1>12, <1>13

\* Another router's request ends what was ordered, and all else it keeps.
LEMMA BackgroundKeeps ==
  ASSUME ReplayInv, NEW tokens \in Prompts, NEW r \in replica_ids, Background(tokens, r)
  PROVE  ReplayInv'
<1>1. /\ Arguments /\ Line /\ Trees
  BY DEF ReplayInv
<1>2. PICK at \in Nat : at = arrival' /\ arrival <= at /\ at <= arrival + 1
  BY <1>1 DEF Trees, Background, Advance
<1>3. /\ others' = others + 1
      /\ truth_order' = Ordered(truth_order, truth, tokens)
      /\ truth' = Inserted(truth, tokens, r, at, capacity, truth_order')
      /\ UNCHANGED <<oracle, belief_capacity, concurrency, belief, belief_order, inflight, served,
                     mispredicted, ceiling>>
  BY <1>2 DEF Background
<1>4. others' \in Nat /\ others' # 0
  BY <1>1, <1>3 DEF Line
<1>orders. truth_order' \in Seq(Prompts)
  BY <1>1, <1>3, OrderedIsSeq DEF Line
<1>5. Arguments' /\ Line'
  <2>1. arrival' <= served' + others'
    BY <1>1, <1>2, <1>3, ReplayAssumption DEF Line
  <2>2. served' \in 0 .. MaxRequests /\ mispredicted' \in 0 .. served' /\ others' \in Nat
        /\ arrival' \in Nat
    BY <1>1, <1>2, <1>3, <1>4 DEF Line
  <2> QED BY <1>1, <1>3, <1>orders, <2>1, <2>2 DEF Arguments, Line
<1>6. /\ Sound(truth, Token, Prompts, replica_ids, arrival) /\ arrival \in Nat
      /\ \A s \in replica_ids : Counted(truth, s)
  BY <1>1 DEF Trees
<1>7. Prompts \subseteq Seq(Token) /\ capacity \in [DOMAIN capacity -> Nat]
  BY <1>1, Capacities
<1>8. Sound(truth', Token, Prompts, replica_ids, at) /\ Kept(truth', truth, tokens, r, capacity)
  BY <1>2, <1>3, <1>orders, <1>6, <1>7, InsertKeeps
<1>9. \A s \in replica_ids : Counted(truth', s)
  BY <1>6, <1>8, KeptCounts
<1>10. Sound(belief', Token, Prompts, replica_ids, at)
  BY <1>1, <1>2, <1>3, SoundLater DEF Trees
<1>11. Trees'
  BY <1>1, <1>2, <1>3, <1>8, <1>9, <1>10 DEF Trees
<1>12. BlindNeverUnderestimates' /\ Ceiling' /\ Compared'
  BY <1>4 DEF BlindNeverUnderestimates, Ceiling, Compared, Undisturbed
<1> QED BY <1>5, <1>11, <1>12 DEF ReplayInv

LEMMA NextReplay == ReplayInv /\ [Next]_vars => ReplayInv'
<1> SUFFICES ASSUME ReplayInv, [Next]_vars PROVE ReplayInv'
  OBVIOUS
<1>1. ASSUME NEW tokens \in Prompts, NEW r \in replica_ids, Background(tokens, r)
      PROVE  ReplayInv'
  BY <1>1, BackgroundKeeps
<1>2. ASSUME NEW tokens \in Prompts, NEW r \in replica_ids, Serve(tokens, r)
      PROVE  ReplayInv'
  <2>1. Arguments'
    BY <1>2 DEF ReplayInv, Arguments, Serve
  <2>2. Line'
    BY <1>2, ServeLine DEF ReplayInv
  <2>3. Trees' /\ BlindNeverUnderestimates' /\ Ceiling'
    BY <1>2, ServeTrees
  <2>4. Compared'
    BY <1>2, ServeCompared
  <2> QED BY <2>1, <2>2, <2>3, <2>4 DEF ReplayInv
<1>3. CASE UNCHANGED vars
  BY <1>3 DEF vars, ReplayInv, Arguments, Line, Trees, BlindNeverUnderestimates, Ceiling,
              Compared, Sorted, Undisturbed, NoTies
<1> QED BY <1>1, <1>2, <1>3 DEF Next, Finished

----------------------------------------------------------------------------
\* What holds of every replay.

\* The trees hold prompts of the trace, for replicas of the fleet, and no more
\* requests are in flight than may be (TypeOK, for replay() with any arguments).
THEOREM ReplayInvAlways == Spec => []ReplayInv
<1> QED BY InitReplay, NextReplay, PTL DEF Spec

THEOREM ReplayTypeOK == Spec => []TypeOK
<1>1. ASSUME ReplayInv PROVE TypeOK
  <2>1. Arguments /\ Line /\ Trees
    BY <1>1 DEF ReplayInv
  <2>2. ASSUME NEW t \in {truth, belief}, NEW n \in Nodes(t)
        PROVE  /\ \E p \in Prompts \cup {<<>>} : IsPrefix(n, p)
               /\ DOMAIN t.residents[n] \subseteq replica_ids
    <3>1. Sound(t, Token, Prompts, replica_ids, arrival)
      BY <2>1 DEF Trees
    <3> QED BY <3>1 DEF Sound, Timed, Nodes
  <2> QED BY <2>1, <2>2 DEF TypeOK, Arguments, Line
<1> QED BY <1>1, ReplayInvAlways, PTL

\* A router that forgets nothing, and sees all traffic, never thinks a replica
\* holds less than it does, completions or not (the "blind" belief).
THEOREM BlindNeverDoes == Spec => []BlindNeverUnderestimates
<1>1. ReplayInv => BlindNeverUnderestimates
  BY DEF ReplayInv
<1> QED BY <1>1, ReplayInvAlways, PTL

LEMMA NoMoreIsSame ==
  ASSUME Arguments, NEW r, NoMore(belief_capacity, capacity, r), NoMore(capacity, belief_capacity, r)
  PROVE  SameBound(belief_capacity, capacity, r)
<1>1. r \in DOMAIN belief_capacity <=> r \in DOMAIN capacity
  BY DEF NoMore, Unbounded
<1>2. ASSUME r \in DOMAIN capacity
      PROVE  belief_capacity[r] = capacity[r]
  <2>1. capacity[r] \in Nat /\ belief_capacity[r] \in Nat
    BY <1>1, <1>2, Capacities
  <2> QED BY <1>1, <1>2, <2>1 DEF NoMore, Unbounded
<1> QED BY <1>1, <1>2 DEF SameBound

\* While nothing has completed and no one else sends: equal capacities hold the
\* same, whatever arrives together; and if no two requests do, the cache with
\* less capacity holds a part of what the other does (_enforce_capacity on
\* belief and truth, for any two capacities and any edges, an edge going whole).
THEOREM CapacityAlwaysOrders == Spec => []CapacityOrdersHoldings
<1>1. ASSUME ReplayInv PROVE CapacityOrdersHoldings
  <2>1. Compared /\ Arguments
    BY <1>1 DEF ReplayInv
  <2>2. SUFFICES ASSUME Undisturbed, NEW r \in replica_ids
                 PROVE  LET less == NoMore(belief_capacity, capacity, r)
                            more == NoMore(capacity, belief_capacity, r)
                        IN  /\ less /\ more   => Held(belief, r) = Held(truth, r)
                            /\ less /\ NoTies => Held(belief, r) \subseteq Held(truth, r)
                            /\ more /\ NoTies => Held(truth, r) \subseteq Held(belief, r)
    BY DEF CapacityOrdersHoldings
  <2>3. ASSUME NoMore(belief_capacity, capacity, r), NoMore(capacity, belief_capacity, r)
        PROVE  Held(belief, r) = Held(truth, r)
    BY <2>1, <2>2, <2>3, NoMoreIsSame, AlikeHolds DEF Compared
  <2>4. ASSUME NoTies
        PROVE  /\ NoMore(belief_capacity, capacity, r) => Held(belief, r) \subseteq Held(truth, r)
               /\ NoMore(capacity, belief_capacity, r) => Held(truth, r) \subseteq Held(belief, r)
    BY <2>1, <2>2, <2>4 DEF Compared, Sorted, Nested
  <2> QED BY <2>3, <2>4
<1> QED BY <1>1, ReplayInvAlways, PTL

\* Whoever holds more has the longer hit.
LEMMA HitGrows ==
  ASSUME Arguments, NEW t, NEW u, Shaped(t.residents, Token), Shaped(u.residents, Token),
         NEW tokens \in Prompts, NEW r, NEW s, Held(t, r) \subseteq Held(u, s)
  PROVE  /\ Hit(t, tokens, r) \in Nat /\ Hit(u, tokens, s) \in Nat
         /\ Hit(t, tokens, r) <= Hit(u, tokens, s)
<1> DEFINE I == {0} \cup {i \in 1 .. Len(tokens) : SubSeq(tokens, 1, i) \in Held(t, r)}
           J == {0} \cup {i \in 1 .. Len(tokens) : SubSeq(tokens, 1, i) \in Held(u, s)}
<1>1. tokens \in Seq(Token) /\ prefix_match_unit \in Nat \ {0} /\ Len(tokens) \in Nat
  BY Capacities, LenProperties
<1>2. Hit(t, tokens, r) = Usable(Max(I), prefix_match_unit)
  BY <1>1, MatchIsLongest DEF Hit
<1>3. Hit(u, tokens, s) = Usable(Max(J), prefix_match_unit)
  BY <1>1, MatchIsLongest DEF Hit
<1>4. I \subseteq J /\ J \subseteq 0 .. Len(tokens) /\ I # {} /\ J # {}
  BY <1>1
<1> HIDE DEF I, J
<1>5. Max(I) \in I /\ Max(J) \in J /\ \A y \in J : y <= Max(J)
  <2>1. I \subseteq 0 .. Len(tokens)
    BY <1>4
  <2> QED BY <1>1, <1>4, <2>1, MaxExists
<1>6. Max(I) \in Nat /\ Max(J) \in Nat /\ Max(I) <= Max(J)
  <2>1. \A m \in I : m \in J
    BY <1>4
  <2>2. \A m \in J : m \in Nat
    BY <1>1, <1>4
  <2> QED BY <1>5, <2>1, <2>2, Zenon
<1> QED BY <1>1, <1>2, <1>3, <1>6, UsableGrows

\* No replica serves more of a request than the ceiling's one would
\* (reuse_ceiling against replay, under any policy, capacity and belief).
THEOREM NoPolicyEverBeatsTheCeiling == Spec => []NoPolicyBeatsTheCeiling
<1>1. ASSUME ReplayInv PROVE NoPolicyBeatsTheCeiling
  <2>1. Arguments /\ Trees /\ Ceiling
    BY <1>1 DEF ReplayInv
  <2>2. Shaped(truth.residents, Token) /\ Shaped(ceiling.residents, Token)
    BY <2>1, SoundShaped DEF Trees
  <2>3. SUFFICES ASSUME others = 0, NEW tokens \in Prompts, NEW r \in replica_ids
                 PROVE  Hit(truth, tokens, r) <= Hit(ceiling, tokens, "oracle")
    BY DEF NoPolicyBeatsTheCeiling
  <2>4. Held(truth, r) \subseteq Held(ceiling, "oracle")
    BY <2>1, <2>3 DEF Ceiling
  <2> QED BY <2>1, <2>2, <2>4, HitGrows
<1> QED BY <1>1, ReplayInvAlways, PTL

\* What is left of "its eviction model reproduces the replica exactly": a router
\* that knows the capacity and sees all traffic mispredicts nothing before the
\* first completion.  After it, complete() refreshes the belief and not the
\* truth, and PerfectModelNeverMispredicts fails.
PerfectUntilCompletion ==
  Undisturbed /\ belief_capacity = capacity => mispredicted = 0

THEOREM PerfectModelDriftsOnlyByCompletion == Spec => []PerfectUntilCompletion
<1>1. Init => PerfectUntilCompletion
  BY DEF Init, PerfectUntilCompletion
<1>2. ASSUME ReplayInv, PerfectUntilCompletion, [Next]_vars
      PROVE  PerfectUntilCompletion'
  <2>1. ASSUME NEW tokens \in Prompts, NEW r \in replica_ids, Background(tokens, r)
        PROVE  PerfectUntilCompletion'
    <3>1. others' = others + 1 /\ others \in Nat
      BY <1>2, <2>1 DEF Background, ReplayInv, Line
    <3> QED BY <3>1 DEF PerfectUntilCompletion, Undisturbed
  <2>2. ASSUME NEW tokens \in Prompts, NEW r \in replica_ids, Serve(tokens, r)
        PROVE  PerfectUntilCompletion'
    <3>1. Arguments /\ Line /\ Trees /\ Compared
      BY <1>2 DEF ReplayInv
    <3>2. SUFFICES ASSUME Undisturbed', belief_capacity = capacity
                   PROVE  mispredicted' = 0
      BY <2>2 DEF PerfectUntilCompletion, Serve
    <3>3. /\ ~oracle /\ others = 0 /\ served = Len(inflight) /\ ~AtConcurrency
          /\ Len(inflight) < concurrency
      <4>1. /\ ~oracle /\ others = 0 /\ served = Len(inflight)
            /\ Len(inflight) < concurrency
        BY <2>2, <3>1, <3>2, ServeLine DEF Undisturbed, Serve
      <4> QED BY <3>1, <4>1, Capacities DEF AtConcurrency, Line
    <3>4. mispredicted = 0
      BY <1>2, <3>2, <3>3 DEF PerfectUntilCompletion, Undisturbed
    <3>5. mispredicted' = IF Hit(belief, tokens, r) - Hit(truth, tokens, r) >= prefix_match_unit
                          THEN mispredicted + 1 ELSE mispredicted
      BY <2>2, <3>3 DEF Serve
    <3>6. SameBound(belief_capacity, capacity, r)
      BY <3>2 DEF SameBound
    <3>7. Alike(belief, truth, r)
      BY <3>1, <3>3, <3>6 DEF Compared, Undisturbed
    <3>8. Held(belief, r) = Held(truth, r)
      BY <3>7, AlikeHolds
    <3>9. Shaped(truth.residents, Token) /\ Shaped(belief.residents, Token)
      BY <3>1, SoundShaped DEF Trees
    <3>10. /\ Hit(belief, tokens, r) \in Nat /\ Hit(truth, tokens, r) \in Nat
           /\ Hit(belief, tokens, r) <= Hit(truth, tokens, r)
      BY <3>1, <3>8, <3>9, HitGrows
    <3>11. prefix_match_unit \in Nat /\ prefix_match_unit # 0
      BY <3>1, Capacities
    <3>12. ~(Hit(belief, tokens, r) - Hit(truth, tokens, r) >= prefix_match_unit)
      BY <3>10, <3>11
    <3> QED BY <3>4, <3>5, <3>12
  <2>3. CASE UNCHANGED vars
    BY <1>2, <2>3 DEF vars, PerfectUntilCompletion, Undisturbed
  <2> QED BY <1>2, <2>1, <2>2, <2>3 DEF Next, Finished
<1> QED BY <1>1, <1>2, ReplayInvAlways, PTL DEF Spec
=============================================================================
