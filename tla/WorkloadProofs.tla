--------------------------- MODULE WorkloadProofs ---------------------------
(***************************************************************************)
(* Theorems of Workload: for any number of sessions, turns and tokens, and *)
(* whatever the random generator draws, the sorted trace has the turns of  *)
(* a session in their order, each a beginning of the next, and strangers   *)
(* have the system prompt in common and no more.                           *)
(***************************************************************************)
EXTENDS Workload, FunctionTheorems, SequenceTheorems, FiniteSetTheorems, TLAPS

Request == [session_id : Nat, turn : Nat, index : 0 .. n_system_prompts - 1,
            arrival_s : Nat, tokens : Seq(Nat)]

----------------------------------------------------------------------------
\* Sequences of tokens.
LEMMA StrictPrefixIs ==
  ASSUME NEW s \in Seq(Nat), NEW t \in Seq(Nat)
  PROVE  IsStrictPrefix(s, t) <=> Len(s) < Len(t) /\ \A k \in 1 .. Len(s) : s[k] = t[k]
<1>1. Len(s) \in Nat /\ Len(t) \in Nat /\ DOMAIN s = 1 .. Len(s) /\ DOMAIN t = 1 .. Len(t)
  OBVIOUS
<1>2. SubSeq(s, 1, Len(s)) = s
  OBVIOUS
<1>3. ASSUME Len(s) <= Len(t)
      PROVE  SubSeq(s, 1, Len(s)) = SubSeq(t, 1, Len(s)) <=> \A k \in 1 .. Len(s) : s[k] = t[k]
  <2>1. /\ SubSeq(t, 1, Len(s)) \in Seq(Nat) /\ Len(SubSeq(t, 1, Len(s))) = Len(s)
        /\ \A k \in 1 .. Len(s) : SubSeq(t, 1, Len(s))[k] = t[k]
    BY <1>3
  <2> DEFINE u == SubSeq(t, 1, Len(s))
  <2> HIDE DEF u
  <2>2. s = u <=> \A k \in 1 .. Len(s) : s[k] = u[k]
    BY <2>1 DEF u
  <2> QED BY <1>2, <2>1, <2>2 DEF u
<1>4. Len(s) = Len(t) /\ (\A k \in 1 .. Len(s) : s[k] = t[k]) => s = t
  OBVIOUS
<1>5. IsStrictPrefix(s, t) <=>
        Len(s) <= Len(t) /\ SubSeq(s, 1, Len(s)) = SubSeq(t, 1, Len(s)) /\ s # t
  BY DEF IsStrictPrefix, IsPrefix
<1>6. Len(s) < Len(t) => s # t
  BY <1>1
<1>7. CASE Len(s) <= Len(t)
  <2> DEFINE agree == \A k \in 1 .. Len(s) : s[k] = t[k]
  <2>1. Len(s) = Len(t) /\ agree => s = t
    BY <1>4
  <2>2. IsStrictPrefix(s, t) <=> agree /\ s # t
    BY <1>3, <1>5, <1>7
  <2> HIDE DEF agree
  <2>3. IsStrictPrefix(s, t) => Len(s) # Len(t)
    BY <2>1, <2>2
  <2>4. Len(s) # Len(t) => Len(s) < Len(t)
    <3> PICK a, b : a = Len(s) /\ b = Len(t)
      OBVIOUS
    <3>1. a \in Nat /\ b \in Nat /\ a <= b
      BY <1>1, <1>7
    <3>2. a # b => a < b
      BY <3>1
    <3> QED BY <3>2
  <2>5. IsStrictPrefix(s, t) <=> Len(s) < Len(t) /\ agree
    BY <1>6, <2>2, <2>3, <2>4
  <2> QED BY <2>5 DEF agree
<1>8. CASE ~(Len(s) <= Len(t))
  BY <1>1, <1>5, <1>8
<1> QED BY <1>7, <1>8

LEMMA StrictPrefixTrans ==
  ASSUME NEW s \in Seq(Nat), NEW t \in Seq(Nat), NEW u \in Seq(Nat),
         IsStrictPrefix(s, t), IsStrictPrefix(t, u)
  PROVE  IsStrictPrefix(s, u)
<1>1. Len(s) \in Nat /\ Len(t) \in Nat /\ Len(u) \in Nat
  OBVIOUS
<1>2. /\ Len(s) < Len(t) /\ \A k \in 1 .. Len(s) : s[k] = t[k]
      /\ Len(t) < Len(u) /\ \A k \in 1 .. Len(t) : t[k] = u[k]
  BY StrictPrefixIs
<1>3. Len(s) < Len(u) /\ \A k \in 1 .. Len(s) : s[k] = u[k]
  BY <1>1, <1>2
<1> QED BY <1>3, StrictPrefixIs

LEMMA Longer ==
  /\ \A a, b, c, d \in Nat : a <= b /\ b < c /\ c < d => a < c /\ a < d /\ a <= c /\ a <= d
  /\ \A a, b \in Nat : a <= b => 1 .. a \subseteq 1 .. b
OBVIOUS

\* t goes on from h with a token that is first of its kind.
Continues(t, h, first) ==
  /\ t \in Seq(Nat) /\ Len(t) \in Nat /\ Len(h) \in Nat /\ Len(h) < Len(t)
  /\ \A k \in 1 .. Len(h) : t[k] = h[k]
  /\ t[Len(h) + 1] = first
  /\ IsStrictPrefix(h, t)

LEMMA FreshAdded ==
  ASSUME NEW h \in Seq(Nat), NEW first \in Nat, NEW n \in Nat \ {0},
         NEW t, t = h \o Fresh(first, n)
  PROVE  Continues(t, h, first)
<1> PICK f : f = Fresh(first, n)
  OBVIOUS
<1>1. f \in Seq(Nat) /\ Len(f) = n /\ f[1] = first
  <2>1. f = [k \in 1 .. n |-> first + k - 1]
    BY DEF Fresh
  <2>2. \A k \in 1 .. n : first + k - 1 \in Nat
    OBVIOUS
  <2>3. f \in [1 .. n -> Nat]
    BY <2>1, <2>2
  <2>4. f[1] = first
    BY <2>1
  <2> QED BY <2>3, <2>4
<1>2. t = h \o f
  OBVIOUS
<1>3. /\ t \in Seq(Nat) /\ Len(t) = Len(h) + Len(f) /\ Len(h) \in Nat
      /\ \A k \in 1 .. Len(h) : t[k] = h[k]
      /\ \A k \in 1 .. Len(f) : t[Len(h) + k] = f[k]
  <2>1. /\ t \in Seq(Nat) /\ Len(t) = Len(h) + Len(f)
        /\ \A i \in 1 .. Len(h) + Len(f) :
             t[i] = IF i <= Len(h) THEN h[i] ELSE f[i - Len(h)]
    <3>1. /\ h \o f \in Seq(Nat) /\ Len(h \o f) = Len(h) + Len(f)
          /\ \A i \in 1 .. Len(h) + Len(f) :
               (h \o f)[i] = IF i <= Len(h) THEN h[i] ELSE f[i - Len(h)]
      BY <1>1, ConcatProperties
    <3> QED BY <1>2, <3>1, Zenon
  <2>2. Len(h) \in Nat
    OBVIOUS
  <2> QED BY <1>1, <2>1, <2>2
<1>4. 1 \in 1 .. Len(f) /\ Len(h) < Len(t) /\ t[Len(h) + 1] = first
  BY <1>1, <1>3
<1>5. IsStrictPrefix(h, t)
  BY <1>3, <1>4, StrictPrefixIs
<1>6. Len(t) \in Nat
  BY <1>3
<1> HIDE DEF Fresh
<1> QED BY <1>3, <1>4, <1>5, <1>6 DEF Continues

\* The length of what two texts have in common is where they first differ.
LEMMA SharedIs ==
  ASSUME NEW t \in Seq(Nat), NEW u \in Seq(Nat), NEW n \in Nat,
         n < Len(t), n < Len(u),
         \A k \in 1 .. n : t[k] = u[k],
         t[n + 1] # u[n + 1]
  PROVE  Len(LongestCommonPrefix({t, u})) = n
<1> DEFINE C == CommonPrefixes({t, u})
           c == SubSeq(t, 1, n)
<1>0. Len(t) \in Nat /\ Len(u) \in Nat
  OBVIOUS
<1>1. c \in C /\ Len(c) = n
  <2>1. /\ c \in Seq(Nat) /\ Len(c) = n /\ \A k \in 1 .. n : c[k] = t[k] /\ c[k] = u[k]
    BY <1>0
  <2>2. c \in Prefixes(t)
    BY <1>0 DEF Prefixes
  <2>3. IsStrictPrefix(c, t) /\ IsStrictPrefix(c, u)
    <3> HIDE DEF c
    <3> QED BY <2>1, StrictPrefixIs
  <2> QED BY <2>1, <2>2, <2>3 DEF CommonPrefixes, IsStrictPrefix
<1>2. ASSUME NEW o \in C PROVE Len(o) \in Nat /\ Len(o) <= n
  <2>1. o \in UNION {Prefixes(s) : s \in {t, u}} /\ IsPrefix(o, t) /\ IsPrefix(o, u)
    BY <1>2 DEF CommonPrefixes
  <2>2. PICK s \in {t, u} : \E l \in 0 .. Len(s) : o = SubSeq(s, 1, l)
    BY <2>1 DEF Prefixes
  <2>3. o \in Seq(Nat) /\ Len(o) \in Nat
    BY <2>2
  <2>4. \A v \in {t, u} : IsStrictPrefix(o, v) \/ o = v
    BY <2>1 DEF IsStrictPrefix
  <2>5. ASSUME NEW v \in {t, u} PROVE \A k \in 1 .. Len(o) : o[k] = v[k]
    BY <2>3, <2>4, <2>5, StrictPrefixIs
  <2>6. n < Len(o) => t[n + 1] = u[n + 1]
    <3> SUFFICES ASSUME n < Len(o) PROVE t[n + 1] = u[n + 1]
      OBVIOUS
    <3>1. n + 1 \in 1 .. Len(o)
      BY <2>3
    <3> QED BY <2>5, <3>1
  <2> QED BY <2>3, <2>6
<1> HIDE DEF C, c
<1> DEFINE long == CHOOSE longest \in C : \A other \in C : Len(other) <= Len(longest)
<1>3. long \in C /\ \A other \in C : Len(other) <= Len(long)
  BY <1>1, <1>2
<1>4. Len(long) = n
  <2> HIDE DEF long
  <2> QED BY <1>1, <1>2, <1>3
<1> QED BY <1>4 DEF LongestCommonPrefix, C

----------------------------------------------------------------------------
\* list.sort() keeps what comes before what.
Timed(s, n) == DOMAIN s = 1 .. n /\ \A i \in 1 .. n : s[i].arrival_s \in Nat

Ahead(s, i) == {j \in DOMAIN s : ComesBefore(s, j, i)}

LEMMA PlaceInOrder ==
  ASSUME NEW n \in Nat, NEW s, Timed(s, n), NEW i \in 1 .. n
  PROVE  /\ Cardinality(Ahead(s, i)) \in 1 .. n
         /\ \A j \in 1 .. n : i # j /\ ComesBefore(s, i, j) =>
              Cardinality(Ahead(s, i)) < Cardinality(Ahead(s, j))
<1>1. IsFiniteSet(1 .. n) /\ Cardinality(1 .. n) = n
  BY FS_Interval
<1>2. \A j : /\ Ahead(s, j) \in SUBSET (1 .. n)
  BY DEF Ahead, Timed
<1>3. \A j : /\ IsFiniteSet(Ahead(s, j)) /\ Cardinality(Ahead(s, j)) \in Nat
             /\ Cardinality(Ahead(s, j)) <= n
  BY <1>1, <1>2, FS_Subset, FS_CardinalityType
<1>4. \A j \in 1 .. n : j \in Ahead(s, j)
  BY DEF Ahead, Timed, ComesBefore
<1>5. Cardinality(Ahead(s, i)) # 0
  BY <1>3, <1>4, FS_EmptySet
<1>6. ASSUME NEW j \in 1 .. n, i # j, ComesBefore(s, i, j)
      PROVE  Cardinality(Ahead(s, i)) < Cardinality(Ahead(s, j))
  <2>1. j \in Ahead(s, j) /\ j \notin Ahead(s, i)
    BY <1>4, <1>6 DEF Ahead, Timed, ComesBefore
  <2>2. Ahead(s, i) \in SUBSET Ahead(s, j)
    BY <1>6 DEF Ahead, Timed, ComesBefore
  <2>3. /\ Cardinality(Ahead(s, i)) <= Cardinality(Ahead(s, j))
        /\ Cardinality(Ahead(s, j)) = Cardinality(Ahead(s, i)) => Ahead(s, j) = Ahead(s, i)
    BY <1>3, <2>2, FS_Subset
  <2> QED BY <1>3, <2>1, <2>3
<1> QED BY <1>3, <1>5, <1>6

\* Every place is somebody's.
LEMMA PlacesTaken ==
  ASSUME NEW n \in Nat, NEW s, Timed(s, n)
  PROVE  \A k \in 1 .. n : \E i \in 1 .. n : Cardinality(Ahead(s, i)) = k
<1> DEFINE place == [i \in 1 .. n |-> Cardinality(Ahead(s, i))]
<1>1. IsFiniteSet(1 .. n)
  BY FS_Interval
<1>2. place \in [1 .. n -> 1 .. n]
  BY PlaceInOrder
<1>3. ASSUME NEW i \in 1 .. n, NEW j \in 1 .. n, i # j PROVE place[i] # place[j]
  <2>1. ComesBefore(s, i, j) \/ ComesBefore(s, j, i)
    BY DEF Timed, ComesBefore
  <2>2. /\ Cardinality(Ahead(s, i)) \in 1 .. n /\ Cardinality(Ahead(s, j)) \in 1 .. n
        /\ \/ Cardinality(Ahead(s, i)) < Cardinality(Ahead(s, j))
           \/ Cardinality(Ahead(s, j)) < Cardinality(Ahead(s, i))
    BY <1>3, <2>1, PlaceInOrder
  <2> QED BY <2>2
<1> HIDE DEF place
<1>4. place \in Injection(1 .. n, 1 .. n)
  BY <1>2, <1>3 DEF Injection, IsInjective
<1>5. place \in Surjection(1 .. n, 1 .. n)
  BY <1>1, <1>4, FS_Injection
<1>6. \A k \in 1 .. n : \E i \in 1 .. n : place[i] = k
  BY <1>5 DEF Surjection
<1> QED BY <1>6 DEF place

\* Of two in the sorted list, the one in front comes first.
LEMMA SortedIs ==
  ASSUME NEW n \in Nat, NEW s, Timed(s, n)
  PROVE  /\ DOMAIN Sorted(s) = 1 .. n
         /\ \A k \in 1 .. n : \E i \in 1 .. n : Sorted(s)[k] = s[i]
         /\ \A k, l \in 1 .. n : k < l =>
              \E i, j \in 1 .. n : /\ Sorted(s)[k] = s[i] /\ Sorted(s)[l] = s[j]
                                   /\ i # j /\ ComesBefore(s, i, j)
<1> DEFINE at_(k) == CHOOSE i \in DOMAIN s : Cardinality(Ahead(s, i)) = k
<1>1. DOMAIN s = 1 .. n
  BY DEF Timed
<1>2. Sorted(s) = [k \in 1 .. n |-> s[at_(k)]]
  BY <1>1 DEF Sorted, Ahead
<1>3. ASSUME NEW k \in 1 .. n
      PROVE  at_(k) \in 1 .. n /\ Cardinality(Ahead(s, at_(k))) = k
  <2>1. \A m \in 1 .. n : \E i \in 1 .. n : Cardinality(Ahead(s, i)) = m
    BY PlacesTaken
  <2>2. \E i \in DOMAIN s : Cardinality(Ahead(s, i)) = k
    BY <1>1, <2>1
  <2> QED BY <1>1, <2>2
<1> HIDE DEF at_
<1>4. ASSUME NEW k \in 1 .. n, NEW l \in 1 .. n, k < l
      PROVE  /\ Sorted(s)[k] = s[at_(k)] /\ Sorted(s)[l] = s[at_(l)]
             /\ at_(k) # at_(l) /\ ComesBefore(s, at_(k), at_(l))
  <2>1. at_(k) # at_(l)
    BY <1>3, <1>4
  <2>2. ComesBefore(s, at_(k), at_(l)) \/ ComesBefore(s, at_(l), at_(k))
    <3>1. \A i, j \in 1 .. n : ComesBefore(s, i, j) \/ ComesBefore(s, j, i)
      BY DEF Timed, ComesBefore
    <3> QED BY <1>3, <3>1
  <2>3. ~ComesBefore(s, at_(l), at_(k))
    <3> SUFFICES ASSUME ComesBefore(s, at_(l), at_(k)) PROVE FALSE
      OBVIOUS
    <3>1. Cardinality(Ahead(s, at_(l))) < Cardinality(Ahead(s, at_(k)))
      BY <1>3, <2>1, PlaceInOrder
    <3> QED BY <1>3, <1>4, <3>1
  <2> QED BY <1>2, <2>1, <2>2, <2>3
<1> QED BY <1>2, <1>3, <1>4

----------------------------------------------------------------------------
\* What a list of requests promises.

\* The turns of a session are in order, each a beginning of the next.
Grows(p, q) ==
  p.turn < q.turn /\ p.arrival_s <= q.arrival_s /\ IsStrictPrefix(p.tokens, q.tokens)

InOrder(s) ==
  \A i, j \in DOMAIN s : i < j /\ s[i].session_id = s[j].session_id => Grows(s[i], s[j])

\* A prompt is a system prompt and more, and the first token after the system
\* prompt is the session's own.
Headed(tokens, i) ==
  /\ tokens \in Seq(Nat) /\ system_tokens <= Len(tokens)
  /\ \A k \in 1 .. system_tokens : tokens[k] = i * system_tokens + k - 1

Own(tokens) == tokens[system_tokens + 1]

Apart(p, q) == p.session_id # q.session_id => Own(p.tokens) # Own(q.tokens)

Prompted(p) == p \in Request /\ Headed(p.tokens, p.index) /\ system_tokens < Len(p.tokens)

Fine(s) ==
  /\ s \in Seq(Request) /\ InOrder(s)
  /\ \A i \in DOMAIN s : Prompted(s[i])
  /\ \A i, j \in DOMAIN s : Apart(s[i], s[j])

\* Sorting keeps it so.
LEMMA SortedFine ==
  ASSUME NEW s, Fine(s)
  PROVE  Fine(Sorted(s))
<1> DEFINE n == Len(s)
           t == Sorted(s)
<1>1. n \in Nat /\ DOMAIN s = 1 .. n /\ \A i \in 1 .. n : s[i] \in Request
  BY DEF Fine
<1>2. Timed(s, n)
  BY <1>1 DEF Timed, Request
<1>3. /\ DOMAIN t = 1 .. n
      /\ \A k \in 1 .. n : \E i \in 1 .. n : t[k] = s[i]
      /\ \A k, l \in 1 .. n : k < l =>
           \E i, j \in 1 .. n : /\ t[k] = s[i] /\ t[l] = s[j]
                                /\ i # j /\ ComesBefore(s, i, j)
  BY <1>1, <1>2, SortedIs
<1>4. t = [k \in 1 .. n |-> t[k]]
  BY <1>1 DEF Sorted
<1> HIDE DEF t, n
<1>5. t \in Seq(Request)
  <2>1. \A k \in 1 .. n : t[k] \in Request
    BY <1>1, <1>3
  <2>2. t \in [1 .. n -> Request]
    BY <1>4, <2>1
  <2> QED BY <1>1, <2>2
<1>6. \A k \in 1 .. n : Prompted(t[k])
  BY <1>1, <1>3 DEF Fine
<1>7. \A k, l \in 1 .. n : Apart(t[k], t[l])
  <2> TAKE k, l \in 1 .. n
  <2>1. PICK i, j \in 1 .. n : t[k] = s[i] /\ t[l] = s[j]
    BY <1>3
  <2> QED BY <1>1, <2>1 DEF Fine
<1>8. ASSUME NEW k \in 1 .. n, NEW l \in 1 .. n, k < l, t[k].session_id = t[l].session_id
      PROVE  Grows(t[k], t[l])
  <2>1. PICK i, j \in 1 .. n : t[k] = s[i] /\ t[l] = s[j] /\ i # j /\ ComesBefore(s, i, j)
    BY <1>3, <1>8
  <2>2. CASE i < j
    BY <1>1, <1>8, <2>1, <2>2 DEF Fine, InOrder
  <2>3. CASE j < i
    <3>1. s[j].arrival_s <= s[i].arrival_s
      BY <1>1, <1>8, <2>1, <2>3 DEF Fine, InOrder, Grows
    <3>2. s[i].arrival_s \in Nat /\ s[j].arrival_s \in Nat
      BY <1>2 DEF Timed
    <3> QED BY <2>1, <2>3, <3>1, <3>2 DEF ComesBefore
  <2> QED BY <1>1, <2>1, <2>2, <2>3
<1>9. InOrder(t)
  BY <1>3, <1>8 DEF InOrder
<1> QED BY <1>3, <1>5, <1>6, <1>7, <1>9 DEF Fine, t

\* And it is what the properties ask.
LEMMA FineShares ==
  ASSUME NEW s, Fine(s), NEW i \in DOMAIN s, NEW j \in DOMAIN s,
         s[i].session_id # s[j].session_id
  PROVE  ShareTheHead(s[i], s[j])
<1> PICK p, q : p = s[i] /\ q = s[j]
  OBVIOUS
<1> PICK t, u, m : t = p.tokens /\ u = q.tokens /\ m = system_tokens
  OBVIOUS
<1>1. Prompted(p) /\ Prompted(q) /\ Own(t) # Own(u)
  BY DEF Fine, Apart
<1>2. /\ t \in Seq(Nat) /\ m < Len(t) /\ u \in Seq(Nat) /\ m < Len(u)
      /\ \A k \in 1 .. m : t[k] = p.index * m + k - 1 /\ u[k] = q.index * m + k - 1
      /\ t[m + 1] # u[m + 1]
  BY <1>1 DEF Prompted, Headed, Own
<1>3. m \in Nat \ {0} /\ p.index \in Int /\ q.index \in Int
  BY <1>1, SpecAssumption DEF Prompted, Request
<1>4. CASE p.index = q.index
  <2>1. \A k \in 1 .. m : t[k] = u[k]
    BY <1>2, <1>4
  <2>2. Len(LongestCommonPrefix({t, u})) = m
    BY <1>2, <1>3, <2>1, SharedIs
  <2> QED BY <1>4, <2>2 DEF ShareTheHead, Shared
<1>5. CASE p.index # q.index
  <2>1. t[1] # u[1]
    <3> PICK a, b : a = p.index /\ b = q.index
      OBVIOUS
    <3>1. a \in Int /\ b \in Int /\ a # b
      BY <1>3, <1>5
    <3>2. a * m \in Int /\ b * m \in Int /\ a * m # b * m
      BY <1>3, <3>1
    <3>3. 1 \in 1 .. m
      BY <1>3
    <3>4. t[1] = p.index * m + 1 - 1 /\ u[1] = q.index * m + 1 - 1
      BY <1>2, <3>3
    <3>5. t[1] = a * m + 1 - 1 /\ u[1] = b * m + 1 - 1
      BY <3>4
    <3> QED BY <3>2, <3>5
  <2>2. Len(LongestCommonPrefix({t, u})) = 0
    <3>1. 0 < Len(t) /\ 0 < Len(u) /\ t[0 + 1] # u[0 + 1]
      <4>1. Len(t) \in Nat /\ Len(u) \in Nat
        BY <1>2
      <4>2. m < Len(t) /\ m < Len(u) /\ m >= 1
        BY <1>2, <1>3
      <4>3. 0 < Len(t) /\ 0 < Len(u)
        BY <1>3, <4>1, <4>2
      <4>4. 0 + 1 = 1
        OBVIOUS
      <4> QED BY <2>1, <4>3, <4>4
    <3>2. \A k \in 1 .. 0 : t[k] = u[k]
      OBVIOUS
    <3> QED BY <1>2, <3>1, <3>2, SharedIs
  <2> QED BY <1>5, <2>2 DEF ShareTheHead, Shared
<1> QED BY <1>4, <1>5

----------------------------------------------------------------------------
\* The inductive invariant: what is generated is fine, and a session under way
\* goes on with the history of its own turns.
UnderWay ==
  /\ index \in 0 .. n_system_prompts - 1 /\ Headed(history, index)
  /\ turn = 0 => Len(history) = system_tokens
  /\ turn > 0 => system_tokens < Len(history) /\ Own(history) < next_token_id
  /\ \A i \in DOMAIN requests :
       IF requests[i].session_id = session_id
       THEN Grows(requests[i], [turn |-> turn, arrival_s |-> at, tokens |-> history])
       ELSE turn > 0 => Own(requests[i].tokens) # Own(history)

GenInv ==
  /\ traces \in Seq(Seq(Request)) /\ \A i \in DOMAIN traces : Fine(traces[i])
  /\ Fine(requests)
  /\ next_token_id \in Nat /\ session_id \in Nat /\ session_start \in Nat /\ at \in Nat
  /\ turn \in Nat /\ turns \in Nat /\ turn <= turns
  /\ \A i \in DOMAIN requests :
       Own(requests[i].tokens) < next_token_id /\ requests[i].session_id <= session_id
  /\ turn < turns => UnderWay

LEMMA NoRequests == Fine(<<>>)
<1>1. <<>> \in Seq(Request) /\ DOMAIN <<>> = {}
  OBVIOUS
<1> QED BY <1>1 DEF Fine, InOrder

LEMMA ProductNat == \A a, b \in Nat : a * b \in Nat
OBVIOUS

LEMMA FirstIdNat == n_system_prompts * system_tokens \in Nat
BY SpecAssumption, ProductNat

LEMMA InitGen == Init => GenInv
<1> SUFFICES ASSUME Init PROVE GenInv
  OBVIOUS
<1>1. traces = <<>> /\ requests = <<>> /\ DOMAIN <<>> = {}
  BY DEF Init
<1>2. traces \in Seq(Seq(Request))
  BY <1>1
<1> QED BY <1>1, <1>2, NoRequests, FirstIdNat DEF Init, GenInv

LEMMA StartKeepsGen ==
  ASSUME GenInv, StartSession
  PROVE  GenInv'
<1>1. /\ traces' = traces /\ requests' = requests /\ next_token_id' = next_token_id
      /\ session_id' = session_id + 1 /\ at' = session_start' /\ turn' = 0
      /\ index' \in 0 .. n_system_prompts - 1 /\ history' = system_prompts(index')
      /\ turns' \in Nat
  BY SpecAssumption DEF StartSession
<1>2. session_start' \in Nat
  BY SpecAssumption DEF StartSession, GenInv
<1>3. Headed(history', index') /\ Len(history') = system_tokens
  <2> PICK a, m : a = index' /\ m = system_tokens
    OBVIOUS
  <2>1. a \in Nat /\ m \in Nat
    BY <1>1, SpecAssumption
  <2>2. a * m \in Nat
    BY <2>1, ProductNat
  <2> PICK b : b = a * m
    OBVIOUS
  <2>3. history' = [k \in 1 .. m |-> b + k - 1]
    BY <1>1 DEF system_prompts
  <2>4. \A k \in 1 .. m : b + k - 1 \in Nat
    BY <2>2
  <2>5. history' \in [1 .. m -> Nat]
    BY <2>3, <2>4
  <2>6. history' \in Seq(Nat) /\ Len(history') = m
    BY <2>1, <2>5
  <2>7. \A k \in 1 .. m : history'[k] = a * m + k - 1
    BY <2>3
  <2>8. m <= Len(history')
    BY <2>1, <2>6
  <2> QED BY <2>6, <2>7, <2>8 DEF Headed
<1>4. \A i \in DOMAIN requests :
        /\ Own(requests[i].tokens) < next_token_id
        /\ requests[i].session_id \in Nat /\ requests[i].session_id <= session_id
  BY DEF GenInv, Fine, Prompted, Request
<1>5. session_id \in Nat
  BY DEF GenInv
<1>6. \A i \in DOMAIN requests' : requests'[i].session_id # session_id'
  BY <1>1, <1>4, <1>5
<1>7. UnderWay'
  BY <1>1, <1>3, <1>6 DEF UnderWay
<1>8. \A i \in DOMAIN requests' :
        Own(requests'[i].tokens) < next_token_id' /\ requests'[i].session_id <= session_id'
  BY <1>1, <1>4, <1>5
<1>9. Fine(requests') /\ \A i \in DOMAIN traces' : Fine(traces'[i])
  BY <1>1 DEF GenInv
<1> QED BY <1>1, <1>2, <1>5, <1>7, <1>8, <1>9 DEF GenInv

\* A list goes on with a request that fits.
LEMMA AppendedFine ==
  ASSUME NEW s, Fine(s), NEW p, Prompted(p),
         \A i \in DOMAIN s : IF s[i].session_id = p.session_id THEN Grows(s[i], p)
                             ELSE Own(s[i].tokens) # Own(p.tokens)
  PROVE  /\ Fine(Append(s, p)) /\ DOMAIN Append(s, p) = DOMAIN s \cup {Len(s) + 1}
         /\ Append(s, p)[Len(s) + 1] = p
         /\ \A i \in DOMAIN s : Append(s, p)[i] = s[i]
<1> DEFINE t == Append(s, p)
           n == Len(s) + 1
<1>1. s \in Seq(Request) /\ p \in Request
  BY DEF Fine, Prompted
<1>2. /\ t \in Seq(Request) /\ Len(t) = Len(s) + 1 /\ t[Len(s) + 1] = p
      /\ \A i \in 1 .. Len(s) : t[i] = s[i]
  BY <1>1
<1>3. Len(s) \in Nat /\ DOMAIN s = 1 .. Len(s) /\ DOMAIN t = 1 .. Len(t)
  BY <1>1, <1>2
<1> HIDE DEF t
<1>4. /\ DOMAIN t = DOMAIN s \cup {n} /\ t[n] = p /\ \A i \in DOMAIN s : t[i] = s[i]
      /\ n \in Nat /\ \A i \in DOMAIN s : i \in Nat /\ i < n
  BY <1>2, <1>3
<1> HIDE DEF n
<1>5. InOrder(t)
  <2> SUFFICES ASSUME NEW i \in DOMAIN t, NEW j \in DOMAIN t, i < j,
                      t[i].session_id = t[j].session_id
               PROVE  Grows(t[i], t[j])
    BY DEF InOrder
  <2>1. i \in DOMAIN s /\ t[i] = s[i]
    BY <1>4
  <2>2. CASE j \in DOMAIN s
    BY <1>4, <2>1, <2>2 DEF Fine, InOrder
  <2>3. CASE j = n
    BY <1>4, <2>1, <2>3
  <2> QED BY <1>4, <2>2, <2>3
<1>6. \A i \in DOMAIN t : Prompted(t[i])
  BY <1>4 DEF Fine
<1>7. \A i, j \in DOMAIN t : Apart(t[i], t[j])
  BY <1>4 DEF Fine, Apart
<1> QED BY <1>2, <1>4, <1>5, <1>6, <1>7 DEF Fine, t, n

\* A request's prompt goes on from the history, and the reply from the prompt.
LEMMA TurnKeepsGen ==
  ASSUME GenInv, Turn
  PROVE  GenInv'
<1>1. PICK h, w, st : h = history /\ w = next_token_id /\ st = system_tokens
  OBVIOUS
<1>2. PICK prompt : prompt = h \o Fresh(w, user_tokens)
  OBVIOUS
<1>3. PICK reply : reply = prompt \o Fresh(w + user_tokens, reply_tokens)
  OBVIOUS
<1>4. PICK p : p = [session_id |-> session_id, turn |-> turn, index |-> index, arrival_s |-> at,
                  tokens |-> prompt]
  OBVIOUS
<1>5. /\ turn < turns /\ turn' = turn + 1 /\ requests' = Append(requests, p) /\ history' = reply
      /\ next_token_id' = w + user_tokens + reply_tokens
      /\ UNCHANGED <<traces, session_start, session_id, index, turns>>
  BY <1>1, <1>2, <1>3, <1>4 DEF Turn
<1>6. at' \in Nat /\ at <= at'
  BY SpecAssumption DEF Turn, GenInv
<1>7. /\ UnderWay /\ Fine(requests) /\ w \in Nat /\ session_id \in Nat /\ at \in Nat
      /\ turn \in Nat /\ turns \in Nat
      /\ \A i \in DOMAIN requests :
           /\ Prompted(requests[i]) /\ Own(requests[i].tokens) < w
           /\ requests[i].session_id <= session_id
  BY <1>1, <1>5 DEF GenInv, Fine
<1>8. /\ st \in Nat \ {0} /\ user_tokens \in Nat \ {0} /\ reply_tokens \in Nat \ {0}
      /\ w + user_tokens \in Nat
  BY <1>1, <1>7, SpecAssumption
<1>9. /\ h \in Seq(Nat) /\ Len(h) \in Nat /\ st <= Len(h)
      /\ \A k \in 1 .. st : h[k] = index * st + k - 1
  BY <1>1, <1>7 DEF UnderWay, Headed
<1>10. /\ prompt \in Seq(Nat) /\ Len(prompt) \in Nat /\ Len(h) < Len(prompt)
       /\ \A k \in 1 .. Len(h) : prompt[k] = h[k]
       /\ prompt[Len(h) + 1] = w /\ IsStrictPrefix(h, prompt)
  <2>1. Continues(prompt, h, w)
    BY <1>2, <1>7, <1>8, <1>9, FreshAdded
  <2> QED BY <2>1 DEF Continues
<1>11. /\ reply \in Seq(Nat) /\ Len(reply) \in Nat /\ Len(prompt) < Len(reply)
       /\ \A k \in 1 .. Len(prompt) : reply[k] = prompt[k]
       /\ IsStrictPrefix(prompt, reply)
  <2>1. Continues(reply, prompt, w + user_tokens)
    BY <1>3, <1>8, <1>10, FreshAdded
  <2> QED BY <2>1 DEF Continues
<1>12. st < Len(prompt) /\ st < Len(reply) /\ Len(prompt) \in Nat /\ Len(reply) \in Nat
  BY <1>8, <1>9, <1>10, <1>11, Longer
<1>13. Headed(prompt, index) /\ Headed(reply, index)
  <2>1. \A k \in 1 .. st : prompt[k] = h[k] /\ reply[k] = prompt[k]
    <3>1. st \in Nat /\ st <= Len(prompt)
      BY <1>8, <1>9, <1>10, <1>11, Longer
    <3>2. \A k \in 1 .. st : k \in 1 .. Len(h) /\ k \in 1 .. Len(prompt)
      BY <1>9, <1>10, <3>1, Longer
    <3> QED BY <1>10, <1>11, <3>2
  <2>2. st <= Len(prompt) /\ st <= Len(reply)
    BY <1>8, <1>9, <1>10, <1>11, Longer
  <2>3. \A k \in 1 .. st : prompt[k] = index * st + k - 1 /\ reply[k] = index * st + k - 1
    BY <1>9, <2>1
  <2> QED BY <1>1, <1>10, <1>11, <2>2, <2>3 DEF Headed
<1>14. /\ turn = 0 => Own(prompt) = w
       /\ turn > 0 => Own(prompt) = Own(h) /\ Own(h) < w
  <2>1. turn = 0 => Len(h) = st
    BY <1>1, <1>7 DEF UnderWay
  <2>2. turn > 0 => st < Len(h) /\ Own(h) < w
    BY <1>1, <1>7 DEF UnderWay
  <2>3. st < Len(h) => st + 1 \in 1 .. Len(h)
    BY <1>8, <1>9
  <2> QED BY <1>1, <1>10, <2>1, <2>2, <2>3 DEF Own
<1>15. Own(reply) = Own(prompt)
  <2>1. st + 1 \in 1 .. Len(prompt)
    BY <1>8, <1>12
  <2> QED BY <1>1, <1>11, <2>1 DEF Own
<1>16. Own(prompt) < next_token_id'
  <2>1. Own(prompt) \in Nat
    <3>1. st + 1 \in 1 .. Len(prompt)
      BY <1>8, <1>12
    <3> QED BY <1>1, <1>10, <3>1 DEF Own
  <2>2. Own(prompt) <= w
    BY <1>7, <1>14, <2>1
  <2> QED BY <1>5, <1>7, <1>8, <2>1, <2>2
<1>17. Prompted(p)
  <2>1. index \in 0 .. n_system_prompts - 1
    BY <1>7 DEF UnderWay
  <2> QED BY <1>1, <1>4, <1>7, <1>10, <1>12, <1>13, <2>1 DEF Prompted, Request
<1>18. ASSUME NEW i \in DOMAIN requests
       PROVE  /\ requests[i].session_id = session_id =>
                   /\ Grows(requests[i], p) /\ IsStrictPrefix(requests[i].tokens, prompt)
                   /\ requests[i].turn < turn /\ requests[i].arrival_s <= at
              /\ requests[i].session_id # session_id => Own(requests[i].tokens) # Own(prompt)
  <2> PICK q : q = requests[i]
    OBVIOUS
  <2>1. /\ q.tokens \in Seq(Nat) /\ Own(q.tokens) < w
        /\ IF q.session_id = session_id
           THEN q.turn < turn /\ q.arrival_s <= at /\ IsStrictPrefix(q.tokens, h)
           ELSE turn > 0 => Own(q.tokens) # Own(h)
    BY <1>1, <1>7 DEF UnderWay, Grows, Prompted, Request
  <2>2. CASE q.session_id = session_id
    <3>1. IsStrictPrefix(q.tokens, prompt)
      BY <1>9, <1>10, <2>1, <2>2, StrictPrefixTrans
    <3> QED BY <1>4, <2>1, <2>2, <3>1 DEF Grows
  <2>3. CASE q.session_id # session_id
    <3>1. Own(q.tokens) \in Nat
      <4>1. st + 1 \in 1 .. Len(q.tokens) /\ q.tokens \in Seq(Nat)
        <5>1. st < Len(q.tokens) /\ Len(q.tokens) \in Nat
          BY <1>1, <1>7, <2>1 DEF Prompted
        <5> QED BY <1>8, <2>1, <5>1
      <4> QED BY <1>1, <4>1 DEF Own
    <3>2. turn = 0 \/ turn > 0
      BY <1>7
    <3>3. turn = 0 => Own(q.tokens) # Own(prompt)
      BY <1>7, <1>14, <2>1, <3>1
    <3> QED BY <1>14, <2>1, <2>3, <3>2, <3>3
  <2> QED BY <2>2, <2>3
<1>19. /\ Fine(requests') /\ DOMAIN requests' = DOMAIN requests \cup {Len(requests) + 1}
       /\ requests'[Len(requests) + 1] = p
       /\ \A i \in DOMAIN requests : requests'[i] = requests[i]
  <2>1. \A i \in DOMAIN requests : IF requests[i].session_id = p.session_id
                                   THEN Grows(requests[i], p)
                                   ELSE Own(requests[i].tokens) # Own(p.tokens)
    BY <1>4, <1>18
  <2>2. /\ Fine(Append(requests, p))
        /\ DOMAIN Append(requests, p) = DOMAIN requests \cup {Len(requests) + 1}
        /\ Append(requests, p)[Len(requests) + 1] = p
        /\ \A i \in DOMAIN requests : Append(requests, p)[i] = requests[i]
    <3>1. Fine(requests) /\ Prompted(p)
      BY <1>7, <1>17
    <3> QED BY <2>1, <3>1, AppendedFine
  <2> QED BY <1>5, <2>2, Zenon
<1>20. ASSUME NEW i \in DOMAIN requests'
       PROVE  /\ Own(requests'[i].tokens) < next_token_id'
              /\ requests'[i].session_id <= session_id'
              /\ IF requests'[i].session_id = session_id'
                 THEN Grows(requests'[i], [turn |-> turn', arrival_s |-> at', tokens |-> reply])
                 ELSE Own(requests'[i].tokens) # Own(reply)
  <2>1. CASE i \in DOMAIN requests
    <3> PICK q : q = requests[i]
      OBVIOUS
    <3>1. requests'[i] = q
      BY <1>19, <2>1
    <3>2. /\ q.tokens \in Seq(Nat) /\ system_tokens < Len(q.tokens) /\ q.turn \in Nat
          /\ q.arrival_s \in Nat /\ Own(q.tokens) < w /\ q.session_id <= session_id
      BY <1>7, <2>1 DEF Prompted, Request
    <3>3. Own(q.tokens) \in Nat
      <4>1. Len(q.tokens) \in Nat
        BY <3>2
      <4>2. st + 1 \in 1 .. Len(q.tokens)
        BY <1>1, <1>8, <3>2, <4>1
      <4> QED BY <1>1, <3>2, <4>2 DEF Own
    <3>4. Own(q.tokens) < next_token_id'
      BY <1>5, <1>7, <1>8, <3>2, <3>3
    <3>5. CASE q.session_id = session_id
      <4>1. IsStrictPrefix(q.tokens, prompt) /\ q.turn < turn /\ q.arrival_s <= at
        BY <1>18, <2>1, <3>5
      <4>2. IsStrictPrefix(q.tokens, reply)
        BY <1>10, <1>11, <3>2, <4>1, StrictPrefixTrans
      <4>3. q.turn < turn + 1 /\ q.arrival_s <= at'
        BY <1>6, <1>7, <3>2, <4>1
      <4> QED BY <1>5, <3>1, <3>2, <3>4, <3>5, <4>2, <4>3 DEF Grows
    <3>6. CASE q.session_id # session_id
      BY <1>5, <1>15, <1>18, <2>1, <3>1, <3>2, <3>4, <3>6
    <3> QED BY <3>5, <3>6
  <2>2. CASE i = Len(requests) + 1
    <3>1. requests'[i] = p /\ session_id' = session_id
      BY <1>5, <1>19, <2>2
    <3>2. /\ p.turn < turn' /\ p.arrival_s <= at' /\ p.session_id = session_id
          /\ p.tokens = prompt /\ session_id <= session_id
      BY <1>4, <1>5, <1>6, <1>7
    <3> QED BY <1>11, <1>16, <3>1, <3>2 DEF Grows
  <2> QED BY <1>19, <2>1, <2>2
<1>21. UnderWay'
  <2>1. index' = index /\ index' \in 0 .. n_system_prompts - 1
    BY <1>5, <1>7 DEF UnderWay
  <2>2. Own(reply) < next_token_id'
    BY <1>15, <1>16
  <2>3. turn' # 0
    BY <1>5, <1>7
  <2>4. \A i \in DOMAIN requests' :
          IF requests'[i].session_id = session_id'
          THEN Grows(requests'[i], [turn |-> turn', arrival_s |-> at', tokens |-> history'])
          ELSE turn' > 0 => Own(requests'[i].tokens) # Own(history')
    BY <1>5, <1>20
  <2> QED BY <1>1, <1>5, <1>12, <1>13, <2>1, <2>2, <2>3, <2>4 DEF UnderWay
<1>22. /\ next_token_id' \in Nat /\ session_id' \in Nat /\ session_start' \in Nat
       /\ turn' \in Nat /\ turns' \in Nat /\ turn' <= turns'
  BY <1>5, <1>7, <1>8 DEF GenInv
<1>23. traces' \in Seq(Seq(Request)) /\ \A i \in DOMAIN traces' : Fine(traces'[i])
  BY <1>5 DEF GenInv
<1> QED BY <1>6, <1>19, <1>20, <1>21, <1>22, <1>23 DEF GenInv

\* A call that returns leaves nothing behind but its list.
LEMMA ReturnKeepsGen ==
  ASSUME GenInv, Return
  PROVE  GenInv'
<1>0. PICK t : t = Sorted(requests)
  OBVIOUS
<1>1. Fine(t) /\ t \in Seq(Request)
  <2>1. Fine(t)
    BY <1>0, SortedFine DEF GenInv
  <2> QED BY <2>1 DEF Fine
<1>2. /\ traces' = Append(traces, t) /\ requests' = <<>> /\ session_start' = 0
      /\ session_id' = 0 /\ next_token_id' = n_system_prompts * system_tokens
      /\ at' = 0 /\ turn' = 0 /\ turns' = 0
  BY <1>0 DEF Return
<1>3. traces \in Seq(Seq(Request)) /\ \A i \in DOMAIN traces : Fine(traces[i])
  BY DEF GenInv
<1>4. traces' \in Seq(Seq(Request)) /\ \A i \in DOMAIN traces' : Fine(traces'[i])
  <2>1. /\ traces' \in Seq(Seq(Request)) /\ Len(traces') = Len(traces) + 1
        /\ \A i \in 1 .. Len(traces) : traces'[i] = traces[i]
        /\ traces'[Len(traces) + 1] = t
    BY <1>1, <1>2, <1>3
  <2>2. /\ DOMAIN traces = 1 .. Len(traces) /\ DOMAIN traces' = 1 .. Len(traces')
        /\ Len(traces) \in Nat
    BY <1>3, <2>1
  <2>3. \A i \in DOMAIN traces' : i \in 1 .. Len(traces) \/ i = Len(traces) + 1
    BY <2>1, <2>2
  <2>4. \A i \in 1 .. Len(traces) : Fine(traces'[i])
    BY <1>3, <2>1, <2>2
  <2> QED BY <1>1, <2>1, <2>3, <2>4
<1>5. Fine(requests') /\ DOMAIN requests' = {}
  BY <1>2, NoRequests
<1>6. next_token_id' \in Nat
  BY <1>2, FirstIdNat
<1> QED BY <1>2, <1>4, <1>5, <1>6 DEF GenInv

\* Whatever is drawn, in however many calls.
THEOREM GenInvAlways == Spec => []GenInv
<1>1. GenInv /\ [Next]_vars => GenInv'
  <2> SUFFICES ASSUME GenInv, [Next]_vars PROVE GenInv'
    OBVIOUS
  <2>1. CASE UNCHANGED vars
    BY <2>1 DEF vars, GenInv, UnderWay
  <2> QED BY <2>1, StartKeepsGen, TurnKeepsGen, ReturnKeepsGen DEF Next
<1> QED BY <1>1, InitGen, PTL DEF Spec

----------------------------------------------------------------------------
\* In every trace the turns of a session come in their order, and each prompt
\* is a beginning of the next, also where arrivals coincide (requests.sort).
THEOREM TurnsAlwaysExtend == Spec => []TurnsExtend
<1>1. GenInv => TurnsExtend
  <2> SUFFICES ASSUME GenInv, NEW i \in DOMAIN traces,
                      NEW j \in DOMAIN traces[i], NEW k \in DOMAIN traces[i], j < k,
                      traces[i][j].session_id = traces[i][k].session_id
               PROVE  Grows(traces[i][j], traces[i][k])
    BY DEF TurnsExtend, Grows
  <2> QED BY DEF GenInv, Fine, InOrder
<1> QED BY <1>1, GenInvAlways, PTL

\* Two sessions of a trace have their system prompt in common, if it is one,
\* and nothing after it (generate, next_token_id).
THEOREM StrangersAlwaysShareTheHead == Spec => []StrangersShareTheHead
<1>1. GenInv => StrangersShareTheHead
  <2> SUFFICES ASSUME GenInv, NEW i \in DOMAIN traces,
                      NEW p \in ToSet(traces[i]), NEW q \in ToSet(traces[i]),
                      p.session_id # q.session_id
               PROVE  ShareTheHead(p, q)
    BY DEF StrangersShareTheHead
  <2>1. PICK j, k \in DOMAIN traces[i] : p = traces[i][j] /\ q = traces[i][k]
    BY DEF ToSet
  <2>2. Fine(traces[i])
    BY DEF GenInv
  <2> QED BY <2>1, <2>2, FineShares
<1> QED BY <1>1, GenInvAlways, PTL
=============================================================================
