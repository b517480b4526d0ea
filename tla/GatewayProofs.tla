--------------------------- MODULE GatewayProofs ---------------------------
(***************************************************************************)
(* Theorems of Gateway and of Tokenize, for any conversations, backends    *)
(* and requests.  The whole tokens of a text say neither less nor more     *)
(* than its bytes.  The fleet of the gateway is one that Fleet describes,  *)
(* whose members never change; so its load is that of the dispatches still *)
(* open, and what its policies read is what is proved of Fleet.            *)
(***************************************************************************)
EXTENDS Gateway, RadixTreeFacts

----------------------------------------------------------------------------
\* Tokenize.

\* q whole tokens fit into n bytes.
LEMMA WholeFit ==
  ASSUME NEW n \in Nat, NEW q \in Nat
  PROVE  /\ n \div Fold \in Nat
         /\ q <= n \div Fold <=> q * Fold <= n
BY FoldAssumption

LEMMA TokenBounds ==
  ASSUME NEW n \in Nat, NEW k \in 1 .. n \div Fold
  PROVE  /\ (k - 1) * Fold \in Nat /\ k * Fold \in Nat
         /\ k * Fold = (k - 1) * Fold + Fold
         /\ k * Fold <= n
<1>1. n \div Fold \in Nat
  BY WholeFit
<1>2. k \in Nat /\ k >= 1 /\ k <= n \div Fold
  BY <1>1
<1>3. k * Fold <= n
  BY <1>2, WholeFit
<1>4. (k - 1) * Fold \in Nat /\ k * Fold \in Nat /\ k * Fold = (k - 1) * Fold + Fold
  BY <1>2, FoldAssumption
<1> QED
  BY <1>3, <1>4

LEMMA PaddedText ==
  ASSUME NEW S, NEW s \in Seq(S)
  PROVE  /\ Padded(s) \in Seq(S \cup {0})
         /\ Len(Padded(s)) >= Len(s)
         /\ \A i \in 1 .. Len(s) : Padded(s)[i] = s[i]
<1>1. (-Len(s)) % Fold \in Nat
  BY FoldAssumption
<1>2. Zeros(s) \in Seq(S \cup {0}) /\ Len(Zeros(s)) = (-Len(s)) % Fold
  BY <1>1 DEF Zeros
<1>3. s \in Seq(S \cup {0})
  OBVIOUS
<1> QED
  BY <1>1, <1>2, <1>3 DEF Padded

\* A token within the text is the bytes at its place.
LEMMA WholeToken ==
  ASSUME NEW S, NEW s \in Seq(S), NEW k \in 1 .. Len(s) \div Fold
  PROVE  /\ k \in DOMAIN encode(s)
         /\ encode(s)[k] \in Seq(S \cup {0}) /\ Len(encode(s)[k]) = Fold
         /\ \A j \in 1 .. Fold : encode(s)[k][j] = s[(k - 1) * Fold + j]
<1> DEFINE first == (k - 1) * Fold + 1
           last == k * Fold
<1>1. Len(s) \in Nat
  OBVIOUS
<1>2. /\ (k - 1) * Fold \in Nat /\ k * Fold \in Nat
      /\ k * Fold = (k - 1) * Fold + Fold /\ k * Fold <= Len(s)
  BY <1>1, TokenBounds
<1>3. /\ Padded(s) \in Seq(S \cup {0}) /\ Len(Padded(s)) >= Len(s)
      /\ \A i \in 1 .. Len(s) : Padded(s)[i] = s[i]
  BY PaddedText
<1>4. k \in 1 .. Len(Padded(s)) \div Fold
  <2>1. Len(Padded(s)) \in Nat /\ Len(s) \div Fold \in Nat
    BY <1>1, <1>3, WholeFit
  <2>2. k \in Nat /\ k >= 1 /\ k * Fold <= Len(Padded(s))
    BY <1>1, <1>2, <1>3, <2>1
  <2> QED
    BY <2>1, <2>2, WholeFit
<1>5. encode(s)[k] = SubSeq(Padded(s), first, last)
  BY <1>4 DEF encode
<1>6. first \in Nat /\ last \in Nat /\ last - first + 1 = Fold /\ first >= 1
      /\ last <= Len(s) /\ Fold \in Nat /\ Fold >= 1
  BY <1>2, FoldAssumption
<1> HIDE DEF first, last
<1>7. /\ SubSeq(Padded(s), first, last) \in Seq(S \cup {0})
      /\ Len(SubSeq(Padded(s), first, last)) = Fold
      /\ \A j \in 1 .. Fold :
           SubSeq(Padded(s), first, last)[j] = Padded(s)[first + j - 1]
  BY <1>3, <1>6
<1>8. \A j \in 1 .. Fold : /\ first + j - 1 \in 1 .. Len(s)
                           /\ first + j - 1 = (k - 1) * Fold + j
  BY <1>1, <1>2, <1>6 DEF first
<1> QED
  BY <1>3, <1>4, <1>5, <1>7, <1>8 DEF encode

\* Tokens are a sequence.
LEMMA EncodeIsSequence ==
  ASSUME NEW S, NEW s \in Seq(S)
  PROVE  encode(s) \in Seq(ToSet(encode(s)))
<1>1. Padded(s) \in Seq(S \cup {0})
  BY PaddedText
<1>2. Len(Padded(s)) \in Nat
  BY <1>1
<1>3. Len(Padded(s)) \div Fold \in Nat
  BY <1>2, WholeFit
<1> PICK n, e : n = Len(Padded(s)) \div Fold /\ e = encode(s)
  OBVIOUS
<1>4. e = [k \in 1 .. n |-> e[k]] /\ n \in Nat
  BY <1>3 DEF encode
<1>5. \A k \in 1 .. n : e[k] \in ToSet(e)
  BY <1>4 DEF ToSet
<1> QED BY <1>4, <1>5

\* Whatever is appended to a text, its whole tokens stay: the next turn of a
\* conversation finds all blocks of the last one but that with the cut token
\* (ByteTokenizer.encode).
THEOREM EncodeKeepsPrefixes ==
  ASSUME NEW S, NEW s \in Seq(S), NEW t \in Seq(S), IsPrefix(s, t),
         NEW k \in 1 .. Len(s) \div Fold
  PROVE  k \in DOMAIN encode(t) /\ encode(s)[k] = encode(t)[k]
<1>1. Len(s) \in Nat /\ Len(t) \in Nat /\ Len(s) <= Len(t)
  BY DEF IsPrefix
<1>2. \A i \in 1 .. Len(s) : s[i] = t[i]
  <2> TAKE i \in 1 .. Len(s)
  <2>1. SubSeq(s, 1, Len(s))[i] = s[i] /\ SubSeq(t, 1, Len(s))[i] = t[i]
    BY <1>1
  <2> QED
    BY <2>1 DEF IsPrefix
<1>3. /\ (k - 1) * Fold \in Nat /\ k * Fold \in Nat
      /\ k * Fold = (k - 1) * Fold + Fold /\ k * Fold <= Len(s)
  BY <1>1, TokenBounds
<1>4. k \in 1 .. Len(t) \div Fold
  <2>1. Len(s) \div Fold \in Nat /\ Len(t) \div Fold \in Nat
    BY <1>1, WholeFit
  <2>2. k \in Nat /\ k >= 1 /\ k * Fold <= Len(t)
    BY <1>1, <1>3, <2>1
  <2> QED
    BY <1>1, <2>1, <2>2, WholeFit
<1>5. \A j \in 1 .. Fold : (k - 1) * Fold + j \in 1 .. Len(s)
  BY <1>1, <1>3, FoldAssumption
<1>6. /\ encode(s)[k] \in Seq(S \cup {0}) /\ Len(encode(s)[k]) = Fold
      /\ \A j \in 1 .. Fold : encode(s)[k][j] = s[(k - 1) * Fold + j]
  BY WholeToken
<1>7. /\ k \in DOMAIN encode(t)
      /\ encode(t)[k] \in Seq(S \cup {0}) /\ Len(encode(t)[k]) = Fold
      /\ \A j \in 1 .. Fold : encode(t)[k][j] = t[(k - 1) * Fold + j]
  BY <1>4, WholeToken
<1>8. \A j \in 1 .. Fold : encode(s)[k][j] = encode(t)[k][j]
  BY <1>2, <1>5, <1>6, <1>7
<1> QED
  BY <1>6, <1>7, <1>8

\* Texts whose first n tokens agree, all of them whole, agree in the bytes of
\* those tokens: a match on tokens is never one the text does not have.
THEOREM EncodeTellsApart ==
  ASSUME NEW S, NEW s \in Seq(S), NEW t \in Seq(S),
         NEW n \in Nat, n <= Len(s) \div Fold, n <= Len(t) \div Fold,
         \A k \in 1 .. n : encode(s)[k] = encode(t)[k]
  PROVE  SubSeq(s, 1, n * Fold) = SubSeq(t, 1, n * Fold)
<1>1. Len(s) \in Nat /\ Len(t) \in Nat
  OBVIOUS
<1>2. n * Fold \in Nat /\ n * Fold <= Len(s) /\ n * Fold <= Len(t)
  BY <1>1, WholeFit, FoldAssumption
<1>3. ASSUME NEW i \in 1 .. n * Fold
      PROVE  s[i] = t[i]
  <2> DEFINE k == (i - 1) \div Fold + 1
             j == ((i - 1) % Fold) + 1
  <2>1. i - 1 \in Nat
    BY <1>2
  <2>2. /\ (i - 1) \div Fold \in Nat /\ (i - 1) % Fold \in 0 .. Fold - 1
        /\ i - 1 = Fold * ((i - 1) \div Fold) + ((i - 1) % Fold)
    BY <2>1, FoldAssumption
  <2>3. k \in 1 .. n
    <3>1. (i - 1) \div Fold \in Nat /\ ((i - 1) \div Fold) * Fold < n * Fold
      BY <1>2, <2>2, FoldAssumption
    <3>2. (i - 1) \div Fold < n
      BY <3>1, FoldAssumption
    <3> QED
      BY <3>1, <3>2
  <2>4. j \in 1 .. Fold /\ (k - 1) * Fold + j = i
    BY <2>2, FoldAssumption
  <2> HIDE DEF k, j
  <2>5. k \in 1 .. Len(s) \div Fold /\ k \in 1 .. Len(t) \div Fold
    BY <1>1, <2>3, WholeFit
  <2>6. encode(s)[k][j] = s[(k - 1) * Fold + j]
    BY <2>4, <2>5, WholeToken
  <2>7. encode(t)[k][j] = t[(k - 1) * Fold + j]
    BY <2>4, <2>5, WholeToken
  <2> QED
    BY <2>3, <2>4, <2>6, <2>7
<1> QED
  BY <1>1, <1>2, <1>3

----------------------------------------------------------------------------
\* Texts put together from parts: FlattenSeq(parts) is the last element of the
\* function f, which is defined by recursion on the number of parts.
FlattenEq(parts, f) ==
  f = [i \in 1 .. Len(parts) |-> IF i = 1 THEN parts[i] ELSE f[i - 1] \o parts[i]]

FlattenUpto(S, parts, n) ==
  \E f \in [1 .. n -> Seq(S)] :
    \A i \in 1 .. n : f[i] = IF i = 1 THEN parts[i] ELSE f[i - 1] \o parts[i]

LEMMA FlattenOneMore ==
  ASSUME NEW S, NEW parts \in Seq(Seq(S)), NEW n \in 2 .. Len(parts),
         FlattenUpto(S, parts, n - 1)
  PROVE  FlattenUpto(S, parts, n)
<1>1. PICK f \in [1 .. n - 1 -> Seq(S)] :
        \A i \in 1 .. n - 1 : f[i] = IF i = 1 THEN parts[i] ELSE f[i - 1] \o parts[i]
  BY DEF FlattenUpto
<1>2. n - 1 \in 1 .. n - 1 /\ n - 1 \in 1 .. n /\ n \in 1 .. Len(parts) /\ n # 1 /\ n \in 1 .. n /\ n - 1 # n
  OBVIOUS
<1>3. f[n - 1] \in Seq(S) /\ parts[n] \in Seq(S)
  BY <1>1, <1>2
<1> PICK last : last = f[n - 1] \o parts[n]
  OBVIOUS
<1>4. last \in Seq(S)
  BY <1>3
<1> DEFINE g == [i \in 1 .. n |-> IF i = n THEN last ELSE f[i]]
<1>5. \A i \in 1 .. n : i # n => i \in 1 .. n - 1
  OBVIOUS
<1>6. \A i \in 1 .. n : i # n /\ i # 1 => i - 1 \in 1 .. n /\ i - 1 # n
  OBVIOUS
<1>7. g \in [1 .. n -> Seq(S)]
  BY <1>1, <1>4, <1>5
<1>8. g[n] = last /\ g[n - 1] = f[n - 1]
  BY <1>2
<1>9. \A i \in 1 .. n - 1 : g[i] = f[i] /\ (i # 1 => g[i - 1] = f[i - 1])
  <2> TAKE i \in 1 .. n - 1
  <2>1. i \in 1 .. n /\ i # n /\ (i # 1 => i - 1 \in 1 .. n /\ i - 1 # n)
    OBVIOUS
  <2> QED BY <2>1
<1> HIDE DEF g
<1>10. \A i \in 1 .. n : g[i] = IF i = 1 THEN parts[i] ELSE g[i - 1] \o parts[i]
  BY <1>1, <1>2, <1>5, <1>8, <1>9
<1> QED BY <1>7, <1>10 DEF FlattenUpto

LEMMA FlattenExists ==
  ASSUME NEW S, NEW parts \in Seq(Seq(S)), Len(parts) # 0
  PROVE  \E f \in [1 .. Len(parts) -> Seq(S)] : FlattenEq(parts, f)
<1> DEFINE Bad == {n \in 1 .. Len(parts) : ~FlattenUpto(S, parts, n)}
<1>1. Bad \subseteq Nat
  OBVIOUS
<1>2. \A n \in 1 .. Len(parts) : n \notin Bad => FlattenUpto(S, parts, n)
  OBVIOUS
<1>3. \A n \in Bad : n \in 1 .. Len(parts) /\ ~FlattenUpto(S, parts, n)
  OBVIOUS
<1> HIDE DEF Bad
<1>4. ASSUME NEW n \in Bad, \A m \in Bad : n <= m
      PROVE  FALSE
  <2>1. n \in 1 .. Len(parts) /\ ~FlattenUpto(S, parts, n)
    BY <1>3, <1>4
  <2>2. CASE n = 1
    <3>1. parts[1] \in Seq(S)
      BY <2>1, <2>2
    <3> DEFINE f == [i \in 1 .. 1 |-> parts[1]]
    <3>2. f \in [1 .. 1 -> Seq(S)] /\ \A i \in 1 .. 1 : i = 1 /\ f[i] = parts[i]
      BY <3>1
    <3> HIDE DEF f
    <3>3. FlattenUpto(S, parts, 1)
      BY <3>2 DEF FlattenUpto
    <3> QED BY <2>1, <2>2, <3>3
  <2>3. CASE n # 1
    <3>1. n \in 2 .. Len(parts) /\ n - 1 \in 1 .. Len(parts) /\ ~(n <= n - 1)
      BY <2>1, <2>3
    <3>2. n - 1 \notin Bad
      BY <1>4, <3>1
    <3>3. FlattenUpto(S, parts, n - 1)
      BY <1>2, <3>1, <3>2
    <3> QED BY <2>1, <3>1, <3>3, FlattenOneMore
  <2> QED BY <2>2, <2>3
<1>5. Bad = {}
  BY <1>1, <1>4, LeastNat
<1>6. Len(parts) \in 1 .. Len(parts)
  OBVIOUS
<1>7. FlattenUpto(S, parts, Len(parts))
  BY <1>2, <1>5, <1>6
<1>8. PICK f \in [1 .. Len(parts) -> Seq(S)] :
        \A i \in 1 .. Len(parts) : f[i] = IF i = 1 THEN parts[i] ELSE f[i - 1] \o parts[i]
  BY <1>7 DEF FlattenUpto
<1>9. f = [i \in 1 .. Len(parts) |-> f[i]]
  OBVIOUS
<1>10. FlattenEq(parts, f)
  BY <1>8, <1>9 DEF FlattenEq
<1> QED BY <1>10

\* As far as the parts agree, so do the texts that they make up.
Begins(a, b) ==
  /\ Len(a) \in Nat /\ Len(b) \in Nat /\ Len(a) <= Len(b)
  /\ \A i \in 1 .. Len(a) : a[i] = b[i]

\* The texts of the first n parts are the same.
Same(f, g, n) == \A i \in 1 .. n : f[i] = g[i]

LEMMA FlattenAgrees ==
  ASSUME NEW a, NEW b, Begins(a, b), NEW f, FlattenEq(a, f), NEW g, FlattenEq(b, g)
  PROVE  Same(f, g, Len(a))
<1> DEFINE Bad == {i \in 1 .. Len(a) : f[i] # g[i]}
<1>1. Bad \subseteq Nat
  BY DEF Begins
<1>2. \A i \in 1 .. Len(a) : i \notin Bad => f[i] = g[i]
  OBVIOUS
<1>3. \A i \in Bad : i \in 1 .. Len(a) /\ f[i] # g[i]
  OBVIOUS
<1> HIDE DEF Bad
<1>4. ASSUME NEW i \in Bad, \A j \in Bad : i <= j
      PROVE  FALSE
  <2>1. i \in 1 .. Len(a) /\ i \in 1 .. Len(b) /\ a[i] = b[i] /\ f[i] # g[i]
    BY <1>3 DEF Begins
  <2>2. /\ f[i] = IF i = 1 THEN a[i] ELSE f[i - 1] \o a[i]
        /\ g[i] = IF i = 1 THEN b[i] ELSE g[i - 1] \o b[i]
    BY <2>1 DEF FlattenEq
  <2>3. i # 1 => i - 1 \in 1 .. Len(a) /\ ~(i <= i - 1)
    BY <2>1
  <2>4. i # 1 => f[i - 1] = g[i - 1]
    BY <1>2, <1>4, <2>3
  <2> QED BY <2>1, <2>2, <2>4
<1> QED BY <1>1, <1>2, <1>4, LeastNat DEF Same

\* The text is that of one such function, whose elements are texts.
LEMMA FlattenIs ==
  ASSUME NEW S, NEW parts \in Seq(Seq(S)), Len(parts) # 0
  PROVE  \E f \in [1 .. Len(parts) -> Seq(S)] :
           FlattenEq(parts, f) /\ FlattenSeq(parts) = f[Len(parts)]
<1>1. PICK f \in [1 .. Len(parts) -> Seq(S)] : FlattenEq(parts, f)
  BY FlattenExists
<1> PICK g : g = CHOOSE h : FlattenEq(parts, h)
  OBVIOUS
<1>2. FlattenEq(parts, g)
  BY <1>1
<1>3. FlattenSeq(parts) = g[Len(parts)]
  BY DEF FlattenSeq, FlattenEq
<1>4. Len(parts) \in Nat /\ Len(parts) \in 1 .. Len(parts)
  OBVIOUS
<1>5. \A i \in 1 .. Len(parts) : g[i] = f[i]
  <2>1. Begins(parts, parts)
    BY <1>4 DEF Begins
  <2>2. Same(g, f, Len(parts))
    BY <1>1, <1>2, <2>1, FlattenAgrees
  <2> QED BY <2>2 DEF Same
<1> QED BY <1>1, <1>3, <1>4, <1>5

LEMMA AppendedIsLonger ==
  ASSUME NEW S, NEW s \in Seq(S), NEW t \in Seq(S)
  PROVE  IsPrefix(s, s \o t)
<1> PICK w : w = s \o t
  OBVIOUS
<1>1. w \in Seq(S) /\ Len(s) <= Len(w) /\ \A i \in 1 .. Len(s) : w[i] = s[i]
  OBVIOUS
<1>2. IsPrefix(s, w)
  BY <1>1, PrefixPointwise
<1> QED BY <1>2

\* Each further part makes the text longer.
LEMMA FlattenGrows ==
  ASSUME NEW S, NEW b \in Seq(Seq(S)), NEW g \in [1 .. Len(b) -> Seq(S)], FlattenEq(b, g),
         NEW k \in 1 .. Len(b), NEW n \in k .. Len(b)
  PROVE  IsPrefix(g[k], g[n])
<1> DEFINE Bad == {j \in k .. Len(b) : ~IsPrefix(g[k], g[j])}
<1>1. Bad \subseteq Nat
  OBVIOUS
<1>2. \A j \in k .. Len(b) : j \notin Bad => IsPrefix(g[k], g[j])
  OBVIOUS
<1>3. \A j \in Bad : j \in k .. Len(b) /\ ~IsPrefix(g[k], g[j])
  OBVIOUS
<1> HIDE DEF Bad
<1>4. ASSUME NEW j \in Bad, \A i \in Bad : j <= i
      PROVE  FALSE
  <2>1. j \in k .. Len(b) /\ j \in 1 .. Len(b) /\ ~IsPrefix(g[k], g[j])
    BY <1>3
  <2>2. g[k] \in Seq(S) /\ g[j] \in Seq(S) /\ b[j] \in Seq(S)
    BY <2>1
  <2>3. CASE j = k
    BY <2>1, <2>2, <2>3, PrefixOrder
  <2>4. CASE j # k
    <3>1. j - 1 \in k .. Len(b) /\ j - 1 \in 1 .. Len(b) /\ j # 1 /\ ~(j <= j - 1)
      BY <2>1, <2>4
    <3>2. IsPrefix(g[k], g[j - 1]) /\ g[j - 1] \in Seq(S)
      BY <1>2, <1>4, <3>1
    <3>3. g[j] = g[j - 1] \o b[j]
      BY <2>1, <3>1 DEF FlattenEq
    <3>4. IsPrefix(g[j - 1], g[j])
      BY <2>2, <3>2, <3>3, AppendedIsLonger
    <3> QED BY <2>1, <2>2, <3>2, <3>4, PrefixOrder
  <2> QED BY <2>3, <2>4
<1> QED BY <1>1, <1>2, <1>4, LeastNat

\* The text of the first parts begins that of all of them.
LEMMA FlattenKeepsPrefixes ==
  ASSUME NEW S, NEW a \in Seq(Seq(S)), NEW b \in Seq(Seq(S)), Len(a) <= Len(b),
         \A i \in 1 .. Len(a) : a[i] = b[i]
  PROVE  /\ FlattenSeq(a) \in Seq(S) /\ FlattenSeq(b) \in Seq(S)
         /\ IsPrefix(FlattenSeq(a), FlattenSeq(b))
<1>1. Len(a) \in Nat /\ Len(b) \in Nat
  OBVIOUS
<1>2. ASSUME NEW c \in Seq(Seq(S)), Len(c) = 0
      PROVE  FlattenSeq(c) = <<>>
  <2>1. c = <<>>
    BY <1>2, EmptySeq
  <2> QED BY <1>2, <2>1 DEF FlattenSeq
<1>3. <<>> \in Seq(S)
  OBVIOUS
<1>4. ASSUME NEW c \in Seq(Seq(S))
      PROVE  FlattenSeq(c) \in Seq(S)
  <2>1. CASE Len(c) = 0
    BY <1>2, <1>3, <2>1
  <2>2. CASE Len(c) # 0
    <3>1. PICK f \in [1 .. Len(c) -> Seq(S)] : FlattenSeq(c) = f[Len(c)]
      BY <2>2, FlattenIs
    <3>2. Len(c) \in 1 .. Len(c)
      BY <2>2
    <3> QED BY <3>1, <3>2
  <2> QED BY <2>1, <2>2
<1>5. CASE Len(a) = 0
  BY <1>2, <1>3, <1>4, <1>5, PrefixOrder
<1>6. CASE Len(a) # 0
  <2>1. PICK f \in [1 .. Len(a) -> Seq(S)] : FlattenEq(a, f) /\ FlattenSeq(a) = f[Len(a)]
    BY <1>6, FlattenIs
  <2>2. PICK g \in [1 .. Len(b) -> Seq(S)] : FlattenEq(b, g) /\ FlattenSeq(b) = g[Len(b)]
    BY <1>1, <1>6, FlattenIs
  <2>3. FlattenSeq(a) = g[Len(a)]
    <3>1. Len(a) \in 1 .. Len(a)
      BY <1>1, <1>6
    <3>2. \A i \in 1 .. Len(a) : f[i] = g[i]
      <4>1. Begins(a, b)
        BY <1>1 DEF Begins
      <4>2. FlattenEq(a, f) /\ FlattenEq(b, g)
        BY <2>1, <2>2
      <4>3. Same(f, g, Len(a))
        BY <4>1, <4>2, FlattenAgrees
      <4> QED BY <4>3 DEF Same
    <3> QED BY <2>1, <3>1, <3>2
  <2>4. /\ Len(a) \in 1 .. Len(b) /\ Len(b) \in Len(a) .. Len(b)
        /\ \A j \in Len(a) .. Len(b) : j \in 1 .. Len(b)
    BY <1>1, <1>6
  <2>5. \A j \in 1 .. Len(b) : g[j] \in Seq(S)
    BY <2>2
  <2>6. IsPrefix(g[Len(a)], g[Len(b)])
    BY <1>1, <2>2, <2>4, <2>5, FlattenGrows
  <2> QED BY <1>4, <2>2, <2>3, <2>6
<1> QED BY <1>5, <1>6

LEMMA ElementsOfSeq ==
  ASSUME NEW R, NEW w \in Seq(R)
  PROVE  Len(w) \in Nat /\ DOMAIN w = 1 .. Len(w) /\ \A i \in 1 .. Len(w) : w[i] \in R
OBVIOUS

\* Messages as they arrive: a role, and blocks of text.
Messages(S) == Seq([role : DOMAIN marker, content : Seq(Seq(S))])

\* A conversation that goes on renders to a text that goes on: "has to be
\* prefix-preserving" (render_messages).
THEOREM RenderKeepsPrefixes ==
  ASSUME NEW S, marker \in [DOMAIN marker -> Seq(S)],
         NEW m \in Messages(S), NEW n \in Messages(S), IsPrefix(m, n)
  PROVE  /\ render_messages(m) \in Seq(S) /\ render_messages(n) \in Seq(S)
         /\ IsPrefix(render_messages(m), render_messages(n))
<1> DEFINE part(x)  == marker[x.role] \o FlattenSeq(x.content)
           parts(w) == [i \in DOMAIN w |-> part(w[i])]
<1>1. ASSUME NEW x \in [role : DOMAIN marker, content : Seq(Seq(S))]
      PROVE  part(x) \in Seq(S)
  <2>1. FlattenSeq(x.content) \in Seq(S)
    BY FlattenKeepsPrefixes
  <2>2. marker[x.role] \in Seq(S)
    OBVIOUS
  <2> QED BY <2>1, <2>2
<1> HIDE DEF part
<1>2. ASSUME NEW w \in Messages(S)
      PROVE  /\ parts(w) \in Seq(Seq(S)) /\ Len(parts(w)) = Len(w)
             /\ \A i \in 1 .. Len(w) : parts(w)[i] = part(w[i])
  <2>0. w \in Seq([role : DOMAIN marker, content : Seq(Seq(S))])
    BY DEF Messages
  <2>1. Len(w) \in Nat /\ DOMAIN w = 1 .. Len(w) /\ \A i \in 1 .. Len(w) : part(w[i]) \in Seq(S)
    <3>1. /\ Len(w) \in Nat /\ DOMAIN w = 1 .. Len(w)
          /\ \A i \in 1 .. Len(w) : w[i] \in [role : DOMAIN marker, content : Seq(Seq(S))]
      BY <2>0, ElementsOfSeq
    <3> QED BY <1>1, <3>1
  <2>2. parts(w) = [i \in 1 .. Len(w) |-> part(w[i])]
    BY <2>1
  <2> PICK p : p = parts(w)
    OBVIOUS
  <2>3. p = [i \in 1 .. Len(w) |-> part(w[i])]
    BY <2>2
  <2>4. p \in Seq(Seq(S)) /\ Len(p) = Len(w)
    BY <2>1, <2>3
  <2>5. \A i \in 1 .. Len(w) : p[i] = part(w[i])
    BY <2>3
  <2> QED BY <2>4, <2>5
<1>3. Len(m) <= Len(n) /\ \A i \in 1 .. Len(m) : m[i] = n[i]
  BY PrefixPointwise DEF Messages
<1>4. Len(m) \in Nat /\ Len(n) \in Nat
  BY DEF Messages
<1>5. \A i \in 1 .. Len(m) : parts(m)[i] = parts(n)[i]
  BY <1>2, <1>3, <1>4
<1> PICK a, b : a = parts(m) /\ b = parts(n)
  OBVIOUS
<1>6. /\ a \in Seq(Seq(S)) /\ b \in Seq(Seq(S)) /\ Len(a) <= Len(b)
      /\ \A i \in 1 .. Len(a) : a[i] = b[i]
  BY <1>2, <1>3, <1>5
<1>7. render_messages(m) = FlattenSeq(a) /\ render_messages(n) = FlattenSeq(b)
  BY DEF render_messages, part
<1> QED BY <1>6, <1>7, FlattenKeepsPrefixes

----------------------------------------------------------------------------
\* Gateway.

\* Fleet, with what is proved about it.
GP == INSTANCE FleetProofs WITH Handles <- Requests, replica_ids <- ToSet(backends)

----------------------------------------------------------------------------
\* The operators of the tree are the same, seen through the instances.
LEMMA FleetOperators ==
  ASSUME NEW t, NEW tokens, NEW r, NEW n, NEW at
  PROVE  /\ GP!Tree!EmptyTree = EmptyTree
         /\ GP!Tree!InsertPath(t, tokens, r, at) = InsertPath(t, tokens, r, at)
         /\ GP!Tree!Touched(t, tokens, r, at) = Touched(t, tokens, r, at)
         /\ GP!Tree!Forgotten(t, r) = Forgotten(t, r)
         /\ GP!Tree!Victims(t, r) = Victims(t, r)
         /\ GP!Tree!Evicted(t, r, n) = Evicted(t, r, n)
<1>1. GP!Tree!EmptyTree = EmptyTree
  BY DEF GP!Tree!EmptyTree, GP!Tree!NoResidents, EmptyTree, NoResidents
<1>2. GP!Tree!InsertPath(t, tokens, r, at) = InsertPath(t, tokens, r, at)
  <2>1. GP!Tree!Extended(t, tokens) = Extended(t, tokens)
    BY DEF GP!Tree!Extended, GP!Tree!Matched, GP!Tree!MidEdge, GP!Tree!Children,
           GP!Tree!Deepest, GP!Tree!Walk, GP!Tree!Nodes, GP!Tree!NoResidents, GP!Tree!IsPrefix,
           GP!Tree!IsStrictPrefix, GP!Tree!LongestCommonPrefix, GP!Tree!CommonPrefixes,
           GP!Tree!Prefixes, Extended, Matched, MidEdge, Children, Deepest, Walk, Nodes,
           NoResidents, IsPrefix, IsStrictPrefix, LongestCommonPrefix, CommonPrefixes, Prefixes
  <2>2. \A g : GP!Tree!Novel(g, tokens, r) = Novel(g, tokens, r)
    BY DEF GP!Tree!Novel, GP!Tree!IsPrefix, Novel, IsPrefix
  <2>3. \A g : GP!Tree!Mark(g, tokens, r, at) = Mark(g, tokens, r, at)
    BY DEF GP!Tree!Mark, GP!Tree!IsPrefix, GP!Tree!Put, Mark, IsPrefix, Put
  <2>4. GP!Tree!Used(t, r) = Used(t, r)
    BY DEF GP!Tree!Used, Used
  <2>5. \A S : GP!Tree!Cardinality(S) = Cardinality(S)
    BY DEF GP!Tree!Cardinality, GP!Tree!IsFiniteSet, Cardinality, IsFiniteSet
  <2> QED
    BY <2>1, <2>2, <2>3, <2>4, <2>5 DEF GP!Tree!InsertPath, GP!Tree!Put, InsertPath, Put
<1>3. GP!Tree!Touched(t, tokens, r, at) = Touched(t, tokens, r, at)
  BY DEF GP!Tree!Touched, GP!Tree!Nodes, GP!Tree!Holds, GP!Tree!Put, GP!Tree!IsPrefix, Touched,
         Nodes, Holds, Put, IsPrefix
<1>4. GP!Tree!Forgotten(t, r) = Forgotten(t, r)
  BY DEF GP!Tree!Forgotten, GP!Tree!Nodes, GP!Tree!Drop, Forgotten, Nodes, Drop
<1>5. GP!Tree!Victims(t, r) = Victims(t, r)
  BY DEF GP!Tree!Victims, GP!Tree!Evictable, GP!Tree!Nodes, GP!Tree!Holds, GP!Tree!IsTailFor,
         GP!Tree!Children, GP!Tree!IsStrictPrefix, GP!Tree!IsPrefix, Victims, Evictable, Nodes,
         Holds, IsTailFor, Children, IsStrictPrefix, IsPrefix
<1>6. GP!Tree!Evicted(t, r, n) = Evicted(t, r, n)
  BY DEF GP!Tree!Evicted, GP!Tree!Drop, GP!Tree!Put, GP!Tree!Used, GP!Tree!Edge,
         GP!Tree!Children, GP!Tree!Nodes, GP!Tree!IsStrictPrefix, GP!Tree!IsPrefix, Evicted,
         Drop, Put, Used, Edge, Children, Nodes, IsStrictPrefix, IsPrefix
<1> QED BY <1>1, <1>2, <1>3, <1>4, <1>5, <1>6

LEMMA BeliefOperators ==
  ASSUME NEW t, NEW tokens, NEW r, NEW n, NEW at
  PROVE  /\ F!Tree!EmptyTree = EmptyTree
         /\ F!Tree!InsertPath(t, tokens, r, at) = InsertPath(t, tokens, r, at)
         /\ F!Tree!Touched(t, tokens, r, at) = Touched(t, tokens, r, at)
         /\ F!Tree!Forgotten(t, r) = Forgotten(t, r)
         /\ F!Tree!Victims(t, r) = Victims(t, r)
         /\ F!Tree!Evicted(t, r, n) = Evicted(t, r, n)
<1>1. F!Tree!EmptyTree = EmptyTree
  BY DEF F!Tree!EmptyTree, F!Tree!NoResidents, EmptyTree, NoResidents
<1>2. F!Tree!InsertPath(t, tokens, r, at) = InsertPath(t, tokens, r, at)
  <2>1. F!Tree!Extended(t, tokens) = Extended(t, tokens)
    BY DEF F!Tree!Extended, F!Tree!Matched, F!Tree!MidEdge, F!Tree!Children, F!Tree!Deepest,
           F!Tree!Walk, F!Tree!Nodes, F!Tree!NoResidents, F!Tree!IsPrefix,
           F!Tree!IsStrictPrefix, F!Tree!LongestCommonPrefix, F!Tree!CommonPrefixes,
           F!Tree!Prefixes, Extended, Matched, MidEdge, Children, Deepest, Walk, Nodes,
           NoResidents, IsPrefix, IsStrictPrefix, LongestCommonPrefix, CommonPrefixes, Prefixes
  <2>2. \A g : F!Tree!Novel(g, tokens, r) = Novel(g, tokens, r)
    BY DEF F!Tree!Novel, F!Tree!IsPrefix, Novel, IsPrefix
  <2>3. \A g : F!Tree!Mark(g, tokens, r, at) = Mark(g, tokens, r, at)
    BY DEF F!Tree!Mark, F!Tree!IsPrefix, F!Tree!Put, Mark, IsPrefix, Put
  <2>4. F!Tree!Used(t, r) = Used(t, r)
    BY DEF F!Tree!Used, Used
  <2>5. \A S : F!Tree!Cardinality(S) = Cardinality(S)
    BY DEF F!Tree!Cardinality, F!Tree!IsFiniteSet, Cardinality, IsFiniteSet
  <2> QED
    BY <2>1, <2>2, <2>3, <2>4, <2>5 DEF F!Tree!InsertPath, F!Tree!Put, InsertPath, Put
<1>3. F!Tree!Touched(t, tokens, r, at) = Touched(t, tokens, r, at)
  BY DEF F!Tree!Touched, F!Tree!Nodes, F!Tree!Holds, F!Tree!Put, F!Tree!IsPrefix, Touched,
         Nodes, Holds, Put, IsPrefix
<1>4. F!Tree!Forgotten(t, r) = Forgotten(t, r)
  BY DEF F!Tree!Forgotten, F!Tree!Nodes, F!Tree!Drop, Forgotten, Nodes, Drop
<1>5. F!Tree!Victims(t, r) = Victims(t, r)
  BY DEF F!Tree!Victims, F!Tree!Evictable, F!Tree!Nodes, F!Tree!Holds, F!Tree!IsTailFor,
         F!Tree!Children, F!Tree!IsStrictPrefix, F!Tree!IsPrefix, Victims, Evictable, Nodes,
         Holds, IsTailFor, Children, IsStrictPrefix, IsPrefix
<1>6. F!Tree!Evicted(t, r, n) = Evicted(t, r, n)
  BY DEF F!Tree!Evicted, F!Tree!Drop, F!Tree!Put, F!Tree!Used, F!Tree!Edge, F!Tree!Children,
         F!Tree!Nodes, F!Tree!IsStrictPrefix, F!Tree!IsPrefix, Evicted, Drop, Put, Used, Edge,
         Children, Nodes, IsStrictPrefix, IsPrefix
<1> QED BY <1>1, <1>2, <1>3, <1>4, <1>5, <1>6

----------------------------------------------------------------------------
\* The assumptions of Fleet hold of the gateway's.
LEMMA TextIsText ==
  ASSUME NEW m \in Conversations
  PROVE  render_messages(m) \in Seq(Nat)
<1>1. m \in Messages(Nat) /\ marker \in [DOMAIN marker -> Seq(Nat)]
  BY TextAssumption DEF Messages
<1>2. IsPrefix(m, m)
  BY <1>1, PrefixOrder DEF Messages
<1> QED BY <1>1, <1>2, RenderKeepsPrefixes

LEMMA PromptsAreSequences == Prompts \subseteq Seq(Token)
<1> SUFFICES ASSUME NEW p \in Prompts PROVE p \in Seq(Token)
  OBVIOUS
<1>1. PICK m \in Conversations : p = encode(render_messages(m))
  BY DEF Prompts, Tokens
<1>2. p \in Seq(ToSet(p))
  BY <1>1, TextIsText, EncodeIsSequence
<1>3. ToSet(p) \subseteq Token
  BY DEF Token
<1> QED BY <1>2, <1>3

LEMMA BackendsAreReplicas == ToSet(backends) \subseteq Replicas /\ ToSet(backends) # {}
<1>1. Len(backends) \in Nat /\ DOMAIN backends = 1 .. Len(backends) /\ Len(backends) # 0
      /\ \A i \in 1 .. Len(backends) : backends[i] \in Replicas
  BY BackendsAssumption, ElementsOfSeq, EmptySeq
<1>2. 1 \in DOMAIN backends
  BY <1>1
<1> QED BY <1>1, <1>2 DEF ToSet

LEMMA FleetAssumed == GP!FleetAssumption /\ GP!TreeAssumption
<1>1. GP!FleetAssumption
  BY BackendsAreReplicas DEF GP!FleetAssumption
<1>2. GP!TreeAssumption
  BY PromptsAreSequences, GatewayAssumption DEF GP!TreeAssumption
<1> QED BY <1>1, <1>2

----------------------------------------------------------------------------
\* The handlers call the fleet's methods and do nothing else to its state.
LEMMA SameUncached ==
  ASSUME NEW tokens, NEW r
  PROVE  GP!Uncached(tokens, r) = F!Uncached(tokens, r)
<1>1. /\ GP!Walk(tree, tokens) = F!Walk(tree, tokens)
      /\ GP!MidEdge(tree, tokens) = F!MidEdge(tree, tokens)
      /\ GP!Matched(tree, tokens) = F!Matched(tree, tokens)
  BY DEF GP!Matched, GP!MidEdge, GP!Children, GP!Deepest, GP!Walk, GP!Nodes, GP!IsPrefix,
         GP!IsStrictPrefix, GP!LongestCommonPrefix, GP!CommonPrefixes, GP!Prefixes,
         F!Matched, F!MidEdge, F!Children, F!Deepest, F!Walk, F!Nodes, F!IsPrefix,
         F!IsStrictPrefix, F!LongestCommonPrefix, F!CommonPrefixes, F!Prefixes
<1>2. GP!MatchFor(tree, tokens, r, prefix_match_unit) =
        F!MatchFor(tree, tokens, r, prefix_match_unit)
  BY <1>1 DEF GP!MatchFor, GP!Max, GP!Usable, GP!Holds, F!MatchFor, F!Max, F!Usable, F!Holds
<1> QED BY <1>2 DEF GP!Uncached, GP!Cached, F!Uncached, F!Cached

LEMMA SameFleetInit == F!Init => GP!Init
BY FleetOperators, BeliefOperators
   DEF F!Init, F!Tree!Init, F!ReplicaState, GP!Init, GP!Tree!Init, GP!ReplicaState

LEMMA SameDispatch ==
  ASSUME NEW d, NEW r, NEW tokens, F!Dispatch(d, r, tokens)
  PROVE  GP!Dispatch(d, r, tokens)
<1>1. GP!Tree!Insert(tokens, r)
  <2>1. F!Tree!Insert(tokens, r)
    BY DEF F!Dispatch
  <2>2. GP!Tree!InsertPath(tree, tokens, r, now') = F!Tree!InsertPath(tree, tokens, r, now')
    BY FleetOperators, BeliefOperators
  <2>3. GP!Tree!OverCapacity(tree', r, capacity_tokens) <=>
          F!Tree!OverCapacity(tree', r, capacity_tokens)
    BY DEF GP!Tree!OverCapacity, GP!Tree!Used, F!Tree!OverCapacity, F!Tree!Used
  <2> QED
    BY <2>1, <2>2, <2>3 DEF F!Tree!Insert, F!Tree!Advance, GP!Tree!Insert, GP!Tree!Advance
<1> QED BY <1>1, SameUncached DEF F!Dispatch, F!Members, F!Put, GP!Dispatch, GP!Members, GP!Put

LEMMA SameComplete ==
  ASSUME NEW d, F!Complete(d)
  PROVE  GP!Complete(d)
<1> PICK r, tokens : r = open[d].replica_id /\ tokens = open[d].tokens
  OBVIOUS
<1>1. F!Tree!Touch(tokens, r) => GP!Tree!Touch(tokens, r)
  <2>1. GP!Tree!Touched(tree, tokens, r, now') = F!Tree!Touched(tree, tokens, r, now')
    BY FleetOperators, BeliefOperators
  <2> QED BY <2>1 DEF F!Tree!Touch, F!Tree!Advance, GP!Tree!Touch, GP!Tree!Advance
<1> QED BY <1>1 DEF F!Complete, F!Members, F!FloorAtZero, F!Due, F!Drop,
                    GP!Complete, GP!Members, GP!FloorAtZero, GP!Due, GP!Drop

LEMMA SameEnforce == F!Enforce => GP!Enforce
<1>1. GP!Tree!Victims(tree, enforcing) = F!Tree!Victims(tree, enforcing)
  BY FleetOperators, BeliefOperators
<1>2. \A n : GP!Tree!Evicted(tree, enforcing, n) = F!Tree!Evicted(tree, enforcing, n)
  BY FleetOperators, BeliefOperators
<1>3. GP!Tree!OverCapacity(tree', enforcing, capacity_tokens) <=>
        F!Tree!OverCapacity(tree', enforcing, capacity_tokens)
  BY DEF GP!Tree!OverCapacity, GP!Tree!Used, F!Tree!OverCapacity, F!Tree!Used
<1> QED BY <1>1, <1>2, <1>3 DEF F!Enforce, F!Tree!EvictOne, GP!Enforce, GP!Tree!EvictOne

----------------------------------------------------------------------------
\* The members are the configured backends; what is open is what is awaited or
\* abandoned, and who was abandoned does not come back.
GateInv ==
  /\ DOMAIN replicas = ToSet(backends) /\ orphans = {} /\ reused = {}
  /\ policy \in PolicyNames /\ turn \in Nat
  /\ pc \in [Requests -> {"reading", "posting", "unstarted", "streaming", "done", "rejected"}]
  /\ DOMAIN open \subseteq Requests
  /\ \A q \in abandoned : q \in Requests /\ pc[q] = "done"
  /\ \A q \in Requests : q \in DOMAIN open <=> Awaiting(q) \/ q \in abandoned

LEMMA InitGate == Init => GateInv
BY DEF Init, F!Init, GateInv, Awaiting

LEMMA RouteGate ==
  ASSUME GateInv, NEW q \in Requests, NEW messages \in Conversations, NEW stream \in BOOLEAN,
         Route(q, messages, stream)
  PROVE  GateInv'
<1> PICK r, tokens : r = Choose(tokens) /\ tokens = Tokens(messages)
  OBVIOUS
<1>1. /\ pc[q] = "reading" /\ pc' = [pc EXCEPT ![q] = IF stream THEN "unstarted" ELSE "posting"]
      /\ F!Dispatch(q, r, tokens)
      /\ turn' = IF policy = "round_robin" THEN turn + 1 ELSE turn
      /\ policy' = policy /\ abandoned' = abandoned
  BY DEF Route
<1>2. /\ DOMAIN replicas' = DOMAIN replicas /\ orphans' = orphans /\ reused' = reused
      /\ DOMAIN open' = DOMAIN open \cup {q}
  BY <1>1 DEF F!Dispatch, F!Put
<1>3. pc' \in [Requests -> {"reading", "posting", "unstarted", "streaming", "done", "rejected"}]
  BY <1>1 DEF GateInv
<1>4. Awaiting(q)' /\ \A p \in Requests \ {q} : pc'[p] = pc[p]
  BY <1>1 DEF GateInv, Awaiting
<1>5. q \notin abandoned
  BY <1>1 DEF GateInv
<1> QED BY <1>1, <1>2, <1>3, <1>4, <1>5 DEF GateInv, Awaiting

LEMMA CompleteGate ==
  ASSUME GateInv, NEW q \in Requests, pc[q] \in {"posting", "streaming"}, F!Complete(q),
         pc' = [pc EXCEPT ![q] = "done"], UNCHANGED <<policy, turn, abandoned>>
  PROVE  GateInv'
<1>1. /\ DOMAIN replicas' = DOMAIN replicas /\ orphans' = orphans \ {q} /\ reused' = reused
      /\ DOMAIN open' = DOMAIN open \ {q}
  BY DEF F!Complete, F!Drop
<1>2. pc' \in [Requests -> {"reading", "posting", "unstarted", "streaming", "done", "rejected"}]
  BY DEF GateInv
<1>3. ~Awaiting(q)' /\ q \notin abandoned /\ \A p \in Requests \ {q} : pc'[p] = pc[p]
  BY DEF GateInv, Awaiting
<1> QED BY <1>1, <1>2, <1>3 DEF GateInv, Awaiting

\* The steps of a handler that do not reach the fleet.
LEMMA ElsewhereGate ==
  ASSUME GateInv, NEW q \in Requests, Reject(q) \/ StartStream(q) \/ Abandon(q)
  PROVE  GateInv'
<1>1. UNCHANGED <<replicas, open, orphans, reused, policy, turn>>
  BY DEF Reject, StartStream, Abandon, fleetVars
<1>2. /\ pc' \in [Requests -> {"reading", "posting", "unstarted", "streaming", "done", "rejected"}]
      /\ \A p \in Requests \ {q} : pc'[p] = pc[p]
  BY DEF GateInv, Reject, StartStream, Abandon
<1>3. q \notin abandoned
  BY DEF GateInv, Reject, StartStream, Abandon
<1>4. CASE Reject(q) \/ StartStream(q)
  <2>1. (Awaiting(q)' <=> Awaiting(q)) /\ abandoned' = abandoned
    BY <1>4 DEF GateInv, Awaiting, Reject, StartStream
  <2> QED BY <1>1, <1>2, <1>3, <2>1 DEF GateInv, Awaiting
<1>5. CASE Abandon(q)
  <2>1. Awaiting(q) /\ pc'[q] = "done" /\ abandoned' = abandoned \cup {q}
    BY <1>5 DEF GateInv, Awaiting, Abandon
  <2> QED BY <1>1, <1>2, <2>1 DEF GateInv, Awaiting
<1> QED BY <1>4, <1>5

THEOREM GateInvAlways == Spec => []GateInv
<1>1. GateInv /\ [Next]_vars => GateInv'
  <2> SUFFICES ASSUME GateInv, [Next]_vars PROVE GateInv'
    OBVIOUS
  <2>1. ASSUME NEW q \in Requests, NEW messages \in Conversations, NEW stream \in BOOLEAN,
               Route(q, messages, stream)
        PROVE  GateInv'
    BY <2>1, RouteGate
  <2>2. ASSUME NEW q \in Requests, Finish(q) \/ Fail(q)
        PROVE  GateInv'
    BY <2>2, CompleteGate DEF Finish, Fail
  <2>3. ASSUME NEW q \in Requests, Reject(q) \/ StartStream(q) \/ Abandon(q)
        PROVE  GateInv'
    BY <2>3, ElsewhereGate
  <2>4. CASE Enforce
    BY <2>4 DEF Enforce, F!Enforce, GateInv, Awaiting
  <2>5. CASE UNCHANGED vars
    BY <2>5 DEF vars, GateInv, Awaiting
  <2> QED BY <2>1, <2>2, <2>3, <2>4, <2>5 DEF Next, Answered, Idle
<1> QED BY <1>1, InitGate, PTL DEF Spec

\* A dispatch is completed on every path out of a handler but the two on which
\* nothing runs (chat_completions, stream).
THEOREM AlwaysCompletedUnlessAbandoned == Spec => []CompletedUnlessAbandoned
<1>1. GateInv => CompletedUnlessAbandoned
  BY DEF GateInv, CompletedUnlessAbandoned
<1> QED BY <1>1, GateInvAlways, PTL

LEMMA StepsAreFleetSteps == GateInv /\ [Next]_vars => [GP!Next]_(GP!vars)
<1> SUFFICES ASSUME GateInv, [Next]_vars
             PROVE  GP!Next \/ UNCHANGED GP!vars
  OBVIOUS
<1>1. ASSUME NEW q \in Requests, NEW messages \in Conversations, NEW stream \in BOOLEAN,
             Route(q, messages, stream)
      PROVE  GP!Next
  <2> PICK tokens : tokens = Tokens(messages)
    OBVIOUS
  <2> PICK r : r = Choose(tokens)
    OBVIOUS
  <2>1. F!Dispatch(q, r, tokens)
    BY <1>1 DEF Route
  <2>2. r \in Replicas /\ tokens \in Prompts
    BY <2>1, BackendsAreReplicas DEF F!Dispatch, F!Members, GateInv, Prompts
  <2> QED BY <2>1, <2>2, SameDispatch DEF GP!Next
<1>2. ASSUME NEW q \in Requests, Finish(q) \/ Fail(q)
      PROVE  GP!Next
  BY <1>2, SameComplete DEF Finish, Fail, GP!Next
<1>3. ASSUME NEW q \in Requests, Reject(q) \/ StartStream(q) \/ Abandon(q)
      PROVE  UNCHANGED GP!vars
  BY <1>3 DEF Reject, StartStream, Abandon, fleetVars, GP!vars
<1>4. CASE Enforce
  BY <1>4, SameEnforce DEF Enforce, GP!Next
<1>5. CASE UNCHANGED vars
  BY <1>5 DEF vars, GP!vars
<1> QED BY <1>1, <1>2, <1>3, <1>4, <1>5 DEF Next, Answered, Idle

\* The fleet that the handlers share is a fleet, however they interleave: what
\* FleetProofs shows of every order of calls holds of it.
THEOREM GatewayFleetIsAFleet == Spec => GP!Spec
<1>1. Init => GP!Init
  BY SameFleetInit DEF Init
<1> QED BY <1>1, StepsAreFleetSteps, GateInvAlways, PTL DEF Spec, GP!Spec

THEOREM GatewayLoadAlways == Spec => [](GP!LoadInv /\ GP!BeliefFits /\ GP!TypeOK)
<1>1. GP!Spec => []GP!LoadInv
  BY GP!LoadInvAlways, FleetAssumed
<1>2. GP!Spec => []GP!BeliefFits
  BY GP!BeliefAlwaysFits, FleetAssumed
<1>3. GP!Spec => []GP!TypeOK
  BY GP!FleetTypeCorrect, FleetAssumed
<1> QED BY <1>1, <1>2, <1>3, GatewayFleetIsAFleet, PTL

\* Whatever the handlers do to each other, a replica's load is that of the
\* dispatches not yet completed (dispatch, complete).
THEOREM LoadIsAlwaysOpen == Spec => []LoadIsOpen
<1>1. GateInv /\ GP!LoadInv => LoadIsOpen
  <2> SUFFICES ASSUME GateInv, GP!LoadInv, NEW r \in DOMAIN replicas
               PROVE  F!Exact(r)
    BY DEF LoadIsOpen, F!LoadExact, F!Members
  <2>1. GP!Exact(r)
    BY DEF GateInv, GP!LoadInv, GP!Fair, GP!Members
  <2>2. F!Owed(r) = GP!Owed(r) /\ \A S : F!Cardinality(S) = GP!Cardinality(S)
    BY DEF F!Owed, F!OpenOn, GP!Owed, GP!OpenOn,
           F!Cardinality, F!IsFiniteSet, GP!Cardinality, GP!IsFiniteSet
  <2> QED BY <2>1, <2>2 DEF F!Exact, F!Pending, GP!Exact, GP!Pending
<1> QED BY <1>1, GateInvAlways, GatewayLoadAlways, PTL

\* Whenever no handler waits on a replica, what is counted for it is what has
\* been abandoned there, and without such requests it is as it was at the start:
\* the state that QueuesDrain promises, and TLC finds to be reached.
DrainedWhenNobodyWaits ==
  \A r \in DOMAIN replicas : (\A q \in Requests : ~AwaitingOn(q, r)) => Drained(r)

THEOREM AlwaysDrained == Spec => []DrainedWhenNobodyWaits
<1>1. ASSUME GateInv, LoadIsOpen, GP!TypeOK PROVE DrainedWhenNobodyWaits
  <2>1. SUFFICES ASSUME NEW r \in DOMAIN replicas, \A q \in Requests : ~AwaitingOn(q, r)
                 PROVE  /\ replicas[r].in_flight = Cardinality({q \in abandoned : open[q].replica_id = r})
                        /\ F!OpenOn(r) \subseteq abandoned
                        /\ F!OpenOn(r) = {} => replicas[r] = F!ReplicaState
    BY DEF DrainedWhenNobodyWaits, Drained
  <2>2. /\ orphans = {} /\ abandoned \subseteq DOMAIN open
        /\ \A q \in DOMAIN open : open[q].replica_id = r => q \in abandoned
    BY <1>1, <2>1 DEF GateInv, AwaitingOn
  <2>3. F!Owed(r) = F!OpenOn(r) /\ F!OpenOn(r) = {q \in abandoned : open[q].replica_id = r}
    BY <2>2 DEF F!Owed, F!OpenOn
  <2>4. /\ replicas[r].in_flight = F!Cardinality(F!Owed(r))
        /\ replicas[r].pending_prefill_tokens = F!Pending(r)
    BY <1>1 DEF LoadIsOpen, F!LoadExact, F!Members, F!Exact
  <2>5. \A S : F!Cardinality(S) = Cardinality(S)
    BY DEF F!Cardinality, F!IsFiniteSet, Cardinality, IsFiniteSet
  <2>6. replicas[r] \in [in_flight : Nat, pending_prefill_tokens : Nat]
    BY <1>1 DEF GP!TypeOK, GP!Members
  <2>7. ASSUME F!OpenOn(r) = {} PROVE replicas[r] = F!ReplicaState
    <3>1. F!Owed(r) = {}
      BY <2>3, <2>7
    <3>2. F!Pending(r) = F!Cardinality({})
      BY <3>1 DEF F!Pending
    <3>3. replicas[r].in_flight = 0 /\ replicas[r].pending_prefill_tokens = 0
      BY <2>4, <2>5, <3>1, <3>2, FS_EmptySet
    <3> QED BY <2>6, <3>3 DEF F!ReplicaState
  <2> QED BY <2>3, <2>4, <2>5, <2>7
<1> QED BY <1>1, GateInvAlways, LoadIsAlwaysOpen, GatewayLoadAlways, PTL

----------------------------------------------------------------------------
\* The statistics, and what the policies read.

\* match() is the same to the fleet and to the policies.
LEMMA SameHit ==
  ASSUME NEW tokens, NEW r
  PROVE  /\ F!Cached(tokens, r) = GP!Cached(tokens, r)
         /\ P!Hit(tokens, r) = GP!Cached(tokens, r)
<1>1. /\ GP!Walk(tree, tokens) = F!Walk(tree, tokens)
      /\ GP!MidEdge(tree, tokens) = F!MidEdge(tree, tokens)
      /\ GP!Matched(tree, tokens) = F!Matched(tree, tokens)
  BY DEF GP!Matched, GP!MidEdge, GP!Children, GP!Deepest, GP!Walk, GP!Nodes, GP!IsPrefix,
         GP!IsStrictPrefix, GP!LongestCommonPrefix, GP!CommonPrefixes, GP!Prefixes,
         F!Matched, F!MidEdge, F!Children, F!Deepest, F!Walk, F!Nodes, F!IsPrefix,
         F!IsStrictPrefix, F!LongestCommonPrefix, F!CommonPrefixes, F!Prefixes
<1>2. /\ GP!Walk(tree, tokens) = P!Walk(tree, tokens)
      /\ GP!MidEdge(tree, tokens) = P!MidEdge(tree, tokens)
      /\ GP!Matched(tree, tokens) = P!Matched(tree, tokens)
  BY DEF GP!Matched, GP!MidEdge, GP!Children, GP!Deepest, GP!Walk, GP!Nodes, GP!IsPrefix,
         GP!IsStrictPrefix, GP!LongestCommonPrefix, GP!CommonPrefixes, GP!Prefixes,
         P!Matched, P!MidEdge, P!Children, P!Deepest, P!Walk, P!Nodes, P!IsPrefix,
         P!IsStrictPrefix, P!LongestCommonPrefix, P!CommonPrefixes, P!Prefixes
<1>3. F!Cached(tokens, r) = GP!Cached(tokens, r)
  BY <1>1 DEF F!Cached, F!MatchFor, F!Max, F!Usable, F!Holds,
              GP!Cached, GP!MatchFor, GP!Max, GP!Usable, GP!Holds
<1>4. P!Hit(tokens, r) = GP!Cached(tokens, r)
  BY <1>2 DEF P!Hit, P!MatchFor, P!Max, P!Usable, P!Holds,
              GP!Cached, GP!MatchFor, GP!Max, GP!Usable, GP!Holds
<1> QED BY <1>3, <1>4

\* The members, their counters, and what is cached of a prompt, are of their
\* types.
LEMMA WhatPoliciesRead ==
  ASSUME GateInv, GP!BeliefFits, GP!TypeOK
  PROVE  /\ DOMAIN replicas \subseteq Replicas /\ DOMAIN replicas # {}
         /\ replicas \in [DOMAIN replicas -> [in_flight : Nat, pending_prefill_tokens : Nat]]
         /\ \A m \in Conversations, r \in Replicas :
              /\ Tokens(m) \in Prompts /\ Len(Tokens(m)) \in Nat
              /\ F!Cached(Tokens(m), r) = P!Hit(Tokens(m), r)
              /\ P!Hit(Tokens(m), r) \in 0 .. Len(Tokens(m))
              /\ P!Hit(Tokens(m), r) > 0 => r \in DOMAIN replicas
<1>1. DOMAIN replicas \subseteq Replicas /\ DOMAIN replicas # {}
  BY BackendsAreReplicas DEF GateInv
<1>2. replicas \in [DOMAIN replicas -> [in_flight : Nat, pending_prefill_tokens : Nat]]
  BY DEF GP!TypeOK, GP!Members
<1>3. ASSUME NEW m \in Conversations, NEW r \in Replicas
      PROVE  /\ Tokens(m) \in Prompts /\ Len(Tokens(m)) \in Nat
             /\ F!Cached(Tokens(m), r) = P!Hit(Tokens(m), r)
             /\ P!Hit(Tokens(m), r) \in 0 .. Len(Tokens(m))
             /\ P!Hit(Tokens(m), r) > 0 => r \in DOMAIN replicas
  <2>1. Tokens(m) \in Prompts
    BY DEF Prompts
  <2>2. Len(Tokens(m)) \in Nat
    BY <2>1, PromptsAreSequences
  <2> QED BY <2>1, <2>2, SameHit DEF GP!BeliefFits, GP!Members
<1> QED BY <1>1, <1>2, <1>3

StatsOK ==
  stats \in [requests : Nat, failures : Nat, prompt_tokens : Nat, cached_tokens : Nat,
             per_replica : [ToSet(backends) -> Nat]]

LEMMA RouteStats ==
  ASSUME GateInv, GP!BeliefFits, GP!TypeOK, StatsOK,
         NEW q \in Requests, NEW messages \in Conversations, NEW stream \in BOOLEAN,
         Route(q, messages, stream)
  PROVE  StatsOK'
<1> PICK tokens : tokens = Tokens(messages)
  OBVIOUS
<1> PICK r : r = Choose(tokens)
  OBVIOUS
<1>1. /\ stats' = [requests      |-> stats.requests + 1,
                   failures      |-> stats.failures,
                   prompt_tokens |-> stats.prompt_tokens + Len(tokens),
                   cached_tokens |-> stats.cached_tokens + F!Cached(tokens, r),
                   per_replica   |-> [stats.per_replica EXCEPT ![r] = @ + 1]]
      /\ r \in DOMAIN replicas
  BY DEF Route, F!Dispatch, F!Members
<1>2. r \in ToSet(backends) /\ r \in Replicas
  BY <1>1, BackendsAreReplicas DEF GateInv
<1>3. Len(tokens) \in Nat /\ F!Cached(tokens, r) \in Nat
  BY <1>2, WhatPoliciesRead
<1>4. [stats.per_replica EXCEPT ![r] = @ + 1] \in [ToSet(backends) -> Nat]
  <2>1. stats.per_replica \in [ToSet(backends) -> Nat] /\ stats.per_replica[r] + 1 \in Nat
    BY <1>2 DEF StatsOK
  <2> QED BY <1>2, <2>1
<1> QED BY <1>1, <1>3, <1>4 DEF StatsOK

THEOREM StatsAlwaysOK == Spec => []StatsOK
<1>1. Init => StatsOK
  BY DEF Init, StatsOK
<1>2. GateInv /\ GP!BeliefFits /\ GP!TypeOK /\ StatsOK /\ [Next]_vars => StatsOK'
  <2> SUFFICES ASSUME GateInv, GP!BeliefFits, GP!TypeOK, StatsOK, [Next]_vars
               PROVE  StatsOK'
    OBVIOUS
  <2>1. ASSUME NEW q \in Requests, NEW messages \in Conversations, NEW stream \in BOOLEAN,
               Route(q, messages, stream)
        PROVE  StatsOK'
    BY <2>1, RouteStats
  <2>2. ASSUME NEW q \in Requests, Fail(q)
        PROVE  StatsOK'
    BY <2>2 DEF Fail, StatsOK
  <2>3. ASSUME NEW q \in Requests, Finish(q) \/ Reject(q) \/ StartStream(q) \/ Abandon(q)
        PROVE  StatsOK'
    BY <2>3 DEF Finish, Reject, StartStream, Abandon, StatsOK
  <2>4. CASE Enforce \/ UNCHANGED vars
    BY <2>4 DEF Enforce, vars, StatsOK
  <2> QED BY <2>1, <2>2, <2>3, <2>4 DEF Next, Answered, Idle
<1> QED BY <1>1, <1>2, GateInvAlways, GatewayLoadAlways, PTL DEF Spec

LEMMA SameFleetType == GP!TypeOK => F!TypeOK
<1>1. GP!Tree!TypeOK => F!Tree!TypeOK
  BY DEF GP!Tree!TypeOK, GP!Tree!Nodes, GP!Tree!NoResidents, GP!Tree!IsPrefix,
         F!Tree!TypeOK, F!Tree!Nodes, F!Tree!NoResidents, F!Tree!IsPrefix
<1> QED BY <1>1 DEF GP!TypeOK, GP!Members, F!TypeOK, F!Members

\* The fleet, the policy, the handlers and the statistics are of their types
\* (app.state, chat_completions).
THEOREM GatewayTypeCorrect == Spec => []TypeOK
<1>1. GateInv /\ GP!TypeOK /\ StatsOK => TypeOK
  BY SameFleetType DEF GateInv, StatsOK, TypeOK
<1> QED BY <1>1, GateInvAlways, GatewayLoadAlways, StatsAlwaysOK, PTL

\* What a request adds to its replica's queue estimate is what the statistics
\* say it missed (chat_completions, dispatch).
THEOREM MissesAreAlwaysQueued == Spec => MissesAreQueued
<1> DEFINE Queued ==
      \A q \in DOMAIN open' \ DOMAIN open :
        LET r == open'[q].replica_id
        IN  replicas'[r].pending_prefill_tokens - replicas[r].pending_prefill_tokens =
              (stats'.prompt_tokens - stats.prompt_tokens)
              - (stats'.cached_tokens - stats.cached_tokens)
<1>1. GateInv /\ GP!BeliefFits /\ GP!TypeOK /\ StatsOK /\ [Next]_vars => [Queued]_vars
  <2> SUFFICES ASSUME GateInv, GP!BeliefFits, GP!TypeOK, StatsOK, Next
               PROVE  Queued
    OBVIOUS
  <2>1. ASSUME NEW q \in Requests, NEW messages \in Conversations, NEW stream \in BOOLEAN,
               Route(q, messages, stream)
        PROVE  Queued
    <3> PICK tokens : tokens = Tokens(messages)
      OBVIOUS
    <3> PICK r : r = Choose(tokens)
      OBVIOUS
    <3>1. F!Dispatch(q, r, tokens) /\ r \in DOMAIN replicas
      BY <2>1 DEF Route, F!Dispatch, F!Members
    <3> PICK hit, len : hit = F!Cached(tokens, r) /\ len = Len(tokens)
      OBVIOUS
    <3>2. hit \in Nat /\ len \in Nat
      BY <3>1, WhatPoliciesRead
    <3>3. /\ stats'.prompt_tokens = stats.prompt_tokens + len
          /\ stats'.cached_tokens = stats.cached_tokens + hit
      BY <2>1 DEF Route
    <3>4. /\ DOMAIN open' = DOMAIN open \cup {q} /\ open'[q].replica_id = r
      BY <3>1 DEF F!Dispatch, F!Put
    <3>5. replicas'[r].pending_prefill_tokens = replicas[r].pending_prefill_tokens + (len - hit)
      BY <3>1 DEF F!Dispatch, F!Uncached
    <3>6. /\ replicas[r].pending_prefill_tokens \in Nat
          /\ stats.prompt_tokens \in Nat /\ stats.cached_tokens \in Nat
      BY <3>1, WhatPoliciesRead DEF StatsOK
    <3>7. replicas'[r].pending_prefill_tokens - replicas[r].pending_prefill_tokens =
            (stats'.prompt_tokens - stats.prompt_tokens)
            - (stats'.cached_tokens - stats.cached_tokens)
      BY <3>2, <3>3, <3>5, <3>6
    <3> QED BY <3>4, <3>7
  <2>2. CASE DOMAIN open' \subseteq DOMAIN open
    BY <2>2
  <2>3. ASSUME NEW q \in Requests, Finish(q) \/ Fail(q) \/ Reject(q) \/ StartStream(q) \/ Abandon(q)
        PROVE  DOMAIN open' \subseteq DOMAIN open
    BY <2>3 DEF Finish, Fail, F!Complete, F!Drop, Reject, StartStream, Abandon, fleetVars
  <2>4. ASSUME Enforce \/ Idle
        PROVE  DOMAIN open' \subseteq DOMAIN open
    BY <2>4 DEF Enforce, F!Enforce, Idle, vars
  <2> QED BY <2>1, <2>2, <2>3, <2>4 DEF Next, Answered
<1> QED BY <1>1, GateInvAlways, GatewayLoadAlways, StatsAlwaysOK, PTL DEF Spec, MissesAreQueued

----------------------------------------------------------------------------
\* The policies.

FleetCounted ==
  /\ DOMAIN replicas \subseteq Replicas /\ DOMAIN replicas # {}
  /\ replicas \in [DOMAIN replicas -> [in_flight : Nat, pending_prefill_tokens : Nat]]

\* Among candidates there is always one to choose: fewest in flight, and of
\* those the one with the least id.
LEMMA TiebreakIsCandidate ==
  ASSUME FleetCounted, NEW C, C \subseteq DOMAIN replicas, C # {}
  PROVE  P!Tiebreak(C) \in C
<1> DEFINE loads == {replicas[c].in_flight : c \in C}
<1>1. loads \subseteq Nat /\ loads # {}
  BY DEF FleetCounted
<1>2. PICK n \in loads : \A m \in loads : n <= m
  <2> HIDE DEF loads
  <2> QED BY <1>1, LeastNat
<1> DEFINE least == {c \in C : replicas[c].in_flight = n}
           ids   == {lexical[c] : c \in least}
<1>3. ids \subseteq Nat /\ ids # {}
  <2>1. least # {} /\ least \subseteq Replicas
    BY <1>2 DEF FleetCounted
  <2> HIDE DEF least
  <2> QED BY <2>1, LexicalAssumption
<1>4. PICK i \in ids : \A j \in ids : i <= j
  <2> HIDE DEF ids
  <2> QED BY <1>3, LeastNat
<1>5. PICK r \in least : lexical[r] = i
  BY <1>4
<1>6. ASSUME NEW s \in C \ {r}
      PROVE  \/ replicas[r].in_flight < replicas[s].in_flight
             \/ replicas[r].in_flight = replicas[s].in_flight /\ lexical[r] < lexical[s]
  <2>1. /\ replicas[r].in_flight \in Nat /\ replicas[s].in_flight \in Nat
        /\ replicas[r].in_flight <= replicas[s].in_flight /\ replicas[r].in_flight = n
    BY <1>2, <1>5 DEF FleetCounted
  <2>2. CASE replicas[s].in_flight = n
    <3>1. r \in Replicas /\ s \in Replicas /\ r # s /\ s \in least
      BY <1>5, <2>2 DEF FleetCounted
    <3>2. lexical[r] <= lexical[s] /\ lexical[r] # lexical[s]
      BY <1>4, <1>5, <3>1, LexicalAssumption
    <3>3. lexical[r] \in Nat /\ lexical[s] \in Nat
      BY <3>1, LexicalAssumption
    <3> QED BY <2>1, <2>2, <3>2, <3>3
  <2>3. CASE replicas[s].in_flight # n
    BY <2>1, <2>3
  <2> QED BY <2>2, <2>3
<1> QED BY <1>5, <1>6 DEF P!Tiebreak

\* Costs: fewer tokens to prefill cost less, and cost is additive.
LEMMA Costs ==
  ASSUME NEW a \in Nat, NEW b \in Nat
  PROVE  /\ a * prefill_per_token \in Nat /\ b * decode_interference \in Nat
         /\ (a + b) * prefill_per_token = a * prefill_per_token + b * prefill_per_token
         /\ a <= b <=> a * prefill_per_token <= b * prefill_per_token
         /\ (a + 1) * decode_interference = a * decode_interference + decode_interference
         /\ 0 * prefill_per_token = 0 /\ 0 * decode_interference = 0
<1> PICK c, d : c = prefill_per_token /\ d = decode_interference
  OBVIOUS
<1>1. c \in Nat \ {0} /\ d \in Nat
  BY CostAssumption
<1>2. /\ a * c \in Nat /\ b * d \in Nat
      /\ (a + b) * c = a * c + b * c /\ (a + 1) * d = a * d + d
      /\ 0 * c = 0 /\ 0 * d = 0
  BY <1>1
<1>3. a <= b => a * c <= b * c
  BY <1>1
<1>4. b + 1 <= a => (b + 1) * c <= a * c
  BY <1>1
<1>5. (b + 1) * c = b * c + c
  BY <1>1
<1>6. a <= b <=> a * c <= b * c
  <2>1. b * c \in Nat /\ a * c \in Nat
    BY <1>1
  <2> QED BY <1>1, <1>3, <1>4, <1>5, <2>1
<1> QED BY <1>2, <1>6

\* The cost model's choice is of the least score.
LEMMA CostModelIsLeast ==
  ASSUME GateInv, GP!BeliefFits, GP!TypeOK, NEW m \in Conversations
  PROVE  /\ P!CostModelPolicy(Tokens(m)) \in DOMAIN replicas
         /\ \A s \in DOMAIN replicas : P!Score(Tokens(m), P!CostModelPolicy(Tokens(m)))
                                         <= P!Score(Tokens(m), s)
<1> PICK p : p = Tokens(m)
  OBVIOUS
<1>1. FleetCounted
  BY WhatPoliciesRead DEF FleetCounted
<1>2. \A s \in DOMAIN replicas : P!Score(p, s) \in Nat
  <2> TAKE s \in DOMAIN replicas
  <2>1. /\ P!Hit(p, s) \in 0 .. Len(p) /\ Len(p) \in Nat
        /\ replicas[s].in_flight \in Nat /\ replicas[s].pending_prefill_tokens \in Nat
    BY WhatPoliciesRead
  <2>2. Len(p) - P!Hit(p, s) \in Nat
    BY <2>1
  <2>3. /\ replicas[s].pending_prefill_tokens * prefill_per_token \in Nat
        /\ replicas[s].in_flight * decode_interference \in Nat
        /\ (Len(p) - P!Hit(p, s)) * prefill_per_token \in Nat
    BY <2>1, <2>2, Costs
  <2> QED BY <2>3 DEF P!Score, P!QueueDelay
<1> DEFINE scores == {P!Score(p, s) : s \in DOMAIN replicas}
           C      == {r \in DOMAIN replicas :
                        \A s \in DOMAIN replicas : P!Score(p, r) <= P!Score(p, s)}
<1>3. scores \subseteq Nat /\ scores # {}
  BY <1>1, <1>2 DEF FleetCounted
<1>4. PICK n \in scores : \A k \in scores : n <= k
  <2> HIDE DEF scores
  <2> QED BY <1>3, LeastNat
<1>5. C # {}
  BY <1>4
<1>6. P!Tiebreak(C) \in C
  <2>1. C \subseteq DOMAIN replicas
    OBVIOUS
  <2> HIDE DEF C
  <2> QED BY <1>1, <1>5, <2>1, TiebreakIsCandidate
<1>7. P!CostModelPolicy(p) = P!Tiebreak(C)
  BY DEF P!CostModelPolicy
<1> QED BY <1>6, <1>7

\* With nothing in flight anywhere, the cost model routes as pure affinity does
\* (CostModelPolicy, PureAffinity).
THEOREM IdleCostModelIsAlwaysAffinity == Spec => []IdleCostModelIsAffinity
<1>1. GateInv /\ GP!BeliefFits /\ GP!TypeOK => IdleCostModelIsAffinity
  <2> SUFFICES ASSUME GateInv, GP!BeliefFits, GP!TypeOK, NEW m \in Conversations,
                      \A r \in DOMAIN replicas :
                        replicas[r].in_flight = 0 /\ replicas[r].pending_prefill_tokens = 0
               PROVE  P!CostModelPolicy(Tokens(m)) = P!PureAffinity(Tokens(m))
    BY DEF IdleCostModelIsAffinity, Prompts
  <2> PICK p : p = Tokens(m)
    OBVIOUS
  <2>1. /\ DOMAIN replicas \subseteq Replicas /\ Len(p) \in Nat
        /\ \A r \in Replicas : P!Hit(p, r) \in 0 .. Len(p)
                               /\ (P!Hit(p, r) > 0 => r \in DOMAIN replicas)
    BY WhatPoliciesRead
  <2>2. \A r \in DOMAIN replicas : P!Score(p, r) = (Len(p) - P!Hit(p, r)) * prefill_per_token
    <3> TAKE r \in DOMAIN replicas
    <3>1. P!QueueDelay(r) = 0
      <4>1. 0 * prefill_per_token = 0 /\ 0 * decode_interference = 0
        BY Costs
      <4> QED BY <4>1 DEF P!QueueDelay
    <3>2. Len(p) - P!Hit(p, r) \in Nat
      BY <2>1
    <3>3. (Len(p) - P!Hit(p, r)) * prefill_per_token \in Nat
      BY <3>2, Costs
    <3> QED BY <3>1, <3>3 DEF P!Score
  <2>3. ASSUME NEW r \in DOMAIN replicas, NEW s \in DOMAIN replicas
        PROVE  P!Score(p, r) <= P!Score(p, s) <=> P!Hit(p, s) <= P!Hit(p, r)
    <3> PICK a, b : a = Len(p) - P!Hit(p, r) /\ b = Len(p) - P!Hit(p, s)
      OBVIOUS
    <3>1. a \in Nat /\ b \in Nat /\ (a <= b <=> P!Hit(p, s) <= P!Hit(p, r))
      BY <2>1
    <3>2. a <= b <=> a * prefill_per_token <= b * prefill_per_token
      BY <3>1, Costs
    <3>3. P!Score(p, r) = a * prefill_per_token /\ P!Score(p, s) = b * prefill_per_token
      BY <2>2
    <3> QED BY <3>1, <3>2, <3>3
  <2> DEFINE cached == {r \in Replicas : P!Hit(p, r) > 0}
             best   == {r \in DOMAIN replicas :
                          \A s \in DOMAIN replicas : P!Hit(p, s) <= P!Hit(p, r)}
  <2>4. P!CostModelPolicy(p) = P!Tiebreak(best)
    <3>1. {r \in DOMAIN replicas :
             \A s \in DOMAIN replicas : P!Score(p, r) <= P!Score(p, s)} = best
      BY <2>3
    <3> QED BY <3>1 DEF P!CostModelPolicy
  <2>5. CASE cached = {}
    <3>1. \A r \in DOMAIN replicas : P!Hit(p, r) = 0
      BY <2>1, <2>5
    <3>2. best = DOMAIN replicas
      BY <3>1
    <3>3. P!PureAffinity(p) = P!Tiebreak(DOMAIN replicas)
      BY <2>5 DEF P!PureAffinity
    <3> QED BY <2>4, <3>2, <3>3
  <2>6. CASE cached # {}
    <3> DEFINE most == {r \in cached : \A s \in cached : P!Hit(p, s) <= P!Hit(p, r)}
    <3>1. best \subseteq most
      <4> SUFFICES ASSUME NEW r \in best PROVE r \in most
        OBVIOUS
      <4>1. PICK s \in cached : TRUE
        BY <2>6
      <4>2. s \in DOMAIN replicas /\ P!Hit(p, s) > 0 /\ P!Hit(p, s) \in Nat
        BY <2>1, <4>1
      <4>3. r \in Replicas /\ P!Hit(p, r) \in Nat /\ P!Hit(p, s) <= P!Hit(p, r)
        BY <2>1, <4>2
      <4>4. \A t \in cached : t \in DOMAIN replicas
        BY <2>1
      <4> QED BY <4>2, <4>3, <4>4
    <3>2. most \subseteq best
      <4> SUFFICES ASSUME NEW r \in most PROVE r \in best
        OBVIOUS
      <4>1. r \in cached /\ \A s \in cached : P!Hit(p, s) <= P!Hit(p, r)
        OBVIOUS
      <4>2. r \in DOMAIN replicas /\ P!Hit(p, r) \in Nat
        BY <2>1, <4>1
      <4>3. ASSUME NEW s \in DOMAIN replicas PROVE P!Hit(p, s) <= P!Hit(p, r)
        <5>1. CASE s \in cached
          BY <4>1, <5>1
        <5>2. CASE s \notin cached
          <6>1. P!Hit(p, s) \in Nat /\ ~(P!Hit(p, s) > 0)
            BY <2>1, <5>2
          <6> QED BY <4>2, <6>1
        <5> QED BY <5>1, <5>2
      <4> QED BY <4>2, <4>3
    <3>3. best = most
      <4> HIDE DEF best, most
      <4> QED BY <3>1, <3>2
    <3>4. P!PureAffinity(p) = P!Tiebreak(most)
      BY <2>6 DEF P!PureAffinity
    <3> QED BY <2>4, <3>3, <3>4
  <2> QED BY <2>5, <2>6
<1> QED BY <1>1, GateInvAlways, GatewayLoadAlways, PTL

LEMMA LongestAllowed ==
  \A n1, n2, n3, n4, n5, n6, n7, n8 \in Nat :
    n1 + n3 + n2 <= n4 + n6 + n5 /\ n5 <= n7
      => (n1 + n2) + (n3 + n8) <= n4 + n6 + n7 + n8
OBVIOUS

\* The cost model never lengthens a queue past what any other replica's would
\* have become with the whole prompt to prefill (CostModelPolicy, dispatch).
THEOREM CostModelAlwaysBalances == Spec => CostModelBalances
<1> DEFINE Balanced ==
      policy = "cost_model" => \A q \in DOMAIN open' \ DOMAIN open :
        \A r, s \in DOMAIN replicas : r = open'[q].replica_id =>
          P!QueueDelay(r)' <=
            P!QueueDelay(s) + Len(open'[q].tokens) * prefill_per_token + decode_interference
<1>1. GateInv /\ GP!BeliefFits /\ GP!TypeOK /\ [Next]_vars => [Balanced]_vars
  <2> SUFFICES ASSUME GateInv, GP!BeliefFits, GP!TypeOK, Next
               PROVE  Balanced
    OBVIOUS
  <2>1. ASSUME NEW q \in Requests, NEW messages \in Conversations, NEW stream \in BOOLEAN,
               Route(q, messages, stream), policy = "cost_model",
               NEW s \in DOMAIN replicas, NEW r, r = open'[q].replica_id
        PROVE  P!QueueDelay(r)' <=
                 P!QueueDelay(s) + Len(open'[q].tokens) * prefill_per_token + decode_interference
    <3> PICK tokens : tokens = Tokens(messages)
      OBVIOUS
    <3>1. /\ F!Dispatch(q, Choose(tokens), tokens)
          /\ Choose(tokens) = P!CostModelPolicy(tokens)
      BY <2>1 DEF Route, Choose
    <3>2. open'[q].replica_id = Choose(tokens) /\ open'[q].tokens = tokens
      BY <3>1 DEF F!Dispatch, F!Put
    <3>3. r = P!CostModelPolicy(tokens) /\ r = Choose(tokens)
      BY <2>1, <3>1, <3>2
    <3>4. r \in DOMAIN replicas /\ P!Score(tokens, r) <= P!Score(tokens, s)
      BY <3>3, CostModelIsLeast
    <3> PICK hr, hs, len, f, t, f2, t2 :
          /\ hr = P!Hit(tokens, r) /\ hs = P!Hit(tokens, s) /\ len = Len(tokens)
          /\ f = replicas[r].in_flight /\ t = replicas[r].pending_prefill_tokens
          /\ f2 = replicas[s].in_flight /\ t2 = replicas[s].pending_prefill_tokens
      OBVIOUS
    <3>5. /\ len \in Nat /\ hr \in 0 .. len /\ hs \in 0 .. len
          /\ f \in Nat /\ t \in Nat /\ f2 \in Nat /\ t2 \in Nat
          /\ F!Cached(tokens, r) = hr
      BY <3>4, WhatPoliciesRead
    <3>6. replicas'[r] = [in_flight |-> f + 1, pending_prefill_tokens |-> t + (len - hr)]
      BY <3>1, <3>3, <3>4, <3>5 DEF F!Dispatch, F!Uncached
    <3>7. P!QueueDelay(r)' =
            (t + (len - hr)) * prefill_per_token + (f + 1) * decode_interference
      BY <3>6 DEF P!QueueDelay
    <3>8. len - hr \in Nat /\ len - hs \in Nat /\ len - hs <= len
      BY <3>5
    <3> PICK c : c = prefill_per_token
      OBVIOUS
    <3> PICK d : d = decode_interference
      OBVIOUS
    <3> PICK ur, us : ur = len - hr /\ us = len - hs
      OBVIOUS
    <3>9. PICK x, y, z, u, v, w, e :
            /\ x = t * c /\ y = ur * c /\ z = f * d
            /\ u = t2 * c /\ v = us * c /\ w = f2 * d /\ e = len * c
      OBVIOUS
    <3>10. /\ x \in Nat /\ y \in Nat /\ u \in Nat /\ v \in Nat /\ e \in Nat
           /\ (t + ur) * c = x + y /\ v <= e
      BY <3>5, <3>8, <3>9, Costs
    <3>11. z \in Nat /\ w \in Nat /\ (f + 1) * d = z + d /\ d \in Nat
      BY <3>5, <3>9, Costs, CostAssumption
    <3>12. P!QueueDelay(s) = u + w
      BY <3>9 DEF P!QueueDelay
    <3>13. x + z + y <= u + w + v
      BY <3>4, <3>9, <3>12 DEF P!Score, P!QueueDelay
    <3>14. P!QueueDelay(r)' = (x + y) + (z + d)
      BY <3>7, <3>9, <3>10, <3>11
    <3>15. Len(open'[q].tokens) * prefill_per_token = e
      BY <3>2, <3>9
    <3>16. (x + y) + (z + d) <= u + w + e + d
      BY <3>10, <3>11, <3>13, LongestAllowed
    <3> QED BY <3>12, <3>14, <3>15, <3>16
  <2>2. ASSUME NEW q \in Requests, NEW messages \in Conversations, NEW stream \in BOOLEAN,
               Route(q, messages, stream)
        PROVE  Balanced
    <3>1. DOMAIN open' = DOMAIN open \cup {q}
      BY <2>2 DEF Route, F!Dispatch, F!Put
    <3> QED BY <2>1, <2>2, <3>1
  <2>3. CASE DOMAIN open' \subseteq DOMAIN open
    BY <2>3
  <2>4. ASSUME NEW q \in Requests, Finish(q) \/ Fail(q) \/ Reject(q) \/ StartStream(q) \/ Abandon(q)
        PROVE  DOMAIN open' \subseteq DOMAIN open
    BY <2>4 DEF Finish, Fail, F!Complete, F!Drop, Reject, StartStream, Abandon, fleetVars
  <2>5. ASSUME Enforce \/ Idle
        PROVE  DOMAIN open' \subseteq DOMAIN open
    BY <2>5 DEF Enforce, F!Enforce, Idle, vars
  <2> QED BY <2>2, <2>3, <2>4, <2>5 DEF Next, Answered
<1> QED BY <1>1, GateInvAlways, GatewayLoadAlways, PTL DEF Spec, CostModelBalances

----------------------------------------------------------------------------
LEMMA MinOfTwo ==
  ASSUME NEW a \in Int, NEW b \in Int
  PROVE  Min({a, b}) \in Int /\ Min({a, b}) <= a /\ Min({a, b}) <= b
<1>1. \E x \in {a, b} : \A y \in {a, b} : x <= y
  OBVIOUS
<1>2. Min({a, b}) \in {a, b} /\ \A y \in {a, b} : Min({a, b}) <= y
  BY <1>1 DEF Min
<1> QED BY <1>2

\* What a replica is believed to hold of one turn of a conversation serves the
\* next, all but the token that the end of the shorter text cut off, for any
\* conversation, whatever has been routed, evicted and touched in between
\* (render_messages "has to be prefix-preserving", encode, match).
THEOREM NextTurnIsAlwaysServed == Spec => []NextTurnIsServed
<1>1. GateInv /\ GP!BeliefFits /\ GP!TypeOK => NextTurnIsServed
  <2> SUFFICES ASSUME GateInv, GP!BeliefFits, GP!TypeOK,
                      NEW m \in Conversations, NEW n \in Conversations,
                      NEW r \in DOMAIN replicas, IsStrictPrefix(m, n)
               PROVE  F!Cached(Tokens(n), r) >=
                        Min({F!Cached(Tokens(m), r),
                             Usable(Len(render_messages(m)) \div Fold, prefix_match_unit)})
    BY DEF NextTurnIsServed
  <2> PICK s, t : s = render_messages(m) /\ t = render_messages(n)
    OBVIOUS
  <2> PICK p, q : p = Tokens(m) /\ q = Tokens(n)
    OBVIOUS
  <2> PICK whole : whole = Len(s) \div Fold
    OBVIOUS
  <2>1. s \in Seq(Nat) /\ t \in Seq(Nat) /\ IsPrefix(s, t)
    <3>1. m \in Messages(Nat) /\ n \in Messages(Nat) /\ IsPrefix(m, n)
          /\ marker \in [DOMAIN marker -> Seq(Nat)]
      BY TextAssumption DEF Messages, IsStrictPrefix
    <3> QED BY <3>1, RenderKeepsPrefixes
  <2>2. p = encode(s) /\ q = encode(t) /\ p \in Prompts /\ q \in Prompts
    BY DEF Tokens, Prompts
  <2>3. p \in Seq(Token) /\ q \in Seq(Token)
    BY <2>2, PromptsAreSequences
  <2>4. whole \in Nat
    BY <2>1, WholeFit
  <2>5. \A k \in 1 .. whole : k \in DOMAIN p /\ k \in DOMAIN q /\ p[k] = q[k]
    <3> TAKE k \in 1 .. whole
    <3>1. k \in DOMAIN encode(t) /\ encode(s)[k] = encode(t)[k]
      BY <2>1, EncodeKeepsPrefixes
    <3>2. k \in DOMAIN encode(s)
      BY <2>1, WholeToken
    <3> QED BY <2>2, <3>1, <3>2
  <2>6. whole <= Len(p) /\ whole <= Len(q)
    <3>1. /\ Len(p) \in Nat /\ DOMAIN p = 1 .. Len(p)
          /\ Len(q) \in Nat /\ DOMAIN q = 1 .. Len(q)
      BY <2>3, ElementsOfSeq
    <3>2. CASE whole = 0
      BY <3>1, <3>2
    <3>3. CASE whole # 0
      <4>1. whole \in 1 .. whole
        BY <2>4, <3>3
      <4>2. whole \in DOMAIN p /\ whole \in DOMAIN q
        BY <2>5, <4>1
      <4> QED BY <3>1, <4>2
    <3> QED BY <3>2, <3>3
  <2>7. r \in Replicas /\ F!Cached(p, r) = GP!Cached(p, r) /\ F!Cached(q, r) = GP!Cached(q, r)
    BY SameHit, BackendsAreReplicas DEF GateInv
  <2>8. \/ GP!Cached(p, r) <= GP!Cached(q, r)
        \/ GP!Usable(whole, prefix_match_unit) <= GP!Cached(q, r)
    BY <2>2, <2>4, <2>5, <2>6, <2>7 DEF GP!BeliefFits
  <2>9. GP!Usable(whole, prefix_match_unit) = Usable(whole, prefix_match_unit)
    BY DEF GP!Usable, Usable
  <2> PICK a, b, c : a = F!Cached(p, r) /\ b = F!Cached(q, r) /\ c = Usable(whole, prefix_match_unit)
    OBVIOUS
  <2>10. a \in Int /\ b \in Int /\ c \in Int
    <3>1. GP!Cached(p, r) \in 0 .. Len(p) /\ GP!Cached(q, r) \in 0 .. Len(q)
      BY <2>2, <2>7 DEF GP!BeliefFits
    <3>2. c \in Nat
      BY <2>4, GatewayAssumption, UsableGrows
    <3> QED BY <2>7, <3>1, <3>2
  <2>11. a <= b \/ c <= b
    BY <2>7, <2>8, <2>9
  <2>12. Min({a, c}) \in Int /\ Min({a, c}) <= a /\ Min({a, c}) <= c
    BY <2>10, MinOfTwo
  <2>13. b >= Min({a, c})
    BY <2>10, <2>11, <2>12
  <2> QED BY <2>13
<1> QED BY <1>1, GateInvAlways, GatewayLoadAlways, PTL
=============================================================================
