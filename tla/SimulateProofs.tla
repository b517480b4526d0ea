--------------------------- MODULE SimulateProofs ---------------------------
(***************************************************************************)
(* Theorems of Simulate: whatever arrives, joins and leaves, and whenever, *)
(* a replica prefills its requests one at a time, in the order they came,  *)
(* never rests while one waits, and loses none.  The fleet is one that     *)
(* Fleet describes, it counts what the queues hold, and a replica that     *)
(* comes back holds nothing.                                               *)
(***************************************************************************)
EXTENDS Simulate, SequenceTheorems, FiniteSetTheorems, RadixTreeFacts, TLAPS

Sent    == DOMAIN replica_of
Decoded == ToSet(decodes)
Done    == ToSet(outcomes)

\* The queues and counters are of the replicas that ever were members.
Shapes ==
  /\ F!Members \subseteq DOMAIN busy /\ DOMAIN busy \subseteq Replicas
  /\ replica_of \in Seq(DOMAIN busy) /\ Len(replica_of) <= MaxRequests
  /\ busy \in [DOMAIN busy -> BOOLEAN]
  /\ pending \in [DOMAIN busy -> Seq(Nat)]
  /\ decoding \in [DOMAIN busy -> Nat]
  /\ requests_per_replica \in [DOMAIN busy -> Nat]
  /\ decodes \in Seq(Nat) /\ outcomes \in Seq(Nat)

\* A request that has been sent is in one place, and only there.
Waiting(q) == q \in ToSet(pending[replica_of[q]])

Placed ==
  /\ \A r \in DOMAIN busy : \A q \in ToSet(pending[r]) : q \in Sent /\ replica_of[q] = r
  /\ prefills \subseteq Sent /\ Decoded \subseteq Sent /\ Done \subseteq Sent
  /\ \A q \in Sent : q \in prefills \/ q \in Decoded \/ q \in Done \/ Waiting(q)
  /\ \A q \in Sent : Waiting(q) => q \notin prefills /\ q \notin Decoded /\ q \notin Done
  /\ prefills \cap Decoded = {} /\ prefills \cap Done = {} /\ Decoded \cap Done = {}

\* The queue is in order of arrival, and a replica with one is at work.
Ascending(s) == \A i, j \in DOMAIN s : i < j => s[i] < s[j]

AtWork ==
  /\ \A r \in DOMAIN busy :
       /\ Ascending(pending[r])
       /\ pending[r] # <<>> => busy[r]
       /\ busy[r] <=> \E q \in prefills : replica_of[q] = r
  /\ \A p, q \in prefills : replica_of[p] = replica_of[q] => p = q

\* Of two requests to one replica, the later one is never further on.
Together(p, q) == replica_of[p] = replica_of[q]

AscendingEach(s) ==
  \A i, j \in DOMAIN s : i < j => s[i] # s[j] /\ (Together(s[i], s[j]) => s[i] < s[j])

InOrder ==
  /\ \A p, q \in Sent : p < q /\ Together(p, q) =>
       /\ q \in Done => p \in Done
       /\ q \in Decoded \cup prefills => p \in Done \cup Decoded
  /\ AscendingEach(decodes) /\ AscendingEach(outcomes)

LineInv == Shapes /\ Placed /\ AtWork /\ InOrder

----------------------------------------------------------------------------
\* Joining and leaving a queue.
LEMMA AppendSet ==
  ASSUME NEW S, NEW s \in Seq(S), NEW x \in S
  PROVE  /\ Append(s, x) \in Seq(S) /\ ToSet(Append(s, x)) = ToSet(s) \cup {x}
         /\ DOMAIN Append(s, x) = DOMAIN s \cup {Len(s) + 1}
         /\ Append(s, x)[Len(s) + 1] = x
         /\ \A i \in DOMAIN s : Append(s, x)[i] = s[i] /\ i < Len(s) + 1
         /\ DOMAIN s \subseteq Nat
<1> DEFINE t == Append(s, x)
<1>1. /\ t \in Seq(S) /\ Len(t) = Len(s) + 1 /\ t[Len(s) + 1] = x
      /\ \A i \in 1 .. Len(s) : t[i] = s[i]
  OBVIOUS
<1>2. DOMAIN t = 1 .. (Len(s) + 1) /\ DOMAIN s = 1 .. Len(s) /\ Len(s) \in Nat
  BY <1>1
<1> HIDE DEF t
<1>3. DOMAIN t = DOMAIN s \cup {Len(s) + 1}
  BY <1>2
<1>4. ToSet(t) = ToSet(s) \cup {x}
  BY <1>1, <1>2, <1>3 DEF ToSet
<1>5. \A i \in DOMAIN s : t[i] = s[i] /\ i < Len(s) + 1 /\ i \in Nat
  BY <1>1, <1>2
<1> QED BY <1>1, <1>3, <1>4, <1>5 DEF t

LEMMA TailSet ==
  ASSUME NEW S, NEW s \in Seq(S), s # <<>>,
         \A i, j \in DOMAIN s : i < j => s[i] # s[j]
  PROVE  /\ Tail(s) \in Seq(S) /\ Head(s) \in S /\ Head(s) \in ToSet(s) /\ Head(s) = s[1]
         /\ ToSet(Tail(s)) = ToSet(s) \ {Head(s)}
         /\ \A i \in DOMAIN Tail(s) : i + 1 \in DOMAIN s /\ 1 < i + 1 /\ Tail(s)[i] = s[i + 1]
         /\ DOMAIN Tail(s) \subseteq Nat
<1> DEFINE t == Tail(s)
<1>1. /\ t \in Seq(S) /\ Len(t) = Len(s) - 1 /\ Len(s) \in Nat /\ Len(s) > 0
      /\ \A i \in 1 .. Len(t) : t[i] = s[i + 1]
      /\ Head(s) = s[1]
  BY EmptySeq
<1>2. DOMAIN t = 1 .. (Len(s) - 1) /\ DOMAIN s = 1 .. Len(s)
  BY <1>1
<1> HIDE DEF t
<1>3. \A i \in DOMAIN t : i + 1 \in DOMAIN s /\ 1 < i + 1 /\ t[i] = s[i + 1] /\ i \in Nat
  BY <1>1, <1>2
<1>4. 1 \in DOMAIN s /\ Head(s) \in S /\ Head(s) \in ToSet(s)
  BY <1>1, <1>2 DEF ToSet
<1>5. ASSUME NEW x \in ToSet(t) PROVE x \in ToSet(s) \ {Head(s)}
  <2>1. PICK i \in DOMAIN t : x = t[i]
    BY DEF ToSet
  <2>2. x = s[i + 1] /\ i + 1 \in DOMAIN s /\ s[1] # s[i + 1]
    BY <1>3, <1>4, <2>1
  <2> QED BY <1>1, <2>2 DEF ToSet
<1>6. ASSUME NEW x \in ToSet(s) \ {Head(s)} PROVE x \in ToSet(t)
  <2>1. PICK i \in DOMAIN s : x = s[i]
    BY DEF ToSet
  <2>2. i # 1
    BY <1>1, <1>6, <2>1
  <2>3. i - 1 \in DOMAIN t /\ t[i - 1] = s[i]
    BY <1>1, <1>2, <2>1, <2>2
  <2> QED BY <2>1, <2>3 DEF ToSet
<1> QED BY <1>1, <1>3, <1>4, <1>5, <1>6 DEF t

LEMMA EmptyToSet == ToSet(<<>>) = {}
BY DEF ToSet

----------------------------------------------------------------------------
\* What the events do to the queues.

\* An arrival waits behind the others, or begins if there are none.
Arrived(r, q) ==
  /\ q = Len(replica_of) + 1 /\ q <= MaxRequests /\ r \in DOMAIN busy
  /\ replica_of' = Append(replica_of, r) /\ F!Members' = F!Members
  /\ requests_per_replica' = [requests_per_replica EXCEPT ![r] = @ + 1]
  /\ UNCHANGED decodeVars
  /\ \/ /\ busy[r] /\ UNCHANGED <<busy, prefills>>
        /\ pending' = [pending EXCEPT ![r] = Append(@, q)]
     \/ /\ ~busy[r] /\ pending[r] = <<>> /\ UNCHANGED pending
        /\ busy' = [busy EXCEPT ![r] = TRUE] /\ prefills' = prefills \cup {q}

LEMMA ArrivalArrives ==
  ASSUME LineInv, NEW r \in Replicas, NEW tokens, Arrival(r, tokens),
         NEW q, q = Len(replica_of) + 1
  PROVE  Arrived(r, q)
<1>1. /\ r \in F!Members /\ r \in DOMAIN busy
      /\ replica_of' = Append(replica_of, r) /\ UNCHANGED decodeVars
      /\ requests_per_replica' = [requests_per_replica EXCEPT ![r] = @ + 1]
      /\ StartNext(r, ~busy[r], Append(pending[r], q), prefills)
  BY DEF Arrival, Queued, LineInv, Shapes
<1>2. F!Members' = F!Members
  BY DEF Arrival, F!Dispatch, F!Members
<1>3. /\ busy \in [DOMAIN busy -> BOOLEAN] /\ pending \in [DOMAIN busy -> Seq(Nat)]
      /\ pending[r] # <<>> => busy[r]
      /\ q \in Nat
  BY <1>1 DEF LineInv, Shapes, AtWork
<1>4. q <= MaxRequests
  <2>1. Len(replica_of) \in Nat /\ Len(replica_of) < MaxRequests
    BY DEF LineInv, Shapes, Arrival
  <2> QED BY <2>1, SimulateAssumption
<1>5. Append(pending[r], q) # <<>>
  <2>1. pending[r] \in Seq(Nat)
    BY <1>1, <1>3
  <2> QED BY <1>3, <2>1, AppendProperties
<1>6. CASE busy[r]
  <2>1. /\ busy' = [busy EXCEPT ![r] = TRUE]
        /\ pending' = [pending EXCEPT ![r] = Append(pending[r], q)]
        /\ prefills' = prefills
    BY <1>1, <1>6 DEF StartNext, MayStart
  <2>2. busy' = busy
    BY <1>1, <1>3, <1>6, <2>1
  <2> QED BY <1>1, <1>2, <1>4, <1>6, <2>1, <2>2 DEF Arrived
<1>7. CASE ~busy[r]
  <2>1. pending[r] = <<>>
    BY <1>3, <1>7
  <2>2. Head(Append(pending[r], q)) = q /\ Tail(Append(pending[r], q)) = <<>>
    BY <1>3, <2>1
  <2>3. /\ busy' = [busy EXCEPT ![r] = TRUE]
        /\ pending' = [pending EXCEPT ![r] = <<>>]
        /\ prefills' = prefills \cup {q}
    BY <1>1, <1>5, <1>7, <2>2 DEF StartNext, MayStart
  <2>4. pending' = pending
    BY <1>3, <2>1, <2>3
  <2> QED BY <1>1, <1>2, <1>4, <1>7, <2>1, <2>3, <2>4 DEF Arrived
<1> QED BY <1>6, <1>7

\* A prefill that ends lets the next in the queue begin.
Prefilled(r, q) ==
  /\ q \in prefills /\ r = replica_of[q] /\ r \in DOMAIN busy
  /\ UNCHANGED <<outcomes, replica_of, requests_per_replica>> /\ F!Members' = F!Members
  /\ decodes' = Append(decodes, q) /\ decoding' = [decoding EXCEPT ![r] = @ + 1]
  /\ \/ /\ pending[r] = <<>> /\ UNCHANGED pending
        /\ busy' = [busy EXCEPT ![r] = FALSE] /\ prefills' = prefills \ {q}
     \/ /\ pending[r] # <<>> /\ pending' = [pending EXCEPT ![r] = Tail(@)]
        /\ UNCHANGED busy
        /\ prefills' = (prefills \ {q}) \cup {Head(pending[r])}

LEMMA SentTypes ==
  ASSUME LineInv
  PROVE  /\ Sent = 1 .. Len(replica_of) /\ Len(replica_of) \in Nat
         /\ \A q \in Sent : q \in Nat /\ q <= Len(replica_of) /\ replica_of[q] \in DOMAIN busy
BY DEF LineInv, Shapes, Sent

LEMMA PrefillDoneEnds ==
  ASSUME LineInv, NEW q, PrefillDone(q), NEW r, r = replica_of[q]
  PROVE  Prefilled(r, q)
<1>1. /\ q \in prefills /\ UNCHANGED <<fleetVars, outcomes, replica_of, requests_per_replica>>
      /\ decodes' = Append(decodes, q) /\ decoding' = [decoding EXCEPT ![r] = @ + 1]
      /\ StartNext(r, TRUE, pending[r], prefills \ {q})
  BY DEF PrefillDone
<1>2. r \in DOMAIN busy
  BY <1>1, SentTypes DEF LineInv, Placed
<1>3. F!Members' = F!Members
  BY <1>1 DEF fleetVars, F!Members
<1>4. /\ busy \in [DOMAIN busy -> BOOLEAN] /\ pending \in [DOMAIN busy -> Seq(Nat)]
      /\ busy[r]
  BY <1>1, <1>2 DEF LineInv, Shapes, AtWork
<1>5. CASE pending[r] = <<>>
  <2>1. /\ busy' = [busy EXCEPT ![r] = FALSE] /\ prefills' = prefills \ {q}
        /\ pending' = [pending EXCEPT ![r] = pending[r]]
    BY <1>1, <1>5 DEF StartNext, MayStart
  <2>2. pending' = pending
    BY <1>4, <2>1
  <2> QED BY <1>1, <1>2, <1>3, <1>5, <2>1, <2>2 DEF Prefilled
<1>6. CASE pending[r] # <<>>
  <2>1. /\ busy' = [busy EXCEPT ![r] = TRUE] /\ prefills' = (prefills \ {q}) \cup {Head(pending[r])}
        /\ pending' = [pending EXCEPT ![r] = Tail(pending[r])]
    BY <1>1, <1>6 DEF StartNext, MayStart
  <2>2. busy' = busy
    BY <1>4, <2>1
  <2> QED BY <1>1, <1>2, <1>3, <1>6, <2>1, <2>2 DEF Prefilled
<1> QED BY <1>5, <1>6

\* The end of a decode starts nothing: who does not work has nobody waiting.
Ended(r, q) ==
  /\ decodes # <<>> /\ q = Head(decodes) /\ r = replica_of[q] /\ r \in DOMAIN busy
  /\ UNCHANGED <<queueVars, replica_of, requests_per_replica>> /\ F!Members' = F!Members
  /\ decodes' = Tail(decodes) /\ decoding' = [decoding EXCEPT ![r] = @ - 1]
  /\ outcomes' = Append(outcomes, q)

LEMMA DecodesApart ==
  ASSUME LineInv
  PROVE  \A i, j \in DOMAIN decodes : i < j => decodes[i] # decodes[j]
BY DEF LineInv, InOrder, AscendingEach

LEMMA DecodeDoneEnds ==
  ASSUME LineInv, DecodeDone, NEW q, q = Head(decodes), NEW r, r = replica_of[q]
  PROVE  Ended(r, q)
<1>1. /\ decodes # <<>> /\ UNCHANGED <<replica_of, requests_per_replica>>
      /\ decodes' = Tail(decodes) /\ decoding' = [decoding EXCEPT ![r] = @ - 1]
      /\ outcomes' = Append(outcomes, q)
      /\ StartNext(r, ~busy[r], pending[r], prefills)
  BY DEF DecodeDone
<1>2. r \in DOMAIN busy
  <2>1. q \in Decoded
    BY <1>1, TailSet, DecodesApart DEF LineInv, Shapes, Decoded
  <2> QED BY <2>1, SentTypes DEF LineInv, Placed
<1>3. F!Members' = F!Members
  BY DEF DecodeDone, F!Complete, F!Members
<1>4. /\ busy \in [DOMAIN busy -> BOOLEAN] /\ pending \in [DOMAIN busy -> Seq(Nat)]
      /\ pending[r] # <<>> => busy[r]
  BY <1>2 DEF LineInv, Shapes, AtWork
<1>5. /\ prefills' = prefills /\ pending' = [pending EXCEPT ![r] = pending[r]]
      /\ busy' = [busy EXCEPT ![r] = busy[r]]
  <2>1. CASE busy[r]
    <3>1. busy' = [busy EXCEPT ![r] = TRUE] /\ busy[r] = TRUE
      BY <1>1, <1>2, <1>4, <2>1 DEF StartNext, MayStart
    <3> QED BY <1>1, <2>1, <3>1 DEF StartNext, MayStart
  <2>2. CASE ~busy[r]
    <3>1. busy' = [busy EXCEPT ![r] = FALSE] /\ busy[r] = FALSE
      BY <1>1, <1>2, <1>4, <2>2 DEF StartNext, MayStart
    <3> QED BY <1>1, <1>4, <2>2, <3>1 DEF StartNext, MayStart
  <2> QED BY <2>1, <2>2
<1>6. busy' = busy /\ pending' = pending
  BY <1>4, <1>5
<1> QED BY <1>1, <1>2, <1>3, <1>5, <1>6 DEF Ended, queueVars

----------------------------------------------------------------------------
\* An arrival keeps the line.
LEMMA ArrivedSent ==
  ASSUME LineInv, NEW r, NEW q, Arrived(r, q)
  PROVE  /\ Sent' = Sent \cup {q} /\ q \notin Sent /\ q \in Nat /\ \A p \in Sent : p < q
         /\ replica_of' \in Seq(DOMAIN busy)
         /\ replica_of'[q] = r /\ \A p \in Sent : replica_of'[p] = replica_of[p]
         /\ Decoded' = Decoded /\ Done' = Done
<1>1. replica_of \in Seq(DOMAIN busy) /\ r \in DOMAIN busy /\ q = Len(replica_of) + 1
      /\ replica_of' = Append(replica_of, r) /\ UNCHANGED <<decodes, outcomes>>
  BY DEF LineInv, Shapes, Arrived, decodeVars
<1>2. /\ replica_of' \in Seq(DOMAIN busy)
      /\ DOMAIN replica_of' = DOMAIN replica_of \cup {q} /\ replica_of'[q] = r
      /\ \A p \in DOMAIN replica_of : replica_of'[p] = replica_of[p] /\ p < q
  BY <1>1, AppendSet
<1>3. q \in Nat /\ \A p \in DOMAIN replica_of : p \in Nat
  BY <1>1
<1> QED BY <1>1, <1>2, <1>3 DEF Sent, Decoded, Done

LEMMA ArrivedShapes ==
  ASSUME LineInv, NEW r, NEW q, Arrived(r, q)
  PROVE  Shapes'
<1>1. q \in Nat /\ replica_of' \in Seq(DOMAIN busy) /\ r \in DOMAIN busy
  BY ArrivedSent DEF Arrived
<1>2. /\ DOMAIN busy' = DOMAIN busy /\ busy' \in [DOMAIN busy -> BOOLEAN]
      /\ pending' \in [DOMAIN busy -> Seq(Nat)]
  <2>1. pending[r] \in Seq(Nat)
    BY <1>1 DEF LineInv, Shapes
  <2>2. Append(pending[r], q) \in Seq(Nat)
    BY <1>1, <2>1
  <2> QED BY <1>1, <2>2 DEF LineInv, Shapes, Arrived
<1>3. requests_per_replica' \in [DOMAIN busy -> Nat]
  BY <1>1 DEF LineInv, Shapes, Arrived
<1>4. Len(replica_of') <= MaxRequests
  BY DEF LineInv, Shapes, Arrived
<1> QED BY <1>1, <1>2, <1>3, <1>4 DEF LineInv, Shapes, Arrived, decodeVars

\* The queue of r has q at its end, or else nobody waits and q begins.
LEMMA ArrivedQueue ==
  ASSUME LineInv, NEW r, NEW q, Arrived(r, q)
  PROVE  /\ \A s \in DOMAIN busy : s # r => pending'[s] = pending[s] /\ busy'[s] = busy[s]
         /\ busy'[r]
         /\ \/ /\ prefills' = prefills /\ ToSet(pending'[r]) = ToSet(pending[r]) \cup {q}
               /\ busy[r]
            \/ /\ prefills' = prefills \cup {q} /\ pending'[r] = <<>> /\ pending[r] = <<>>
               /\ ~busy[r]
         /\ Ascending(pending'[r])
<1>1. /\ r \in DOMAIN busy /\ q \in Nat /\ pending[r] \in Seq(Nat) /\ Ascending(pending[r])
      /\ busy \in [DOMAIN busy -> BOOLEAN] /\ pending \in [DOMAIN busy -> Seq(Nat)]
  BY ArrivedSent DEF Arrived, LineInv, Shapes, AtWork
<1>2. \A x \in ToSet(pending[r]) : x < q
  BY <1>1, ArrivedSent DEF LineInv, Placed
<1>3. CASE busy[r]
  <2>1. /\ UNCHANGED <<busy, prefills>> /\ pending' = [pending EXCEPT ![r] = Append(@, q)]
    BY <1>3 DEF Arrived
  <2>2. pending'[r] = Append(pending[r], q)
    BY <1>1, <2>1
  <2>3. /\ ToSet(pending'[r]) = ToSet(pending[r]) \cup {q}
        /\ DOMAIN pending'[r] = DOMAIN pending[r] \cup {Len(pending[r]) + 1}
        /\ pending'[r][Len(pending[r]) + 1] = q
        /\ \A i \in DOMAIN pending[r] :
             pending'[r][i] = pending[r][i] /\ i < Len(pending[r]) + 1 /\ i \in Nat
    <3> DEFINE s == pending[r]
    <3>1. s \in Seq(Nat) /\ q \in Nat
      BY <1>1
    <3> HIDE DEF s
    <3>2. /\ ToSet(Append(s, q)) = ToSet(s) \cup {q}
          /\ DOMAIN Append(s, q) = DOMAIN s \cup {Len(s) + 1}
          /\ Append(s, q)[Len(s) + 1] = q
          /\ \A i \in DOMAIN s : Append(s, q)[i] = s[i] /\ i < Len(s) + 1
          /\ DOMAIN s \subseteq Nat
      BY <3>1, AppendSet
    <3> QED BY <2>2, <3>2 DEF s
  <2>4. \A i \in DOMAIN pending[r] : pending[r][i] < q
    BY <1>2 DEF ToSet
  <2>5. Ascending(pending'[r])
    <3> SUFFICES ASSUME NEW i \in DOMAIN pending'[r], NEW j \in DOMAIN pending'[r], i < j
                 PROVE  pending'[r][i] < pending'[r][j]
      BY DEF Ascending
    <3>1. Len(pending[r]) \in Nat
      BY <1>1
    <3>2. i \in DOMAIN pending[r]
      BY <2>3, <3>1
    <3> QED BY <1>1, <2>3, <2>4, <3>2 DEF Ascending
  <2> QED BY <1>1, <1>3, <2>1, <2>3, <2>5
<1>4. CASE ~busy[r]
  <2>1. /\ pending[r] = <<>> /\ pending' = pending
        /\ busy' = [busy EXCEPT ![r] = TRUE] /\ prefills' = prefills \cup {q}
    BY <1>4 DEF Arrived
  <2> QED BY <1>1, <1>4, <2>1
<1> QED BY <1>3, <1>4

LEMMA ArrivedPlaced ==
  ASSUME LineInv, NEW r, NEW q, Arrived(r, q)
  PROVE  Placed'
<1>1. /\ Sent' = Sent \cup {q} /\ q \notin Sent
      /\ replica_of'[q] = r /\ \A p \in Sent : replica_of'[p] = replica_of[p]
      /\ Decoded' = Decoded /\ Done' = Done
  BY ArrivedSent
<1>2. /\ \A s \in DOMAIN busy : s # r => pending'[s] = pending[s]
      /\ \/ prefills' = prefills /\ ToSet(pending'[r]) = ToSet(pending[r]) \cup {q}
         \/ prefills' = prefills \cup {q} /\ ToSet(pending'[r]) = ToSet(pending[r])
  BY ArrivedQueue
<1>3. DOMAIN busy' = DOMAIN busy /\ r \in DOMAIN busy
  BY ArrivedShapes, ArrivedSent DEF Arrived, LineInv, Shapes
<1>4. Placed /\ \A p \in Sent : replica_of[p] \in DOMAIN busy
  BY SentTypes DEF LineInv
<1>5. \A s \in DOMAIN busy' : \A p \in ToSet(pending'[s]) : p \in Sent' /\ replica_of'[p] = s
  BY <1>1, <1>2, <1>3, <1>4 DEF Placed
<1>6. prefills' \subseteq Sent' /\ Decoded' \subseteq Sent' /\ Done' \subseteq Sent'
  BY <1>1, <1>2, <1>4 DEF Placed
<1>7. \A p \in Sent : Waiting(p)' <=> Waiting(p)
  BY <1>1, <1>2, <1>4 DEF Waiting, Placed
<1>8. Waiting(q)' <=> prefills' = prefills
  BY <1>1, <1>2, <1>3, <1>4 DEF Waiting, Placed
<1>9. ASSUME NEW p \in Sent'
      PROVE  /\ p \in prefills' \/ p \in Decoded' \/ p \in Done' \/ Waiting(p)'
             /\ Waiting(p)' => p \notin prefills' /\ p \notin Decoded' /\ p \notin Done'
  BY <1>1, <1>2, <1>4, <1>7, <1>8 DEF Placed
<1>10. prefills' \cap Decoded' = {} /\ prefills' \cap Done' = {} /\ Decoded' \cap Done' = {}
  BY <1>1, <1>2, <1>4 DEF Placed
<1> QED BY <1>5, <1>6, <1>9, <1>10 DEF Placed

LEMMA ArrivedAtWork ==
  ASSUME LineInv, NEW r, NEW q, Arrived(r, q)
  PROVE  AtWork'
<1>1. /\ q \notin Sent /\ prefills \subseteq Sent
      /\ replica_of'[q] = r /\ \A p \in Sent : replica_of'[p] = replica_of[p]
  BY ArrivedSent DEF LineInv, Placed
<1>2. /\ \A s \in DOMAIN busy : s # r => pending'[s] = pending[s] /\ busy'[s] = busy[s]
      /\ busy'[r]
      /\ \/ prefills' = prefills /\ busy[r]
         \/ prefills' = prefills \cup {q} /\ ~busy[r]
      /\ Ascending(pending'[r])
  BY ArrivedQueue
<1>3. DOMAIN busy' = DOMAIN busy /\ r \in DOMAIN busy
  BY ArrivedShapes, ArrivedSent DEF Arrived, LineInv, Shapes
<1>4. AtWork
  BY DEF LineInv
<1>5. ASSUME NEW s \in DOMAIN busy'
      PROVE  /\ Ascending(pending'[s])
             /\ pending'[s] # <<>> => busy'[s]
             /\ busy'[s] <=> \E p \in prefills' : replica_of'[p] = s
  BY <1>1, <1>2, <1>3, <1>4 DEF AtWork
<1>6. \A p, t \in prefills' : replica_of'[p] = replica_of'[t] => p = t
  BY <1>1, <1>2, <1>3, <1>4 DEF AtWork
<1> QED BY <1>5, <1>6 DEF AtWork

LEMMA ArrivedInOrder ==
  ASSUME LineInv, NEW r, NEW q, Arrived(r, q)
  PROVE  InOrder'
<1>1. /\ Sent' = Sent \cup {q} /\ q \notin Sent /\ q \in Nat /\ \A p \in Sent : p < q /\ p \in Nat
      /\ replica_of'[q] = r /\ \A p \in Sent : replica_of'[p] = replica_of[p]
      /\ Decoded' = Decoded /\ Done' = Done /\ UNCHANGED <<decodes, outcomes>>
  BY ArrivedSent, SentTypes DEF Arrived, decodeVars
<1>2. \/ prefills' = prefills
      \/ prefills' = prefills \cup {q} /\ pending[r] = <<>> /\ ~busy[r] /\ r \in DOMAIN busy
  BY ArrivedQueue DEF Arrived
<1>3. Placed /\ InOrder /\ AtWork
  BY DEF LineInv
<1>4. \A p, t \in Sent : Together(p, t)' <=> Together(p, t)
  BY <1>1 DEF Together
<1>5. ASSUME prefills' # prefills, NEW p \in Sent, replica_of[p] = r
      PROVE  p \in Done \cup Decoded
  BY <1>2, <1>3, <1>5, EmptyToSet DEF Placed, AtWork, Waiting
<1>6. ASSUME NEW p \in Sent', NEW t \in Sent', p < t, Together(p, t)'
      PROVE  /\ t \in Done' => p \in Done'
             /\ t \in Decoded' \cup prefills' => p \in Done' \cup Decoded'
  <2>1. CASE t \in Sent /\ p \in Sent
    BY <1>1, <1>2, <1>3, <1>4, <1>6, <2>1 DEF InOrder
  <2>2. CASE t = q /\ p \in Sent
    <3>1. replica_of[p] = r
      BY <1>1, <1>6, <2>2 DEF Together
    <3>2. t \notin Done /\ t \notin Decoded /\ t \notin prefills
      BY <1>1, <1>3, <2>2 DEF Placed
    <3> QED BY <1>1, <1>2, <1>5, <2>2, <3>1, <3>2
  <2>3. CASE p = q
    BY <1>1, <1>6, <2>3
  <2> QED BY <1>1, <2>1, <2>2, <2>3
<1>7. AscendingEach(decodes)' /\ AscendingEach(outcomes)'
  <2>1. /\ \A i \in DOMAIN decodes : decodes[i] \in Sent
        /\ \A i \in DOMAIN outcomes : outcomes[i] \in Sent
    BY <1>3 DEF Placed, Decoded, Done, ToSet
  <2> QED BY <1>1, <1>3, <1>4, <2>1 DEF InOrder, AscendingEach, Together
<1> QED BY <1>6, <1>7 DEF InOrder

----------------------------------------------------------------------------
\* The end of a prefill keeps the line.

\* Who waits at the head of a queue came first of those in it.
LEMMA HeadIsFirst ==
  ASSUME NEW s \in Seq(Nat), s # <<>>, Ascending(s)
  PROVE  /\ Head(s) \in ToSet(s) /\ Tail(s) \in Seq(Nat)
         /\ ToSet(Tail(s)) = ToSet(s) \ {Head(s)}
         /\ \A x \in ToSet(s) : Head(s) <= x
         /\ Ascending(Tail(s))
<1>1. \A i, j \in DOMAIN s : i < j => s[i] # s[j]
  <2>1. \A i \in DOMAIN s : s[i] \in Nat
    OBVIOUS
  <2> QED BY <2>1 DEF Ascending
<1>2. /\ Tail(s) \in Seq(Nat) /\ Head(s) \in Nat /\ Head(s) \in ToSet(s) /\ Head(s) = s[1]
      /\ ToSet(Tail(s)) = ToSet(s) \ {Head(s)}
      /\ \A i \in DOMAIN Tail(s) : i + 1 \in DOMAIN s /\ 1 < i + 1 /\ Tail(s)[i] = s[i + 1]
      /\ DOMAIN Tail(s) \subseteq Nat
  BY <1>1, TailSet
<1>3. ASSUME NEW x \in ToSet(s) PROVE Head(s) <= x
  <2>1. PICK i \in DOMAIN s : x = s[i]
    BY DEF ToSet
  <2>2. i = 1 \/ 1 < i
    BY <2>1
  <2>3. 1 \in DOMAIN s /\ s[1] \in Nat /\ s[i] \in Nat
    BY EmptySeq
  <2> QED BY <1>2, <2>1, <2>2, <2>3 DEF Ascending
<1>4. Ascending(Tail(s))
  <2> SUFFICES ASSUME NEW i \in DOMAIN Tail(s), NEW j \in DOMAIN Tail(s), i < j
               PROVE  Tail(s)[i] < Tail(s)[j]
    BY DEF Ascending
  <2>1. i \in Nat /\ j \in Nat
    BY <1>2
  <2> QED BY <1>2, <2>1 DEF Ascending
<1> QED BY <1>2, <1>3, <1>4

LEMMA PrefilledSent ==
  ASSUME LineInv, NEW r, NEW q, Prefilled(r, q)
  PROVE  /\ Sent' = Sent /\ replica_of' = replica_of /\ Done' = Done
         /\ q \in Sent /\ replica_of[q] = r /\ q \in prefills /\ busy[r] /\ r \in DOMAIN busy
         /\ decodes' \in Seq(Nat) /\ Decoded' = Decoded \cup {q}
         /\ DOMAIN decodes' = DOMAIN decodes \cup {Len(decodes) + 1}
         /\ decodes'[Len(decodes) + 1] = q
         /\ \A i \in DOMAIN decodes : decodes'[i] = decodes[i] /\ i < Len(decodes) + 1
         /\ DOMAIN decodes \subseteq Nat /\ Len(decodes) \in Nat
<1>1. q \in prefills /\ r = replica_of[q] /\ UNCHANGED <<outcomes, replica_of>>
      /\ decodes' = Append(decodes, q) /\ r \in DOMAIN busy
  BY DEF Prefilled
<1>2. q \in Sent /\ busy[r]
  BY <1>1 DEF LineInv, Placed, AtWork
<1>3. q \in Nat /\ decodes \in Seq(Nat) /\ Len(decodes) \in Nat
  BY <1>2, SentTypes DEF LineInv, Shapes
<1>4. /\ decodes' \in Seq(Nat) /\ ToSet(decodes') = ToSet(decodes) \cup {q}
      /\ DOMAIN decodes' = DOMAIN decodes \cup {Len(decodes) + 1}
      /\ decodes'[Len(decodes) + 1] = q
      /\ \A i \in DOMAIN decodes : decodes'[i] = decodes[i] /\ i < Len(decodes) + 1
      /\ DOMAIN decodes \subseteq Nat
  BY <1>1, <1>3, AppendSet
<1> QED BY <1>1, <1>2, <1>3, <1>4 DEF Sent, Decoded, Done

LEMMA PrefilledQueue ==
  ASSUME LineInv, NEW r, NEW q, Prefilled(r, q)
  PROVE  /\ \A s \in DOMAIN busy : s # r => pending'[s] = pending[s] /\ busy'[s] = busy[s]
         /\ pending'[r] \in Seq(Nat) /\ Ascending(pending'[r])
         /\ \/ /\ prefills' = prefills \ {q} /\ pending'[r] = <<>> /\ pending[r] = <<>>
               /\ ~busy'[r]
            \/ \E h \in ToSet(pending[r]) :
                 /\ prefills' = (prefills \ {q}) \cup {h}
                 /\ ToSet(pending'[r]) = ToSet(pending[r]) \ {h}
                 /\ \A x \in ToSet(pending[r]) : h <= x
                 /\ busy'[r]
<1>1. /\ r \in DOMAIN busy /\ busy[r] /\ pending[r] \in Seq(Nat) /\ Ascending(pending[r])
      /\ busy \in [DOMAIN busy -> BOOLEAN] /\ pending \in [DOMAIN busy -> Seq(Nat)]
  BY PrefilledSent DEF LineInv, Shapes, AtWork
<1>2. CASE pending[r] = <<>>
  <2>1. /\ pending' = pending /\ busy' = [busy EXCEPT ![r] = FALSE] /\ prefills' = prefills \ {q}
    BY <1>2 DEF Prefilled
  <2> QED BY <1>1, <1>2, <2>1
<1>3. CASE pending[r] # <<>>
  <2>1. /\ pending' = [pending EXCEPT ![r] = Tail(@)] /\ busy' = busy
        /\ prefills' = (prefills \ {q}) \cup {Head(pending[r])}
    BY <1>3 DEF Prefilled
  <2>2. pending'[r] = Tail(pending[r]) /\ \A s \in DOMAIN busy : s # r => pending'[s] = pending[s]
    BY <1>1, <2>1
  <2>3. /\ Head(pending[r]) \in ToSet(pending[r]) /\ Tail(pending[r]) \in Seq(Nat)
        /\ ToSet(Tail(pending[r])) = ToSet(pending[r]) \ {Head(pending[r])}
        /\ \A x \in ToSet(pending[r]) : Head(pending[r]) <= x
        /\ Ascending(Tail(pending[r]))
    BY <1>1, <1>3, HeadIsFirst
  <2> QED BY <1>1, <2>1, <2>2, <2>3
<1> QED BY <1>2, <1>3

LEMMA PrefilledShapes ==
  ASSUME LineInv, NEW r, NEW q, Prefilled(r, q)
  PROVE  Shapes' /\ DOMAIN busy' = DOMAIN busy
<1>1. DOMAIN busy' = DOMAIN busy /\ busy' \in [DOMAIN busy -> BOOLEAN]
  BY DEF LineInv, Shapes, Prefilled
<1>2. pending' \in [DOMAIN busy -> Seq(Nat)]
  <2>1. pending'[r] \in Seq(Nat)
    BY PrefilledQueue
  <2>2. CASE pending' = pending
    BY <2>2 DEF LineInv, Shapes
  <2>3. CASE pending' = [pending EXCEPT ![r] = Tail(@)]
    <3>1. pending'[r] = Tail(pending[r])
      BY <2>3 DEF LineInv, Shapes, Prefilled
    <3> QED BY <2>1, <2>3, <3>1 DEF LineInv, Shapes
  <2> QED BY <2>2, <2>3 DEF Prefilled
<1>3. decoding' \in [DOMAIN busy -> Nat]
  <2>1. decoding \in [DOMAIN busy -> Nat] /\ decoding' = [decoding EXCEPT ![r] = @ + 1]
        /\ r \in DOMAIN busy
    BY DEF LineInv, Shapes, Prefilled
  <2>2. decoding[r] + 1 \in Nat
    BY <2>1
  <2> QED BY <2>1, <2>2
<1> QED BY <1>1, <1>2, <1>3, PrefilledSent DEF LineInv, Shapes, Prefilled

LEMMA PrefilledPlaced ==
  ASSUME LineInv, NEW r, NEW q, Prefilled(r, q)
  PROVE  Placed'
<1>1. /\ Sent' = Sent /\ replica_of' = replica_of /\ Done' = Done
      /\ q \in Sent /\ replica_of[q] = r /\ q \in prefills /\ r \in DOMAIN busy
      /\ Decoded' = Decoded \cup {q}
  BY PrefilledSent
<1>2. /\ \A s \in DOMAIN busy : s # r => pending'[s] = pending[s]
      /\ \/ prefills' = prefills \ {q} /\ ToSet(pending'[r]) = ToSet(pending[r])
         \/ \E h \in ToSet(pending[r]) :
              /\ prefills' = (prefills \ {q}) \cup {h}
              /\ ToSet(pending'[r]) = ToSet(pending[r]) \ {h}
  BY PrefilledQueue
<1>3. DOMAIN busy' = DOMAIN busy
  BY PrefilledShapes
<1>4. Placed /\ \A p \in Sent : replica_of[p] \in DOMAIN busy
  BY SentTypes DEF LineInv
<1>5. ~Waiting(q) /\ q \notin Decoded /\ q \notin Done
  BY <1>1, <1>4 DEF Placed
<1>6. CASE prefills' = prefills \ {q} /\ ToSet(pending'[r]) = ToSet(pending[r])
  <2>1. \A p \in Sent : Waiting(p)' <=> Waiting(p)
    BY <1>1, <1>2, <1>4, <1>6 DEF Waiting
  <2>2. \A s \in DOMAIN busy' : \A p \in ToSet(pending'[s]) : p \in Sent' /\ replica_of'[p] = s
    BY <1>1, <1>2, <1>3, <1>4, <1>6 DEF Placed
  <2> QED BY <1>1, <1>4, <1>5, <1>6, <2>1, <2>2 DEF Placed
<1>7. ASSUME NEW h \in ToSet(pending[r]),
             prefills' = (prefills \ {q}) \cup {h}, ToSet(pending'[r]) = ToSet(pending[r]) \ {h}
      PROVE  Placed'
  <2>1. h \in Sent /\ replica_of[h] = r /\ Waiting(h)
    BY <1>1, <1>4 DEF Placed, Waiting
  <2>2. h \notin prefills /\ h \notin Decoded /\ h \notin Done /\ h # q
    BY <1>1, <1>4, <2>1 DEF Placed
  <2>3. ~Waiting(h)' /\ \A p \in Sent : p # h => (Waiting(p)' <=> Waiting(p))
    BY <1>1, <1>2, <1>4, <1>7, <2>1 DEF Waiting
  <2>4. \A s \in DOMAIN busy' : \A p \in ToSet(pending'[s]) : p \in Sent' /\ replica_of'[p] = s
    BY <1>1, <1>2, <1>3, <1>4, <1>7 DEF Placed
  <2>5. prefills' \subseteq Sent' /\ Decoded' \subseteq Sent' /\ Done' \subseteq Sent'
    BY <1>1, <1>4, <1>7, <2>1 DEF Placed
  <2>6. ASSUME NEW p \in Sent'
        PROVE  /\ p \in prefills' \/ p \in Decoded' \/ p \in Done' \/ Waiting(p)'
               /\ Waiting(p)' => p \notin prefills' /\ p \notin Decoded' /\ p \notin Done'
    BY <1>1, <1>4, <1>5, <1>7, <2>2, <2>3, <2>6 DEF Placed
  <2>7. prefills' \cap Decoded' = {} /\ prefills' \cap Done' = {} /\ Decoded' \cap Done' = {}
    BY <1>1, <1>4, <1>5, <1>7, <2>2 DEF Placed
  <2> QED BY <2>4, <2>5, <2>6, <2>7 DEF Placed
<1> QED BY <1>2, <1>6, <1>7

LEMMA PrefilledAtWork ==
  ASSUME LineInv, NEW r, NEW q, Prefilled(r, q)
  PROVE  AtWork'
<1>1. /\ replica_of' = replica_of /\ q \in prefills /\ replica_of[q] = r /\ r \in DOMAIN busy
      /\ DOMAIN busy' = DOMAIN busy
  BY PrefilledSent, PrefilledShapes
<1>2. AtWork /\ \A h \in ToSet(pending[r]) : replica_of[h] = r
  BY <1>1 DEF LineInv, Placed
<1>3. /\ \A s \in DOMAIN busy : s # r => pending'[s] = pending[s] /\ busy'[s] = busy[s]
      /\ Ascending(pending'[r])
      /\ \/ prefills' = prefills \ {q} /\ pending'[r] = <<>> /\ ~busy'[r]
         \/ \E h \in ToSet(pending[r]) : prefills' = (prefills \ {q}) \cup {h} /\ busy'[r]
  BY PrefilledQueue
<1>4. \A p \in prefills : p # q => replica_of[p] # r
  BY <1>1, <1>2 DEF AtWork
<1>5. ASSUME NEW s \in DOMAIN busy'
      PROVE  /\ Ascending(pending'[s])
             /\ pending'[s] # <<>> => busy'[s]
             /\ busy'[s] <=> \E p \in prefills' : replica_of'[p] = s
  BY <1>1, <1>2, <1>3, <1>4 DEF AtWork
<1>6. \A p, t \in prefills' : replica_of'[p] = replica_of'[t] => p = t
  BY <1>1, <1>2, <1>3, <1>4 DEF AtWork
<1> QED BY <1>5, <1>6 DEF AtWork

LEMMA PrefilledInOrder ==
  ASSUME LineInv, NEW r, NEW q, Prefilled(r, q)
  PROVE  InOrder'
<1>1. /\ Sent' = Sent /\ replica_of' = replica_of /\ Done' = Done /\ outcomes' = outcomes
      /\ q \in Sent /\ replica_of[q] = r /\ q \in prefills /\ r \in DOMAIN busy
      /\ Decoded' = Decoded \cup {q}
  BY PrefilledSent DEF Prefilled
<1>2. Placed /\ InOrder /\ AtWork /\ \A p \in Sent : p \in Nat
  BY SentTypes DEF LineInv
<1>3. \/ prefills' = prefills \ {q}
      \/ \E h \in ToSet(pending[r]) :
           /\ prefills' = (prefills \ {q}) \cup {h}
           /\ \A x \in ToSet(pending[r]) : h <= x
  BY PrefilledQueue
<1>4. q \notin Decoded /\ q \notin Done
  BY <1>1, <1>2 DEF Placed
<1>5. \A p \in prefills : replica_of[p] = r => p = q
  BY <1>1, <1>2 DEF AtWork
<1>6. ASSUME NEW p \in Sent, NEW t \in Sent, p < t, Together(p, t)
      PROVE  /\ t \in Done' => p \in Done'
             /\ t \in Decoded' \cup prefills' => p \in Done' \cup Decoded'
  <2>1. t \in Done' => p \in Done'
    BY <1>1, <1>2, <1>6 DEF InOrder
  <2>2. ASSUME t \in Decoded \cup prefills PROVE p \in Done' \cup Decoded'
    BY <1>1, <1>2, <1>6, <2>2 DEF InOrder
  <2>3. ASSUME t \notin Decoded \cup prefills, t \in prefills' PROVE p \in Done' \cup Decoded'
    <3>1. t \in ToSet(pending[r]) /\ \A x \in ToSet(pending[r]) : t <= x
      BY <1>3, <2>3
    <3>2. replica_of[p] = r
      BY <1>1, <1>2, <1>6, <3>1 DEF Placed, Together
    <3>3. ~Waiting(p)
      BY <1>2, <1>6, <3>1, <3>2 DEF Waiting
    <3> QED BY <1>1, <1>2, <1>5, <3>2, <3>3 DEF Placed
  <2> QED BY <1>1, <2>1, <2>2, <2>3
<1>7. AscendingEach(decodes)'
  <2>1. /\ DOMAIN decodes' = DOMAIN decodes \cup {Len(decodes) + 1}
        /\ decodes'[Len(decodes) + 1] = q
        /\ \A i \in DOMAIN decodes : decodes'[i] = decodes[i] /\ i < Len(decodes) + 1
        /\ DOMAIN decodes \subseteq Nat /\ Len(decodes) \in Nat
    BY PrefilledSent
  <2>2. ASSUME NEW i \in DOMAIN decodes
        PROVE  decodes[i] # q /\ (Together(decodes[i], q) => decodes[i] < q)
    <3>1. decodes[i] \in Decoded /\ decodes[i] \in Sent
      BY <1>2 DEF Placed, Decoded, ToSet
    <3>2. ~(q < decodes[i] /\ Together(q, decodes[i]))
      BY <1>1, <1>2, <1>4, <3>1 DEF InOrder
    <3> QED BY <1>1, <1>2, <1>4, <3>1, <3>2 DEF Together
  <2> SUFFICES ASSUME NEW i \in DOMAIN decodes', NEW j \in DOMAIN decodes', i < j
               PROVE  decodes'[i] # decodes'[j]
                      /\ (Together(decodes'[i], decodes'[j]) => decodes'[i] < decodes'[j])
    BY <1>1 DEF AscendingEach, Together
  <2>3. i \in DOMAIN decodes
    BY <2>1
  <2> QED BY <1>2, <2>1, <2>2, <2>3 DEF InOrder, AscendingEach
<1>8. AscendingEach(outcomes)'
  BY <1>1, <1>2 DEF InOrder, AscendingEach, Together
<1> QED BY <1>1, <1>6, <1>7, <1>8 DEF InOrder, Together

----------------------------------------------------------------------------
\* The end of a decode keeps the line.
LEMMA EndedSent ==
  ASSUME LineInv, NEW r, NEW q, Ended(r, q)
  PROVE  /\ Sent' = Sent /\ replica_of' = replica_of /\ q \in Sent /\ replica_of[q] = r
         /\ q \in Decoded /\ q \notin Done /\ r \in DOMAIN busy
         /\ Decoded' = Decoded \ {q} /\ Done' = Done \cup {q}
         /\ decodes' \in Seq(Nat) /\ q = decodes[1] /\ 1 \in DOMAIN decodes
         /\ \A i \in DOMAIN decodes' : i + 1 \in DOMAIN decodes /\ 1 < i + 1
                                       /\ decodes'[i] = decodes[i + 1] /\ i \in Nat
         /\ outcomes' \in Seq(Nat)
         /\ DOMAIN outcomes' = DOMAIN outcomes \cup {Len(outcomes) + 1}
         /\ outcomes'[Len(outcomes) + 1] = q
         /\ \A i \in DOMAIN outcomes : outcomes'[i] = outcomes[i] /\ i < Len(outcomes) + 1
         /\ DOMAIN outcomes \subseteq Nat /\ Len(outcomes) \in Nat
<1>1. /\ decodes # <<>> /\ q = Head(decodes) /\ r = replica_of[q] /\ r \in DOMAIN busy
      /\ replica_of' = replica_of /\ decodes' = Tail(decodes) /\ outcomes' = Append(outcomes, q)
      /\ decodes \in Seq(Nat) /\ outcomes \in Seq(Nat) /\ Len(outcomes) \in Nat
  BY DEF Ended, LineInv, Shapes
<1>2. /\ decodes' \in Seq(Nat) /\ q \in Nat /\ q \in Decoded /\ q = decodes[1]
      /\ ToSet(decodes') = ToSet(decodes) \ {q}
      /\ \A i \in DOMAIN decodes' : i + 1 \in DOMAIN decodes /\ 1 < i + 1
                                    /\ decodes'[i] = decodes[i + 1]
      /\ DOMAIN decodes' \subseteq Nat
  BY <1>1, DecodesApart, TailSet DEF Decoded
<1>3. /\ outcomes' \in Seq(Nat) /\ ToSet(outcomes') = ToSet(outcomes) \cup {q}
      /\ DOMAIN outcomes' = DOMAIN outcomes \cup {Len(outcomes) + 1}
      /\ outcomes'[Len(outcomes) + 1] = q
      /\ \A i \in DOMAIN outcomes : outcomes'[i] = outcomes[i] /\ i < Len(outcomes) + 1
      /\ DOMAIN outcomes \subseteq Nat
  BY <1>1, <1>2, AppendSet
<1>4. q \in Sent /\ q \notin Done
  BY <1>2 DEF LineInv, Placed
<1>5. 1 \in DOMAIN decodes
  BY <1>1, EmptySeq
<1> QED BY <1>1, <1>2, <1>3, <1>4, <1>5 DEF Sent, Decoded, Done

LEMMA EndedShapes ==
  ASSUME LineInv, NEW r, NEW q, Ended(r, q), decoding[r] > 0
  PROVE  Shapes' /\ DOMAIN busy' = DOMAIN busy
<1>1. decoding' \in [DOMAIN busy -> Nat]
  <2>1. decoding \in [DOMAIN busy -> Nat] /\ decoding' = [decoding EXCEPT ![r] = @ - 1]
        /\ r \in DOMAIN busy
    BY DEF LineInv, Shapes, Ended
  <2>2. decoding[r] - 1 \in Nat
    BY <2>1
  <2> QED BY <2>1, <2>2
<1> QED BY <1>1, EndedSent DEF LineInv, Shapes, Ended, queueVars

LEMMA EndedPlaced ==
  ASSUME LineInv, NEW r, NEW q, Ended(r, q)
  PROVE  Placed' /\ AtWork'
<1>1. /\ Sent' = Sent /\ replica_of' = replica_of /\ q \in Sent
      /\ q \in Decoded /\ q \notin Done
      /\ Decoded' = Decoded \ {q} /\ Done' = Done \cup {q}
      /\ UNCHANGED <<busy, pending, prefills>>
  BY EndedSent DEF Ended, queueVars
<1>2. Placed /\ AtWork /\ q \notin prefills /\ ~Waiting(q)
  BY <1>1 DEF LineInv, Placed
<1>3. \A p \in Sent : Waiting(p)' <=> Waiting(p)
  BY <1>1 DEF Waiting
<1>4. AtWork'
  BY <1>1, <1>2 DEF AtWork
<1>5. Placed'
  BY <1>1, <1>2, <1>3 DEF Placed
<1> QED BY <1>4, <1>5

LEMMA EndedInOrder ==
  ASSUME LineInv, NEW r, NEW q, Ended(r, q)
  PROVE  InOrder'
<1>1. /\ Sent' = Sent /\ replica_of' = replica_of /\ q \in Sent /\ replica_of[q] = r
      /\ q \in Decoded /\ q \notin Done /\ prefills' = prefills
      /\ Decoded' = Decoded \ {q} /\ Done' = Done \cup {q}
  BY EndedSent DEF Ended, queueVars
<1>2. Placed /\ InOrder /\ \A p \in Sent : p \in Nat
  BY SentTypes DEF LineInv
<1>3. ASSUME NEW p \in Decoded, p # q, Together(p, q)
      PROVE  q < p
  <2>1. PICK i \in DOMAIN decodes : p = decodes[i]
    BY DEF Decoded, ToSet
  <2>2. q = decodes[1] /\ 1 \in DOMAIN decodes /\ 1 < i
    <3>1. q = decodes[1] /\ 1 \in DOMAIN decodes
      BY EndedSent
    <3>2. i \in Nat \ {0}
      BY <2>1 DEF LineInv, Shapes
    <3> QED BY <1>3, <2>1, <3>1, <3>2
  <2> QED BY <1>2, <1>3, <2>1, <2>2 DEF InOrder, AscendingEach, Together
<1>4. ASSUME NEW p \in Sent, NEW t \in Sent, p < t, Together(p, t)
      PROVE  /\ t \in Done' => p \in Done'
             /\ t \in Decoded' \cup prefills' => p \in Done' \cup Decoded'
  <2>1. ASSUME t = q PROVE p \in Done'
    <3>1. p \in Done \cup Decoded
      BY <1>1, <1>2, <1>4, <2>1 DEF InOrder
    <3>2. p \notin Decoded
      <4>1. SUFFICES ASSUME p \in Decoded PROVE FALSE
        OBVIOUS
      <4>2. p \in Nat /\ q \in Nat /\ p < q /\ Together(p, q)
        BY <1>1, <1>2, <1>4, <2>1
      <4> QED BY <1>3, <4>1, <4>2
    <3> QED BY <1>1, <3>1, <3>2
  <2>2. t \in Done => p \in Done
    BY <1>2, <1>4 DEF InOrder
  <2>3. t \in Decoded \cup prefills => p \in Done \cup Decoded
    BY <1>2, <1>4 DEF InOrder
  <2> QED BY <1>1, <2>1, <2>2, <2>3
<1>5. AscendingEach(decodes)'
  <2> SUFFICES ASSUME NEW i \in DOMAIN decodes', NEW j \in DOMAIN decodes', i < j
               PROVE  decodes'[i] # decodes'[j]
                      /\ (Together(decodes'[i], decodes'[j]) => decodes'[i] < decodes'[j])
    BY <1>1 DEF AscendingEach, Together
  <2>1. /\ i + 1 \in DOMAIN decodes /\ decodes'[i] = decodes[i + 1] /\ i \in Nat
        /\ j + 1 \in DOMAIN decodes /\ decodes'[j] = decodes[j + 1] /\ j \in Nat
    BY EndedSent
  <2>2. i + 1 < j + 1
    BY <2>1
  <2> QED BY <1>2, <2>1, <2>2 DEF InOrder, AscendingEach
<1>6. AscendingEach(outcomes)'
  <2>1. /\ DOMAIN outcomes' = DOMAIN outcomes \cup {Len(outcomes) + 1}
        /\ outcomes'[Len(outcomes) + 1] = q
        /\ \A i \in DOMAIN outcomes : outcomes'[i] = outcomes[i] /\ i < Len(outcomes) + 1
        /\ DOMAIN outcomes \subseteq Nat /\ Len(outcomes) \in Nat
    BY EndedSent
  <2>2. ASSUME NEW i \in DOMAIN outcomes
        PROVE  outcomes[i] # q /\ (Together(outcomes[i], q) => outcomes[i] < q)
    <3>1. outcomes[i] \in Done /\ outcomes[i] \in Sent
      BY <1>2 DEF Placed, Done, ToSet
    <3>2. ~(q < outcomes[i] /\ Together(q, outcomes[i]))
      BY <1>1, <1>2, <3>1 DEF InOrder
    <3> QED BY <1>1, <1>2, <3>1, <3>2 DEF Together
  <2> SUFFICES ASSUME NEW i \in DOMAIN outcomes', NEW j \in DOMAIN outcomes', i < j
               PROVE  outcomes'[i] # outcomes'[j]
                      /\ (Together(outcomes'[i], outcomes'[j]) => outcomes'[i] < outcomes'[j])
    BY <1>1 DEF AscendingEach, Together
  <2>3. i \in DOMAIN outcomes
    BY <2>1
  <2> QED BY <1>2, <2>1, <2>2, <2>3 DEF InOrder, AscendingEach
<1> QED BY <1>1, <1>4, <1>5, <1>6 DEF InOrder, Together
----------------------------------------------------------------------------
\* What churn does to the queues: a replica that joins gets those its id lacks,
\* and one that leaves keeps its own.
Joined(r) ==
  /\ r \in Replicas /\ F!Members' \subseteq F!Members \cup {r}
  /\ UNCHANGED <<prefills, decodes, outcomes, replica_of>>
  /\ DOMAIN busy' = DOMAIN busy \cup {r}
  /\ busy' \in [DOMAIN busy' -> BOOLEAN] /\ pending' \in [DOMAIN busy' -> Seq(Nat)]
  /\ decoding' \in [DOMAIN busy' -> Nat] /\ requests_per_replica' \in [DOMAIN busy' -> Nat]
  /\ \A s \in DOMAIN busy :
       /\ busy'[s] = busy[s] /\ pending'[s] = pending[s] /\ decoding'[s] = decoding[s]
       /\ requests_per_replica'[s] = requests_per_replica[s]
  /\ r \notin DOMAIN busy =>
       /\ ~busy'[r] /\ pending'[r] = <<>> /\ decoding'[r] = 0
       /\ requests_per_replica'[r] = 0

LEMMA JoinJoins ==
  ASSUME LineInv, NEW r \in Replicas, Join(r)
  PROVE  Joined(r)
<1>1. /\ busy' = SetDefault(busy, r, FALSE) /\ pending' = SetDefault(pending, r, <<>>)
      /\ decoding' = SetDefault(decoding, r, 0)
      /\ requests_per_replica' = SetDefault(requests_per_replica, r, 0)
      /\ UNCHANGED <<prefills, decodes, outcomes, replica_of>>
  BY DEF Join, decodeVars
<1>2. F!Members' \subseteq F!Members \cup {r}
  BY DEF Join, F!AddReplica, F!SetDefault, F!Put, F!Members
<1>3. /\ busy \in [DOMAIN busy -> BOOLEAN] /\ pending \in [DOMAIN busy -> Seq(Nat)]
      /\ decoding \in [DOMAIN busy -> Nat] /\ requests_per_replica \in [DOMAIN busy -> Nat]
  BY DEF LineInv, Shapes
<1>4. CASE r \in DOMAIN busy
  <2>1. UNCHANGED <<busy, pending, decoding, requests_per_replica>>
    BY <1>1, <1>3, <1>4 DEF SetDefault
  <2> QED BY <1>1, <1>2, <1>3, <1>4, <2>1 DEF Joined
<1>5. CASE r \notin DOMAIN busy
  <2>1. /\ busy' = Put(busy, r, FALSE) /\ pending' = Put(pending, r, <<>>)
        /\ decoding' = Put(decoding, r, 0)
        /\ requests_per_replica' = Put(requests_per_replica, r, 0)
    BY <1>1, <1>3, <1>5 DEF SetDefault
  <2>2. <<>> \in Seq(Nat)
    OBVIOUS
  <2>3. DOMAIN busy' = DOMAIN busy \cup {r} /\ busy' \in [DOMAIN busy \cup {r} -> BOOLEAN]
    BY <1>3, <2>1 DEF Put
  <2>4. pending' \in [DOMAIN busy \cup {r} -> Seq(Nat)]
    BY <1>3, <2>1, <2>2 DEF Put
  <2>5. decoding' \in [DOMAIN busy \cup {r} -> Nat]
        /\ requests_per_replica' \in [DOMAIN busy \cup {r} -> Nat]
    BY <1>3, <2>1 DEF Put
  <2>6. /\ \A s \in DOMAIN busy :
             /\ busy'[s] = busy[s] /\ pending'[s] = pending[s] /\ decoding'[s] = decoding[s]
             /\ requests_per_replica'[s] = requests_per_replica[s]
        /\ ~busy'[r] /\ pending'[r] = <<>> /\ decoding'[r] = 0 /\ requests_per_replica'[r] = 0
    BY <1>3, <1>5, <2>1 DEF Put
  <2> QED BY <1>1, <1>2, <2>3, <2>4, <2>5, <2>6 DEF Joined
<1> QED BY <1>4, <1>5

LEMMA JoinedKeeps ==
  ASSUME LineInv, NEW r, Joined(r)
  PROVE  LineInv'
<1>1. /\ UNCHANGED <<prefills, decodes, outcomes, replica_of>>
      /\ Sent' = Sent /\ Decoded' = Decoded /\ Done' = Done
      /\ DOMAIN busy' = DOMAIN busy \cup {r}
      /\ \A s \in DOMAIN busy : busy'[s] = busy[s] /\ pending'[s] = pending[s]
      /\ r \notin DOMAIN busy => ~busy'[r] /\ pending'[r] = <<>>
  BY DEF Joined, Sent, Decoded, Done
<1>2. \A q \in Sent : replica_of[q] \in DOMAIN busy
  BY SentTypes
<1>3. Placed /\ AtWork /\ InOrder
  BY DEF LineInv
<1>4. Shapes'
  <2>1. replica_of \in Seq(DOMAIN busy)
    BY DEF LineInv, Shapes
  <2>2. replica_of' \in Seq(DOMAIN busy')
    BY <1>1, <2>1
  <2> QED BY <2>2 DEF LineInv, Shapes, Joined
<1>5. \A q \in Sent : Waiting(q)' <=> Waiting(q)
  BY <1>1, <1>2 DEF Waiting
<1>6. Placed'
  <2>1. \A s \in DOMAIN busy' : \A q \in ToSet(pending'[s]) : q \in Sent' /\ replica_of'[q] = s
    BY <1>1, <1>3, EmptyToSet DEF Placed
  <2> QED BY <1>1, <1>3, <1>5, <2>1 DEF Placed
<1>7. AtWork'
  <2>1. ASSUME NEW s \in DOMAIN busy'
        PROVE  /\ Ascending(pending'[s])
               /\ pending'[s] # <<>> => busy'[s]
               /\ busy'[s] <=> \E q \in prefills' : replica_of'[q] = s
    <3>1. CASE s \in DOMAIN busy
      BY <1>1, <1>3, <3>1 DEF AtWork
    <3>2. CASE s \notin DOMAIN busy
      <4>1. ~busy'[s] /\ pending'[s] = <<>>
        BY <1>1, <3>2
      <4>2. \A q \in prefills' : replica_of'[q] # s
        BY <1>1, <1>2, <1>3, <3>2 DEF Placed
      <4> QED BY <4>1, <4>2 DEF Ascending
    <3> QED BY <3>1, <3>2
  <2> QED BY <1>1, <1>3, <2>1 DEF AtWork
<1>8. InOrder'
  BY <1>1, <1>3 DEF InOrder, AscendingEach, Together
<1> QED BY <1>4, <1>6, <1>7, <1>8 DEF LineInv

Still ==
  /\ UNCHANGED <<queueVars, decodeVars, replica_of, requests_per_replica>>
  /\ F!Members' \subseteq F!Members

LEMMA OthersLeaveAlone ==
  ASSUME ArrivalFails \/ (\E r \in Replicas : Leave(r)) \/ Enforce \/ UNCHANGED vars
  PROVE  Still
<1>1. CASE ArrivalFails
  BY <1>1 DEF ArrivalFails, Still, F!Members, fleetVars
<1>2. ASSUME NEW r \in Replicas, Leave(r) PROVE Still
  BY <1>2 DEF Leave, Still, F!Members, F!RemoveReplica, F!Drop
<1>3. CASE Enforce
  BY <1>3 DEF Enforce, Still, F!Members, F!Enforce, fleetVars
<1>4. CASE UNCHANGED vars
  BY <1>4 DEF vars, Still, F!Members, fleetVars
<1> QED BY <1>1, <1>2, <1>3, <1>4

LEMMA StillKeeps ==
  ASSUME LineInv, Still
  PROVE  LineInv' /\ Sent' = Sent /\ Decoded' = Decoded /\ Done' = Done
<1>1. /\ UNCHANGED <<busy, pending, prefills, decoding, decodes, outcomes, replica_of,
                     requests_per_replica>>
      /\ F!Members' \subseteq F!Members
  BY DEF Still, queueVars, decodeVars
<1>2. Sent' = Sent /\ Decoded' = Decoded /\ Done' = Done
  BY <1>1 DEF Sent, Decoded, Done
<1>3. Shapes'
  BY <1>1 DEF LineInv, Shapes
<1>4. Placed'
  BY <1>1, <1>2 DEF LineInv, Placed, Waiting
<1>5. AtWork'
  BY <1>1 DEF LineInv, AtWork
<1>6. InOrder'
  BY <1>1, <1>2 DEF LineInv, InOrder, AscendingEach, Together
<1> QED BY <1>2, <1>3, <1>4, <1>5, <1>6 DEF LineInv
----------------------------------------------------------------------------
\* The counters of a replica against the requests themselves.
Tallied(r) ==
  /\ decoding[r] = Cardinality(SentTo(Decoded, r))
  /\ requests_per_replica[r] = Backlog(r) + Cardinality(SentTo(Done, r))
  /\ requests_per_replica[r] = Cardinality(SentTo(Sent, r))

SimInv == LineInv /\ \A r \in DOMAIN busy : Tallied(r)

Doing(r)    == IF busy[r] THEN 1 ELSE 0
Only(r, s)  == IF r = s THEN 1 ELSE 0

LEMMA BacklogParts ==
  ASSUME NEW r
  PROVE  /\ Backlog(r) = Len(pending[r]) + Doing(r) + decoding[r]
         /\ busy[r] => Doing(r) = 1
         /\ ~busy[r] => Doing(r) = 0
         /\ Doing(r) \in Nat
<1>1. CASE busy[r]
  BY <1>1 DEF Backlog, Doing
<1>2. CASE ~busy[r]
  BY <1>2 DEF Backlog, Doing
<1> QED BY <1>1, <1>2

LEMMA BacklogPartsNext ==
  ASSUME NEW r
  PROVE  /\ Backlog(r)' = Len(pending'[r]) + Doing(r)' + decoding'[r]
         /\ busy'[r] => Doing(r)' = 1
         /\ ~busy'[r] => Doing(r)' = 0
<1>1. CASE busy'[r]
  BY <1>1 DEF Backlog, Doing
<1>2. CASE ~busy'[r]
  BY <1>2 DEF Backlog, Doing
<1> QED BY <1>1, <1>2

LEMMA SentToFinite ==
  ASSUME LineInv, NEW S, S \subseteq Sent, NEW r
  PROVE  IsFiniteSet(SentTo(S, r)) /\ Cardinality(SentTo(S, r)) \in Nat
<1>1. Sent = 1 .. Len(replica_of) /\ Len(replica_of) \in Int /\ 1 \in Int
  BY SentTypes
<1>2. IsFiniteSet(Sent)
  BY <1>1, FS_Interval
<1>3. SentTo(S, r) \subseteq Sent
  BY DEF SentTo
<1>4. IsFiniteSet(SentTo(S, r))
  BY <1>2, <1>3, FS_Subset
<1> QED BY <1>4, FS_CardinalityType

\* One more of the requests counts for its replica, and for no other.
LEMMA OneMore ==
  ASSUME LineInv, NEW S, S \subseteq Sent, NEW q, q \notin S, NEW r
  PROVE  Cardinality(SentTo(S \cup {q}, r)) =
           Cardinality(SentTo(S, r)) + Only(replica_of[q], r)
<1>1. IsFiniteSet(SentTo(S, r)) /\ Cardinality(SentTo(S, r)) \in Nat
  BY SentToFinite
<1>2. CASE replica_of[q] = r
  <2>1. SentTo(S \cup {q}, r) = SentTo(S, r) \cup {q} /\ q \notin SentTo(S, r)
    BY <1>2 DEF SentTo
  <2>2. Only(replica_of[q], r) = 1
    BY <1>2 DEF Only
  <2> QED BY <1>1, <2>1, <2>2, FS_AddElement
<1>3. CASE replica_of[q] # r
  <2>1. SentTo(S \cup {q}, r) = SentTo(S, r)
    BY <1>3 DEF SentTo
  <2>2. Only(replica_of[q], r) = 0
    BY <1>3 DEF Only
  <2> QED BY <1>1, <2>1, <2>2
<1> QED BY <1>2, <1>3

LEMMA CounterTypes ==
  ASSUME SimInv, NEW r \in DOMAIN busy
  PROVE  /\ pending[r] \in Seq(Nat) /\ Len(pending[r]) \in Nat
         /\ decoding[r] \in Nat /\ requests_per_replica[r] \in Nat
         /\ Backlog(r) \in Nat /\ Cardinality(SentTo(Done, r)) \in Nat
<1>1. /\ pending[r] \in Seq(Nat) /\ decoding[r] \in Nat
      /\ requests_per_replica[r] \in Nat
  BY DEF SimInv, LineInv, Shapes
<1>2. Len(pending[r]) \in Nat
  BY <1>1
<1>3. Backlog(r) \in Nat
  BY <1>1, <1>2, BacklogParts
<1>4. Cardinality(SentTo(Done, r)) \in Nat
  <2>1. Done \subseteq Sent
    BY DEF SimInv, LineInv, Placed
  <2> QED BY <2>1, SentToFinite DEF SimInv
<1> QED BY <1>1, <1>2, <1>3, <1>4

LEMMA BacklogSum ==
  ASSUME SimInv, NEW r \in DOMAIN busy
  PROVE  \E waiting, doing, decoded \in Nat :
           /\ waiting = Len(pending[r]) /\ doing = Doing(r) /\ decoded = decoding[r]
           /\ Backlog(r) = waiting + doing + decoded
<1>1. Len(pending[r]) \in Nat /\ Doing(r) \in Nat /\ decoding[r] \in Nat
  BY CounterTypes, BacklogParts
<1> QED BY <1>1, BacklogParts

LEMMA ArrivedCounts ==
  ASSUME SimInv, NEW r, NEW q, Arrived(r, q), NEW s \in DOMAIN busy
  PROVE  Tallied(s)'
<1>1. /\ Decoded' = Decoded /\ Done' = Done /\ \A p \in Sent : replica_of'[p] = replica_of[p]
  BY ArrivedSent DEF SimInv
<1>2. Decoded \subseteq Sent /\ Done \subseteq Sent /\ Tallied(s)
  BY DEF SimInv, LineInv, Placed
<1>3. /\ SentTo(Decoded, s)' = SentTo(Decoded, s) /\ SentTo(Done, s)' = SentTo(Done, s)
  BY <1>1, <1>2 DEF SentTo
<1>4. decoding' = decoding /\ r \in DOMAIN busy
      /\ requests_per_replica' = [requests_per_replica EXCEPT ![r] = @ + 1]
      /\ requests_per_replica \in [DOMAIN busy -> Nat]
      /\ busy \in [DOMAIN busy -> BOOLEAN] /\ pending \in [DOMAIN busy -> Seq(Nat)]
  BY DEF Arrived, decodeVars, SimInv, LineInv, Shapes
<1>5. /\ Sent' = Sent \cup {q} /\ q \notin Sent /\ replica_of'[q] = r
      /\ \A p \in Sent : replica_of'[p] = replica_of[p]
  BY ArrivedSent DEF SimInv
<1>6. CASE s # r
  <2>1. pending'[s] = pending[s] /\ busy'[s] = busy[s]
    BY <1>6, ArrivedQueue DEF SimInv
  <2>2. requests_per_replica'[s] = requests_per_replica[s]
    BY <1>4, <1>6
  <2>3. Backlog(s)' = Backlog(s)
    BY <1>4, <2>1 DEF Backlog
  <2>4. SentTo(Sent, s)' = SentTo(Sent, s)
    BY <1>6, <1>5 DEF SentTo
  <2> QED BY <1>2, <1>3, <1>4, <2>2, <2>3, <2>4 DEF Tallied
<1>7. CASE s = r
  <2>1. requests_per_replica'[s] = requests_per_replica[s] + 1
    BY <1>4, <1>7
  <2>2. Backlog(s)' = Backlog(s) + 1
    <3>1. CASE busy[r]
      <4>1. busy' = busy /\ pending' = [pending EXCEPT ![r] = Append(@, q)] /\ q \in Nat
        BY <3>1, ArrivedSent DEF Arrived, SimInv
      <4>2. pending'[s] = Append(pending[s], q) /\ pending[s] \in Seq(Nat)
        BY <1>4, <1>7, <4>1
      <4>3. Len(pending'[s]) = Len(pending[s]) + 1
        BY <4>1, <4>2
      <4>4. Doing(s)' = Doing(s) /\ decoding'[s] = decoding[s]
        BY <1>4, <4>1 DEF Doing
      <4>5. Backlog(s)' = (Len(pending[s]) + 1) + Doing(s) + decoding[s]
        BY <4>3, <4>4, BacklogPartsNext
      <4>6. PICK waiting, doing, decoded \in Nat :
              /\ waiting = Len(pending[s]) /\ doing = Doing(s) /\ decoded = decoding[s]
              /\ Backlog(s) = waiting + doing + decoded
        BY BacklogSum
      <4> QED BY <4>5, <4>6
    <3>2. CASE ~busy[r]
      <4>1. pending' = pending /\ busy' = [busy EXCEPT ![r] = TRUE]
        BY <3>2 DEF Arrived
      <4>2. busy'[s] = TRUE
        BY <1>4, <1>7, <4>1
      <4>3. Doing(s) = 0 /\ Doing(s)' = 1
        BY <1>7, <3>2, <4>2, BacklogParts, BacklogPartsNext
      <4>4. Backlog(s)' = Len(pending[s]) + 1 + decoding[s]
        BY <1>4, <4>1, <4>3, BacklogPartsNext
      <4>5. PICK waiting, doing, decoded \in Nat :
              /\ waiting = Len(pending[s]) /\ doing = Doing(s) /\ decoded = decoding[s]
              /\ Backlog(s) = waiting + doing + decoded
        BY BacklogSum
      <4> QED BY <4>3, <4>4, <4>5
    <3> QED BY <3>1, <3>2
  <2>3. Backlog(s) \in Nat /\ Cardinality(SentTo(Done, s)) \in Nat
    BY CounterTypes
  <2>4. Cardinality(SentTo(Sent, s))' = Cardinality(SentTo(Sent, s)) + 1
    <3>1. SentTo(Sent, s)' = SentTo(Sent, s) \cup {q} /\ q \notin SentTo(Sent, s)
      BY <1>7, <1>5 DEF SentTo
    <3>2. IsFiniteSet(SentTo(Sent, s))
      BY SentToFinite DEF SimInv
    <3> QED BY <3>1, <3>2, FS_AddElement
  <2> QED BY <1>2, <1>3, <1>4, <2>1, <2>2, <2>3, <2>4 DEF Tallied
<1> QED BY <1>6, <1>7

LEMMA PrefilledCounts ==
  ASSUME SimInv, NEW r, NEW q, Prefilled(r, q), NEW s \in DOMAIN busy
  PROVE  Tallied(s)'
<1>1. /\ replica_of' = replica_of /\ Done' = Done /\ Decoded' = Decoded \cup {q}
      /\ q \in prefills /\ replica_of[q] = r /\ r \in DOMAIN busy
  BY PrefilledSent DEF SimInv
<1>2. Decoded \subseteq Sent /\ q \notin Decoded /\ Tallied(s) /\ busy[r]
  BY <1>1 DEF SimInv, LineInv, Placed, AtWork
<1>3. /\ decoding' = [decoding EXCEPT ![r] = @ + 1] /\ decoding \in [DOMAIN busy -> Nat]
      /\ requests_per_replica' = requests_per_replica
      /\ busy \in [DOMAIN busy -> BOOLEAN] /\ pending \in [DOMAIN busy -> Seq(Nat)]
  BY DEF Prefilled, SimInv, LineInv, Shapes
<1>4. /\ SentTo(Decoded, s)' = SentTo(Decoded \cup {q}, s) /\ SentTo(Done, s)' = SentTo(Done, s)
      /\ SentTo(Sent, s)' = SentTo(Sent, s)
  BY <1>1 DEF SentTo, Sent
<1>5. Cardinality(SentTo(Decoded \cup {q}, s)) =
        Cardinality(SentTo(Decoded, s)) + Only(r, s)
  BY <1>1, <1>2, OneMore DEF SimInv
<1>6. Backlog(s)' = Backlog(s)
  <2>1. CASE s # r
    <3>1. pending'[s] = pending[s] /\ busy'[s] = busy[s]
      BY <2>1, PrefilledQueue DEF SimInv
    <3>2. decoding'[s] = decoding[s]
      BY <1>3, <2>1
    <3> QED BY <3>1, <3>2 DEF Backlog
  <2>2. CASE s = r
    <3>1. decoding'[s] = decoding[s] + 1
      BY <1>3, <2>2
    <3>2. CASE pending[r] = <<>>
      <4>1. pending' = pending /\ busy' = [busy EXCEPT ![r] = FALSE]
        BY <3>2 DEF Prefilled
      <4>2. busy'[s] = FALSE
        BY <1>3, <2>2, <4>1
      <4>3. Doing(s) = 1 /\ Doing(s)' = 0
        BY <1>2, <2>2, <4>2, BacklogParts, BacklogPartsNext
      <4>4. Backlog(s)' = Len(pending[s]) + 0 + (decoding[s] + 1)
        BY <3>1, <4>1, <4>3, BacklogPartsNext
      <4>5. PICK waiting, doing, decoded \in Nat :
              /\ waiting = Len(pending[s]) /\ doing = Doing(s) /\ decoded = decoding[s]
              /\ Backlog(s) = waiting + doing + decoded
        BY BacklogSum
      <4> QED BY <4>3, <4>4, <4>5
    <3>3. CASE pending[r] # <<>>
      <4>1. busy' = busy /\ pending' = [pending EXCEPT ![r] = Tail(@)]
        BY <3>3 DEF Prefilled
      <4>2. pending'[s] = Tail(pending[s]) /\ pending[s] \in Seq(Nat) /\ pending[s] # <<>>
        BY <1>3, <2>2, <3>3, <4>1
      <4>3. Len(pending'[s]) = Len(pending[s]) - 1
        BY <4>2
      <4>4. Doing(s)' = Doing(s)
        BY <4>1 DEF Doing
      <4>5. Backlog(s)' = (Len(pending[s]) - 1) + Doing(s) + (decoding[s] + 1)
        BY <3>1, <4>3, <4>4, BacklogPartsNext
      <4>6. PICK waiting, doing, decoded \in Nat :
              /\ waiting = Len(pending[s]) /\ doing = Doing(s) /\ decoded = decoding[s]
              /\ Backlog(s) = waiting + doing + decoded
        BY BacklogSum
      <4>7. Backlog(s)' = (waiting - 1) + doing + (decoded + 1)
        BY <4>5, <4>6
      <4>8. (waiting - 1) + doing + (decoded + 1) = waiting + doing + decoded
        OBVIOUS
      <4> QED BY <4>6, <4>7, <4>8
    <3> QED BY <3>2, <3>3
  <2> QED BY <2>1, <2>2
<1>7. decoding'[s] = decoding[s] + Only(r, s)
  BY <1>3 DEF Only
<1> QED BY <1>2, <1>3, <1>4, <1>5, <1>6, <1>7 DEF Tallied

LEMMA EndedCounts ==
  ASSUME SimInv, NEW r, NEW q, Ended(r, q)
  PROVE  decoding[r] > 0 /\ \A s \in DOMAIN busy : Tallied(s)'
<1>1. /\ replica_of' = replica_of /\ Decoded' = Decoded \ {q} /\ Done' = Done \cup {q}
      /\ q \in Decoded /\ q \notin Done /\ replica_of[q] = r /\ r \in DOMAIN busy
      /\ Decoded = (Decoded \ {q}) \cup {q}
  BY EndedSent DEF SimInv
<1>2. Decoded \subseteq Sent /\ Done \subseteq Sent /\ Decoded \ {q} \subseteq Sent
  BY DEF SimInv, LineInv, Placed
<1>3. /\ decoding' = [decoding EXCEPT ![r] = @ - 1] /\ decoding \in [DOMAIN busy -> Nat]
      /\ UNCHANGED <<requests_per_replica, busy, pending>>
  BY DEF Ended, queueVars, SimInv, LineInv, Shapes
<1>4. ASSUME NEW s \in DOMAIN busy
      PROVE  /\ Cardinality(SentTo(Decoded, s)) =
                  Cardinality(SentTo(Decoded \ {q}, s)) + Only(r, s)
             /\ Cardinality(SentTo(Done \cup {q}, s)) =
                  Cardinality(SentTo(Done, s)) + Only(r, s)
             /\ Cardinality(SentTo(Decoded \ {q}, s)) \in Nat
             /\ Tallied(s)
  <2>1. Cardinality(SentTo((Decoded \ {q}) \cup {q}, s)) =
          Cardinality(SentTo(Decoded \ {q}, s)) + Only(r, s)
    BY <1>1, <1>2, OneMore DEF SimInv
  <2>2. Cardinality(SentTo(Done \cup {q}, s)) =
          Cardinality(SentTo(Done, s)) + Only(r, s)
    BY <1>1, <1>2, OneMore DEF SimInv
  <2>3. Cardinality(SentTo(Decoded \ {q}, s)) \in Nat
    BY <1>2, SentToFinite DEF SimInv
  <2> QED BY <1>1, <2>1, <2>2, <2>3 DEF SimInv
<1>5. decoding[r] > 0
  BY <1>1, <1>4 DEF Tallied, Only
<1>6. ASSUME NEW s \in DOMAIN busy PROVE Tallied(s)'
  <2>1. decoding'[s] = decoding[s] - Only(r, s)
    BY <1>3, <1>6 DEF Only
  <2>2. Backlog(s)' = Backlog(s) - Only(r, s)
    <3>1. Doing(s)' = Doing(s) /\ pending' = pending
      BY <1>3 DEF Doing
    <3>2. Len(pending[s]) \in Nat /\ decoding[s] \in Nat
      BY CounterTypes
    <3>3. Only(r, s) \in Nat
      BY DEF Only
    <3> QED BY <2>1, <3>1, <3>2, <3>3, BacklogParts, BacklogPartsNext
  <2>3. /\ SentTo(Decoded, s)' = SentTo(Decoded \ {q}, s)
        /\ SentTo(Done, s)' = SentTo(Done \cup {q}, s)
        /\ SentTo(Sent, s)' = SentTo(Sent, s)
    BY <1>1 DEF SentTo, Sent
  <2>4. Backlog(s) \in Nat /\ Cardinality(SentTo(Done, s)) \in Nat
    BY CounterTypes
  <2>5. /\ decoding[s] = Cardinality(SentTo(Decoded, s)) /\ decoding[s] \in Nat
        /\ requests_per_replica[s] = Backlog(s) + Cardinality(SentTo(Done, s))
    BY <1>4, CounterTypes DEF Tallied
  <2>6. Cardinality(SentTo(Decoded, s))' = Cardinality(SentTo(Decoded \ {q}, s))
        /\ Cardinality(SentTo(Done, s))' = Cardinality(SentTo(Done \cup {q}, s))
    BY <2>3
  <2>7. Only(r, s) \in Nat
    BY DEF Only
  <2> PICK a, b, c, d, one : /\ a = Cardinality(SentTo(Decoded, s)) /\ one = Only(r, s)
                             /\ b = Cardinality(SentTo(Decoded \ {q}, s))
                             /\ c = Cardinality(SentTo(Done, s))
                             /\ d = Cardinality(SentTo(Done \cup {q}, s))
    OBVIOUS
  <2>8. a = b + one /\ d = c + one /\ b \in Nat /\ c \in Nat /\ one \in Nat
    BY <1>4, <2>4, <2>7
  <2>9. decoding'[s] = b
    BY <2>1, <2>5, <2>8
  <2>10. requests_per_replica'[s] = Backlog(s)' + d
    BY <1>3, <2>2, <2>4, <2>5, <2>8
  <2>11. requests_per_replica'[s] = Cardinality(SentTo(Sent, s))'
    BY <1>3, <1>4, <2>3 DEF Tallied
  <2> QED BY <2>6, <2>9, <2>10, <2>11 DEF Tallied
<1> QED BY <1>5, <1>6

LEMMA JoinedCounts ==
  ASSUME SimInv, NEW r, Joined(r), NEW s \in DOMAIN busy'
  PROVE  Tallied(s)'
<1>1. /\ SentTo(Decoded, s)' = SentTo(Decoded, s) /\ SentTo(Done, s)' = SentTo(Done, s)
      /\ SentTo(Sent, s)' = SentTo(Sent, s)
  BY DEF Joined, SentTo, Decoded, Done, Sent
<1>2. CASE s \in DOMAIN busy
  <2>1. /\ busy'[s] = busy[s] /\ pending'[s] = pending[s] /\ decoding'[s] = decoding[s]
        /\ requests_per_replica'[s] = requests_per_replica[s]
    BY <1>2 DEF Joined
  <2> QED BY <1>1, <1>2, <2>1 DEF SimInv, Tallied, Backlog
<1>3. CASE s \notin DOMAIN busy
  <2>1. /\ ~busy'[s] /\ pending'[s] = <<>> /\ decoding'[s] = 0
        /\ requests_per_replica'[s] = 0
    BY <1>3 DEF Joined
  <2>2. SentTo(Decoded, s) = {} /\ SentTo(Done, s) = {} /\ SentTo(Sent, s) = {}
    <3>1. /\ Decoded \subseteq Sent /\ Done \subseteq Sent
          /\ \A q \in Sent : replica_of[q] \in DOMAIN busy
      BY SentTypes DEF SimInv, LineInv, Placed
    <3> QED BY <1>3, <3>1 DEF SentTo
  <2>3. Cardinality({}) = 0
    BY FS_EmptySet
  <2>4. Backlog(s)' = 0
    <3>1. Len(pending'[s]) = 0
      BY <2>1
    <3> QED BY <2>1, <3>1 DEF Backlog
  <2> QED BY <1>1, <2>1, <2>2, <2>3, <2>4 DEF Tallied
<1> QED BY <1>2, <1>3

LEMMA StillCounts ==
  ASSUME SimInv, Still, NEW r \in DOMAIN busy
  PROVE  Tallied(r)'
BY StillKeeps DEF SimInv, Still, queueVars, decodeVars, Tallied, Backlog, SentTo

LEMMA InitSim == Init => SimInv
<1> SUFFICES ASSUME Init PROVE SimInv
  OBVIOUS
<1>1. /\ busy = [r \in replica_ids |-> FALSE] /\ pending = [r \in replica_ids |-> <<>>]
      /\ decoding = [r \in replica_ids |-> 0]
      /\ requests_per_replica = [r \in replica_ids |-> 0]
      /\ prefills = {} /\ decodes = <<>> /\ replica_of = <<>> /\ outcomes = <<>>
  BY DEF Init
<1>2. F!Members = replica_ids
  BY DEF Init, F!Init, F!Members
<1>3. Sent = {} /\ Decoded = {} /\ Done = {}
  BY <1>1, EmptyToSet DEF Sent, Decoded, Done
<1>4. Shapes
  BY <1>1, <1>2, SimulateAssumption DEF Shapes
<1>5. Placed /\ AtWork /\ InOrder
  BY <1>1, <1>3, EmptyToSet
     DEF Placed, AtWork, InOrder, AscendingEach, Ascending
<1>6. ASSUME NEW r \in DOMAIN busy PROVE Tallied(r)
  <2>1. /\ SentTo(Decoded, r) = {} /\ SentTo(Done, r) = {} /\ SentTo(Sent, r) = {}
        /\ Cardinality({}) = 0
    BY <1>3, FS_EmptySet DEF SentTo
  <2>2. Len(pending[r]) = 0 /\ ~busy[r] /\ decoding[r] = 0 /\ requests_per_replica[r] = 0
    BY <1>1, <1>6
  <2> QED BY <2>1, <2>2 DEF Tallied, Backlog
<1> QED BY <1>4, <1>5, <1>6 DEF SimInv, LineInv

LEMMA StepsKeepSim == SimInv /\ [Next]_vars => SimInv'
<1> SUFFICES ASSUME SimInv, [Next]_vars
             PROVE  SimInv'
  OBVIOUS
<1>0. LineInv
  BY DEF SimInv
<1>1. ASSUME NEW r \in Replicas, NEW tokens \in Prompts, Arrival(r, tokens)
      PROVE  SimInv'
  <2>1. PICK q : q = Len(replica_of) + 1
    OBVIOUS
  <2>2. Arrived(r, q)
    BY <1>0, <1>1, <2>1, ArrivalArrives
  <2>3. DOMAIN busy' = DOMAIN busy
    BY <2>2 DEF Arrived
  <2> QED BY <1>0, <2>2, <2>3, ArrivedShapes, ArrivedPlaced, ArrivedAtWork, ArrivedInOrder,
             ArrivedCounts DEF SimInv, LineInv
<1>2. ASSUME NEW q \in Requests, PrefillDone(q)
      PROVE  SimInv'
  <2>1. PICK r : r = replica_of[q]
    OBVIOUS
  <2>2. Prefilled(r, q)
    BY <1>0, <1>2, <2>1, PrefillDoneEnds
  <2> QED BY <1>0, <2>2, PrefilledShapes, PrefilledPlaced, PrefilledAtWork, PrefilledInOrder,
             PrefilledCounts DEF SimInv, LineInv
<1>3. CASE DecodeDone
  <2>1. PICK q : q = Head(decodes)
    OBVIOUS
  <2>2. PICK r : r = replica_of[q]
    OBVIOUS
  <2>3. Ended(r, q)
    BY <1>0, <1>3, <2>1, <2>2, DecodeDoneEnds
  <2>4. decoding[r] > 0 /\ \A s \in DOMAIN busy : Tallied(s)'
    BY <2>3, EndedCounts
  <2>5. Shapes' /\ DOMAIN busy' = DOMAIN busy
    BY <1>0, <2>3, <2>4, EndedShapes
  <2>6. Placed' /\ AtWork' /\ InOrder'
    BY <1>0, <2>3, EndedPlaced, EndedInOrder
  <2> QED BY <2>4, <2>5, <2>6 DEF SimInv, LineInv
<1>4. ASSUME NEW r \in Replicas, Join(r)
      PROVE  SimInv'
  <2>1. Joined(r)
    BY <1>0, <1>4, JoinJoins
  <2> QED BY <1>0, <2>1, JoinedKeeps, JoinedCounts DEF SimInv
<1>5. ASSUME ArrivalFails \/ (\E r \in Replicas : Leave(r)) \/ Enforce \/ UNCHANGED vars
      PROVE  SimInv'
  <2>1. Still
    BY <1>5, OthersLeaveAlone
  <2>2. DOMAIN busy' = DOMAIN busy
    BY <2>1 DEF Still, queueVars
  <2> QED BY <1>0, <2>1, <2>2, StillKeeps, StillCounts DEF SimInv
<1> QED BY <1>1, <1>2, <1>3, <1>4, <1>5 DEF Next

\* The line and the counters, whatever happens: the inductive invariant that the
\* theorems below rest on.
THEOREM SimInvAlways == Spec => []SimInv
BY InitSim, StepsKeepSim, PTL DEF Spec

\* No request waits for a replica that does nothing: start_next is called
\* wherever one may begin.
THEOREM AlwaysWorkConserving == Spec => []WorkConserving
<1>1. SimInv => WorkConserving
  BY DEF SimInv, LineInv, AtWork, WorkConserving
<1> QED BY <1>1, SimInvAlways, PTL

\* A replica prefills one request at a time, and its counters say what events
\* it has in the heap, through any churn of its id.
THEOREM AlwaysOnePrefill == Spec => []OnePrefillAtATime
<1>1. SimInv => OnePrefillAtATime
  <2> SUFFICES ASSUME SimInv, NEW r \in DOMAIN busy
               PROVE  /\ Cardinality(SentTo(prefills, r)) = IF busy[r] THEN 1 ELSE 0
                      /\ Cardinality(SentTo(ToSet(decodes), r)) = decoding[r]
    BY DEF OnePrefillAtATime
  <2>1. AtWork /\ Tallied(r)
    BY DEF SimInv, LineInv
  <2>2. Cardinality(SentTo(ToSet(decodes), r)) = decoding[r]
    BY <2>1 DEF Tallied, Decoded
  <2>3. CASE busy[r]
    <3>1. PICK q \in prefills : replica_of[q] = r
      BY <2>1, <2>3 DEF AtWork
    <3>2. SentTo(prefills, r) = {q}
      BY <2>1, <3>1 DEF AtWork, SentTo
    <3> QED BY <2>2, <2>3, <3>2, FS_Singleton
  <2>4. CASE ~busy[r]
    <3>1. SentTo(prefills, r) = {}
      BY <2>1, <2>4 DEF AtWork, SentTo
    <3> QED BY <2>2, <2>4, <3>1, FS_EmptySet
  <2> QED BY <2>3, <2>4
<1> QED BY <1>1, SimInvAlways, PTL

\* Whatever churn does to its id, a replica works off all it was ever sent.
THEOREM NothingIsLost == Spec => []NothingLost
<1>1. SimInv => NothingLost
  BY DEF SimInv, Tallied, Done, NothingLost
<1> QED BY <1>1, SimInvAlways, PTL

\* A replica finishes requests in the order they came.
THEOREM AlwaysFirstComeFirstServed == Spec => []FirstComeFirstServed
<1>1. SimInv => FirstComeFirstServed
  BY DEF SimInv, LineInv, InOrder, AscendingEach, Together, FirstComeFirstServed
<1> QED BY <1>1, SimInvAlways, PTL

\* While a request is unfinished there is an event in the heap: `while events'
\* is not left too early, and as each event moves a request on, a run of fair
\* pops finishes them all (that it does, EveryRequestCompletes, is checked by TLC).
HeapOutlastsRequests == Sent \ Done # {} => prefills # {} \/ decodes # <<>>

THEOREM HeapAlwaysOutlastsRequests == Spec => []HeapOutlastsRequests
<1>1. ASSUME SimInv PROVE HeapOutlastsRequests
  <2>1. SUFFICES ASSUME NEW q \in Sent \ Done
                 PROVE  prefills # {} \/ decodes # <<>>
    BY DEF HeapOutlastsRequests
  <2>2. Shapes /\ Placed /\ AtWork
    BY <1>1 DEF SimInv, LineInv
  <2>3. CASE q \in prefills
    BY <2>3
  <2>4. CASE q \in Decoded
    BY <2>4, EmptyToSet DEF Decoded
  <2>5. CASE Waiting(q)
    <3>1. replica_of[q] \in DOMAIN busy
      BY <1>1, SentTypes DEF SimInv
    <3>2. pending[replica_of[q]] # <<>>
      BY <2>5, EmptyToSet DEF Waiting
    <3>3. busy[replica_of[q]]
      BY <2>2, <3>1, <3>2 DEF AtWork
    <3> QED BY <2>2, <3>1, <3>3 DEF AtWork
  <2> QED BY <2>2, <2>3, <2>4, <2>5 DEF Placed
<1> QED BY <1>1, SimInvAlways, PTL

----------------------------------------------------------------------------
\* Fleet, with what is proved about it.
FP == INSTANCE FleetProofs WITH Handles <- Requests, capacity_tokens <- belief_capacity

----------------------------------------------------------------------------
\* The trees of the router and of the replicas have the same operators, seen
\* through their instances.
LEMMA FleetOperators ==
  ASSUME NEW t, NEW tokens, NEW r, NEW n, NEW at
  PROVE  /\ FP!Tree!EmptyTree = EmptyTree
         /\ FP!Tree!InsertPath(t, tokens, r, at) = InsertPath(t, tokens, r, at)
         /\ FP!Tree!Touched(t, tokens, r, at) = Touched(t, tokens, r, at)
         /\ FP!Tree!Forgotten(t, r) = Forgotten(t, r)
         /\ FP!Tree!Victims(t, r) = Victims(t, r)
         /\ FP!Tree!Evicted(t, r, n) = Evicted(t, r, n)
<1>1. FP!Tree!EmptyTree = EmptyTree
  BY DEF FP!Tree!EmptyTree, FP!Tree!NoResidents, EmptyTree, NoResidents
<1>2. FP!Tree!InsertPath(t, tokens, r, at) = InsertPath(t, tokens, r, at)
  <2>1. FP!Tree!Extended(t, tokens) = Extended(t, tokens)
    BY DEF FP!Tree!Extended, FP!Tree!Matched, FP!Tree!MidEdge, FP!Tree!Children,
           FP!Tree!Deepest, FP!Tree!Walk, FP!Tree!Nodes, FP!Tree!NoResidents, FP!Tree!IsPrefix,
           FP!Tree!IsStrictPrefix, FP!Tree!LongestCommonPrefix, FP!Tree!CommonPrefixes,
           FP!Tree!Prefixes, Extended, Matched, MidEdge, Children, Deepest, Walk, Nodes,
           NoResidents, IsPrefix, IsStrictPrefix, LongestCommonPrefix, CommonPrefixes, Prefixes
  <2>2. \A g : FP!Tree!Novel(g, tokens, r) = Novel(g, tokens, r)
    BY DEF FP!Tree!Novel, FP!Tree!IsPrefix, Novel, IsPrefix
  <2>3. \A g : FP!Tree!Mark(g, tokens, r, at) = Mark(g, tokens, r, at)
    BY DEF FP!Tree!Mark, FP!Tree!IsPrefix, FP!Tree!Put, Mark, IsPrefix, Put
  <2>4. FP!Tree!Used(t, r) = Used(t, r)
    BY DEF FP!Tree!Used, Used
  <2>5. \A S : FP!Tree!Cardinality(S) = Cardinality(S)
    BY DEF FP!Tree!Cardinality, FP!Tree!IsFiniteSet, Cardinality, IsFiniteSet
  <2> QED
    BY <2>1, <2>2, <2>3, <2>4, <2>5 DEF FP!Tree!InsertPath, FP!Tree!Put, InsertPath, Put
<1>3. FP!Tree!Touched(t, tokens, r, at) = Touched(t, tokens, r, at)
  BY DEF FP!Tree!Touched, FP!Tree!Nodes, FP!Tree!Holds, FP!Tree!Put, FP!Tree!IsPrefix, Touched,
         Nodes, Holds, Put, IsPrefix
<1>4. FP!Tree!Forgotten(t, r) = Forgotten(t, r)
  BY DEF FP!Tree!Forgotten, FP!Tree!Nodes, FP!Tree!Drop, Forgotten, Nodes, Drop
<1>5. FP!Tree!Victims(t, r) = Victims(t, r)
  BY DEF FP!Tree!Victims, FP!Tree!Evictable, FP!Tree!Nodes, FP!Tree!Holds, FP!Tree!IsTailFor,
         FP!Tree!Children, FP!Tree!IsStrictPrefix, FP!Tree!IsPrefix, Victims, Evictable, Nodes,
         Holds, IsTailFor, Children, IsStrictPrefix, IsPrefix
<1>6. FP!Tree!Evicted(t, r, n) = Evicted(t, r, n)
  BY DEF FP!Tree!Evicted, FP!Tree!Drop, FP!Tree!Put, FP!Tree!Used, FP!Tree!Edge,
         FP!Tree!Children, FP!Tree!Nodes, FP!Tree!IsStrictPrefix, FP!Tree!IsPrefix, Evicted,
         Drop, Put, Used, Edge, Children, Nodes, IsStrictPrefix, IsPrefix
<1> QED BY <1>1, <1>2, <1>3, <1>4, <1>5, <1>6

LEMMA BeliefOperators ==
  ASSUME NEW t, NEW tokens, NEW r, NEW n, NEW at
  PROVE  /\ F!Tree!EmptyTree = EmptyTree
         /\ F!Tree!InsertPath(t, tokens, r, at) = InsertPath(t, tokens, r, at)
         /\ F!Tree!Touched(t, tokens, r, at) = Touched(t, tokens, r, at)
         /\ F!Tree!Forgotten(t, r) = Forgotten(t, r)
         /\ F!Tree!Victims(t, r) = Victims(t, r)
         /\ F!Tree!Evicted(t, r, n) = Evicted(t, r, n)
<1>1. F!Tree!EmptyTree = EmptyTree
  BY DEF F!Tree!EmptyTree, F!Tree!NoResidents, EmptyTree, NoResidents
<1>2. F!Tree!InsertPath(t, tokens, r, at) = InsertPath(t, tokens, r, at)
  <2>1. F!Tree!Extended(t, tokens) = Extended(t, tokens)
    BY DEF F!Tree!Extended, F!Tree!Matched, F!Tree!MidEdge, F!Tree!Children, F!Tree!Deepest,
           F!Tree!Walk, F!Tree!Nodes, F!Tree!NoResidents, F!Tree!IsPrefix,
           F!Tree!IsStrictPrefix, F!Tree!LongestCommonPrefix, F!Tree!CommonPrefixes,
           F!Tree!Prefixes, Extended, Matched, MidEdge, Children, Deepest, Walk, Nodes,
           NoResidents, IsPrefix, IsStrictPrefix, LongestCommonPrefix, CommonPrefixes, Prefixes
  <2>2. \A g : F!Tree!Novel(g, tokens, r) = Novel(g, tokens, r)
    BY DEF F!Tree!Novel, F!Tree!IsPrefix, Novel, IsPrefix
  <2>3. \A g : F!Tree!Mark(g, tokens, r, at) = Mark(g, tokens, r, at)
    BY DEF F!Tree!Mark, F!Tree!IsPrefix, F!Tree!Put, Mark, IsPrefix, Put
  <2>4. F!Tree!Used(t, r) = Used(t, r)
    BY DEF F!Tree!Used, Used
  <2>5. \A S : F!Tree!Cardinality(S) = Cardinality(S)
    BY DEF F!Tree!Cardinality, F!Tree!IsFiniteSet, Cardinality, IsFiniteSet
  <2> QED
    BY <2>1, <2>2, <2>3, <2>4, <2>5 DEF F!Tree!InsertPath, F!Tree!Put, InsertPath, Put
<1>3. F!Tree!Touched(t, tokens, r, at) = Touched(t, tokens, r, at)
  BY DEF F!Tree!Touched, F!Tree!Nodes, F!Tree!Holds, F!Tree!Put, F!Tree!IsPrefix, Touched,
         Nodes, Holds, Put, IsPrefix
<1>4. F!Tree!Forgotten(t, r) = Forgotten(t, r)
  BY DEF F!Tree!Forgotten, F!Tree!Nodes, F!Tree!Drop, Forgotten, Nodes, Drop
<1>5. F!Tree!Victims(t, r) = Victims(t, r)
  BY DEF F!Tree!Victims, F!Tree!Evictable, F!Tree!Nodes, F!Tree!Holds, F!Tree!IsTailFor,
         F!Tree!Children, F!Tree!IsStrictPrefix, F!Tree!IsPrefix, Victims, Evictable, Nodes,
         Holds, IsTailFor, Children, IsStrictPrefix, IsPrefix
<1>6. F!Tree!Evicted(t, r, n) = Evicted(t, r, n)
  BY DEF F!Tree!Evicted, F!Tree!Drop, F!Tree!Put, F!Tree!Used, F!Tree!Edge, F!Tree!Children,
         F!Tree!Nodes, F!Tree!IsStrictPrefix, F!Tree!IsPrefix, Evicted, Drop, Put, Used, Edge,
         Children, Nodes, IsStrictPrefix, IsPrefix
<1> QED BY <1>1, <1>2, <1>3, <1>4, <1>5, <1>6

LEMMA TruthOperators ==
  ASSUME NEW t, NEW tokens, NEW r, NEW n, NEW at
  PROVE  /\ Truth!EmptyTree = EmptyTree
         /\ Truth!InsertPath(t, tokens, r, at) = InsertPath(t, tokens, r, at)
         /\ Truth!Touched(t, tokens, r, at) = Touched(t, tokens, r, at)
         /\ Truth!Forgotten(t, r) = Forgotten(t, r)
         /\ Truth!Victims(t, r) = Victims(t, r)
         /\ Truth!Evicted(t, r, n) = Evicted(t, r, n)
<1>1. Truth!EmptyTree = EmptyTree
  BY DEF Truth!EmptyTree, Truth!NoResidents, EmptyTree, NoResidents
<1>2. Truth!InsertPath(t, tokens, r, at) = InsertPath(t, tokens, r, at)
  <2>1. Truth!Extended(t, tokens) = Extended(t, tokens)
    BY DEF Truth!Extended, Truth!Matched, Truth!MidEdge, Truth!Children, Truth!Deepest,
           Truth!Walk, Truth!Nodes, Truth!NoResidents, Truth!IsPrefix, Truth!IsStrictPrefix,
           Truth!LongestCommonPrefix, Truth!CommonPrefixes, Truth!Prefixes, Extended, Matched,
           MidEdge, Children, Deepest, Walk, Nodes, NoResidents, IsPrefix, IsStrictPrefix,
           LongestCommonPrefix, CommonPrefixes, Prefixes
  <2>2. \A g : Truth!Novel(g, tokens, r) = Novel(g, tokens, r)
    BY DEF Truth!Novel, Truth!IsPrefix, Novel, IsPrefix
  <2>3. \A g : Truth!Mark(g, tokens, r, at) = Mark(g, tokens, r, at)
    BY DEF Truth!Mark, Truth!IsPrefix, Truth!Put, Mark, IsPrefix, Put
  <2>4. Truth!Used(t, r) = Used(t, r)
    BY DEF Truth!Used, Used
  <2>5. \A S : Truth!Cardinality(S) = Cardinality(S)
    BY DEF Truth!Cardinality, Truth!IsFiniteSet, Cardinality, IsFiniteSet
  <2> QED
    BY <2>1, <2>2, <2>3, <2>4, <2>5 DEF Truth!InsertPath, Truth!Put, InsertPath, Put
<1>3. Truth!Touched(t, tokens, r, at) = Touched(t, tokens, r, at)
  BY DEF Truth!Touched, Truth!Nodes, Truth!Holds, Truth!Put, Truth!IsPrefix, Touched, Nodes,
         Holds, Put, IsPrefix
<1>4. Truth!Forgotten(t, r) = Forgotten(t, r)
  BY DEF Truth!Forgotten, Truth!Nodes, Truth!Drop, Forgotten, Nodes, Drop
<1>5. Truth!Victims(t, r) = Victims(t, r)
  BY DEF Truth!Victims, Truth!Evictable, Truth!Nodes, Truth!Holds, Truth!IsTailFor,
         Truth!Children, Truth!IsStrictPrefix, Truth!IsPrefix, Victims, Evictable, Nodes, Holds,
         IsTailFor, Children, IsStrictPrefix, IsPrefix
<1>6. Truth!Evicted(t, r, n) = Evicted(t, r, n)
  BY DEF Truth!Evicted, Truth!Drop, Truth!Put, Truth!Used, Truth!Edge, Truth!Children,
         Truth!Nodes, Truth!IsStrictPrefix, Truth!IsPrefix, Evicted, Drop, Put, Used, Edge,
         Children, Nodes, IsStrictPrefix, IsPrefix
<1> QED BY <1>1, <1>2, <1>3, <1>4, <1>5, <1>6

----------------------------------------------------------------------------
\* The simulation calls the fleet's methods and does nothing else to its state:
\* what is proved of Fleet holds of it.
LEMMA FleetAssumed == FP!FleetAssumption /\ FP!TreeAssumption
BY SimulateAssumption DEF FP!FleetAssumption, FP!TreeAssumption

LEMMA SameUncached ==
  ASSUME NEW tokens, NEW r
  PROVE  FP!Uncached(tokens, r) = F!Uncached(tokens, r)
<1>1. /\ FP!Walk(tree, tokens) = F!Walk(tree, tokens)
      /\ FP!MidEdge(tree, tokens) = F!MidEdge(tree, tokens)
      /\ FP!Matched(tree, tokens) = F!Matched(tree, tokens)
  BY DEF FP!Matched, FP!MidEdge, FP!Children, FP!Deepest, FP!Walk, FP!Nodes, FP!IsPrefix,
         FP!IsStrictPrefix, FP!LongestCommonPrefix, FP!CommonPrefixes, FP!Prefixes,
         F!Matched, F!MidEdge, F!Children, F!Deepest, F!Walk, F!Nodes, F!IsPrefix,
         F!IsStrictPrefix, F!LongestCommonPrefix, F!CommonPrefixes, F!Prefixes
<1>2. FP!MatchFor(tree, tokens, r, prefix_match_unit) =
        F!MatchFor(tree, tokens, r, prefix_match_unit)
  BY <1>1 DEF FP!MatchFor, FP!Max, FP!Usable, FP!Holds, F!MatchFor, F!Max, F!Usable, F!Holds
<1> QED BY <1>2 DEF FP!Uncached, FP!Cached, F!Uncached, F!Cached

LEMMA SameFleetInit == F!Init => FP!Init
BY FleetOperators, BeliefOperators
   DEF F!Init, F!Tree!Init, F!ReplicaState, FP!Init, FP!Tree!Init, FP!ReplicaState

LEMMA SameDispatch ==
  ASSUME NEW d, NEW r, NEW tokens, F!Dispatch(d, r, tokens)
  PROVE  FP!Dispatch(d, r, tokens)
<1>1. FP!Tree!Insert(tokens, r)
  <2>1. F!Tree!Insert(tokens, r)
    BY DEF F!Dispatch
  <2>2. FP!Tree!InsertPath(tree, tokens, r, now') = F!Tree!InsertPath(tree, tokens, r, now')
    BY FleetOperators, BeliefOperators
  <2>3. FP!Tree!OverCapacity(tree', r, belief_capacity) <=>
          F!Tree!OverCapacity(tree', r, belief_capacity)
    BY DEF FP!Tree!OverCapacity, FP!Tree!Used, F!Tree!OverCapacity, F!Tree!Used
  <2> QED
    BY <2>1, <2>2, <2>3 DEF F!Tree!Insert, F!Tree!Advance, FP!Tree!Insert, FP!Tree!Advance
<1> QED BY <1>1, SameUncached DEF F!Dispatch, F!Members, F!Put, FP!Dispatch, FP!Members, FP!Put

LEMMA SameComplete ==
  ASSUME NEW d, F!Complete(d)
  PROVE  FP!Complete(d)
<1> PICK r, tokens : r = open[d].replica_id /\ tokens = open[d].tokens
  OBVIOUS
<1>1. F!Tree!Touch(tokens, r) => FP!Tree!Touch(tokens, r)
  <2>1. FP!Tree!Touched(tree, tokens, r, now') = F!Tree!Touched(tree, tokens, r, now')
    BY FleetOperators, BeliefOperators
  <2> QED BY <2>1 DEF F!Tree!Touch, F!Tree!Advance, FP!Tree!Touch, FP!Tree!Advance
<1> QED BY <1>1 DEF F!Complete, F!Members, F!FloorAtZero, F!Due, F!Drop,
                    FP!Complete, FP!Members, FP!FloorAtZero, FP!Due, FP!Drop

LEMMA SameChurn ==
  ASSUME NEW r
  PROVE  /\ F!AddReplica(r) => FP!AddReplica(r)
         /\ F!RemoveReplica(r) => FP!RemoveReplica(r)
<1>1. F!AddReplica(r) => FP!AddReplica(r)
  BY DEF F!AddReplica, F!SetDefault, F!Put, F!Members, F!OpenOn, F!ReplicaState,
         FP!AddReplica, FP!SetDefault, FP!Put, FP!Members, FP!OpenOn, FP!ReplicaState
<1>2. F!RemoveReplica(r) => FP!RemoveReplica(r)
  <2>1. FP!Tree!Forgotten(tree, r) = F!Tree!Forgotten(tree, r)
    BY FleetOperators, BeliefOperators
  <2> QED BY <2>1 DEF F!RemoveReplica, F!Tree!RemoveReplica, F!Drop, F!OpenOn,
                      FP!RemoveReplica, FP!Tree!RemoveReplica, FP!Drop, FP!OpenOn
<1> QED BY <1>1, <1>2

LEMMA SameEnforce == F!Enforce => FP!Enforce
<1>1. FP!Tree!Victims(tree, enforcing) = F!Tree!Victims(tree, enforcing)
  BY FleetOperators, BeliefOperators
<1>2. \A n : FP!Tree!Evicted(tree, enforcing, n) = F!Tree!Evicted(tree, enforcing, n)
  BY FleetOperators, BeliefOperators
<1>3. FP!Tree!OverCapacity(tree', enforcing, belief_capacity) <=>
        F!Tree!OverCapacity(tree', enforcing, belief_capacity)
  BY DEF FP!Tree!OverCapacity, FP!Tree!Used, F!Tree!OverCapacity, F!Tree!Used
<1> QED BY <1>1, <1>2, <1>3 DEF F!Enforce, F!Tree!EvictOne, FP!Enforce, FP!Tree!EvictOne

LEMMA StepsAreFleetSteps == SimInv /\ [Next]_vars => [FP!Next]_(FP!vars)
<1> SUFFICES ASSUME SimInv, [Next]_vars
             PROVE  FP!Next \/ UNCHANGED FP!vars
  OBVIOUS
<1>1. ASSUME NEW r \in Replicas, NEW tokens \in Prompts, Arrival(r, tokens)
      PROVE  FP!Next
  <2> PICK d : d = Len(replica_of) + 1
    OBVIOUS
  <2>1. F!Dispatch(d, r, tokens) /\ Len(replica_of) < MaxRequests
    BY <1>1 DEF Arrival
  <2>2. d \in Requests
    BY <2>1, SimulateAssumption DEF Requests, SimInv, LineInv, Shapes
  <2> QED BY <1>1, <2>1, <2>2, SameDispatch DEF FP!Next
<1>2. CASE ArrivalFails \/ UNCHANGED vars
  BY <1>2 DEF ArrivalFails, vars, fleetVars, FP!vars
<1>3. ASSUME NEW q \in Requests, PrefillDone(q)
      PROVE  UNCHANGED FP!vars
  BY <1>3 DEF PrefillDone, fleetVars, FP!vars
<1>4. CASE DecodeDone
  <2> PICK q : q = Head(decodes)
    OBVIOUS
  <2>1. F!Complete(q)
    BY <1>4 DEF DecodeDone
  <2>2. q \in Requests
    <3>1. q \in Decoded
      BY <1>4, TailSet, DecodesApart DEF DecodeDone, SimInv, LineInv, Shapes, Decoded
    <3>2. q \in 1 .. Len(replica_of) /\ Len(replica_of) \in Nat /\ Len(replica_of) <= MaxRequests
      BY <3>1, SentTypes DEF SimInv, LineInv, Shapes, Placed
    <3> QED BY <3>2, SimulateAssumption DEF Requests
  <2> QED BY <2>1, <2>2, SameComplete DEF FP!Next
<1>5. ASSUME NEW r \in Replicas, Join(r) \/ Leave(r)
      PROVE  FP!Next
  BY <1>5, SameChurn DEF Join, Leave, FP!Next
<1>6. CASE Enforce
  BY <1>6, SameEnforce DEF Enforce, fleetVars, FP!vars, FP!Next
<1> QED BY <1>1, <1>2, <1>3, <1>4, <1>5, <1>6 DEF Next

\* A fleet whose lifecycle calls simulate() makes is a fleet: so what FleetProofs
\* shows of every order of calls holds of the one the events make.
THEOREM SimulatedFleetIsAFleet == Spec => FP!Spec
<1>1. Init => FP!Init
  BY SameFleetInit DEF Init
<1> QED BY <1>1, StepsAreFleetSteps, SimInvAlways, PTL DEF Spec, FP!Spec

THEOREM FleetLoadAlways == Spec => []FP!LoadInv
<1>1. FP!Spec => []FP!LoadInv
  BY FP!LoadInvAlways, FleetAssumed
<1> QED BY <1>1, SimulatedFleetIsAFleet, PTL

----------------------------------------------------------------------------
\* What the fleet has open is what the replicas have yet to finish.
OpenIsUnfinished ==
  /\ DOMAIN open = Sent \ Done
  /\ \A d \in DOMAIN open : open[d].replica_id = replica_of[d]

LEMMA StepsKeepOpen ==
  ASSUME SimInv, OpenIsUnfinished, [Next]_vars
  PROVE  OpenIsUnfinished'
<1>0. LineInv
  BY DEF SimInv
<1>1. ASSUME NEW r \in Replicas, NEW tokens \in Prompts, Arrival(r, tokens)
      PROVE  OpenIsUnfinished'
  <2> PICK q : q = Len(replica_of) + 1
    OBVIOUS
  <2>1. Arrived(r, q)
    BY <1>0, <1>1, ArrivalArrives
  <2>2. /\ Sent' = Sent \cup {q} /\ q \notin Sent /\ Done' = Done /\ replica_of'[q] = r
        /\ \A p \in Sent : replica_of'[p] = replica_of[p]
        /\ Done \subseteq Sent
    BY <1>0, <2>1, ArrivedSent DEF LineInv, Placed
  <2>3. /\ DOMAIN open' = DOMAIN open \cup {q} /\ open'[q].replica_id = r
        /\ \A d \in DOMAIN open : d # q => open'[d] = open[d]
    BY <1>1 DEF Arrival, F!Dispatch, F!Put
  <2> QED BY <2>2, <2>3 DEF OpenIsUnfinished
<1>2. CASE DecodeDone
  <2> PICK q : q = Head(decodes)
    OBVIOUS
  <2> PICK r : r = replica_of[q]
    OBVIOUS
  <2>1. Sent' = Sent /\ replica_of' = replica_of /\ Done' = Done \cup {q}
    BY <1>0, <1>2, DecodeDoneEnds, EndedSent
  <2>2. DOMAIN open' = DOMAIN open \ {q} /\ \A d \in DOMAIN open' : open'[d] = open[d]
    BY <1>2 DEF DecodeDone, F!Complete, F!Drop
  <2> QED BY <2>1, <2>2 DEF OpenIsUnfinished
<1>3. ASSUME UNCHANGED <<open, replica_of, outcomes>>
      PROVE  OpenIsUnfinished'
  BY <1>3 DEF OpenIsUnfinished, Sent, Done
<1>4. ASSUME NEW q \in Requests, PrefillDone(q)
      PROVE  UNCHANGED <<open, replica_of, outcomes>>
  BY <1>4 DEF PrefillDone, fleetVars
<1>5. ASSUME NEW r \in Replicas, Join(r) \/ Leave(r)
      PROVE  UNCHANGED <<open, replica_of, outcomes>>
  BY <1>5 DEF Join, Leave, F!AddReplica, F!RemoveReplica, decodeVars
<1>6. CASE ArrivalFails \/ Enforce \/ UNCHANGED vars
  BY <1>3, <1>6 DEF ArrivalFails, Enforce, F!Enforce, vars, fleetVars, decodeVars
<1> QED BY <1>1, <1>2, <1>3, <1>4, <1>5, <1>6 DEF Next

THEOREM OpenAlwaysUnfinished == Spec => []OpenIsUnfinished
<1>1. Init => OpenIsUnfinished
  BY EmptyToSet DEF Init, F!Init, OpenIsUnfinished, Sent, Done
<1> QED BY <1>1, StepsKeepOpen, SimInvAlways, PTL DEF Spec

\* A replica has as many requests open as it has in its queue, in prefill and in
\* decode.
LEMMA OpenIsBacklog ==
  ASSUME SimInv, OpenIsUnfinished, NEW r \in DOMAIN busy
  PROVE  IsFiniteSet(FP!OpenOn(r)) /\ Cardinality(FP!OpenOn(r)) = Backlog(r)
<1> DEFINE sent == SentTo(Sent, r)
           done == SentTo(Done, r)
<1>1. FP!OpenOn(r) = sent \ done /\ sent \cap done = done
  BY DEF OpenIsUnfinished, FP!OpenOn, SentTo, SimInv, LineInv, Placed
<1>2. IsFiniteSet(sent) /\ Cardinality(sent) \in Nat
  BY SentToFinite DEF SimInv
<1>3. /\ Cardinality(sent) = Backlog(r) + Cardinality(done)
      /\ Backlog(r) \in Nat /\ Cardinality(done) \in Nat
  BY CounterTypes DEF SimInv, Tallied
<1> HIDE DEF sent, done
<1>4. /\ IsFiniteSet(sent \ done)
      /\ Cardinality(sent \ done) = Cardinality(sent) - Cardinality(sent \cap done)
  BY <1>2, FS_Difference
<1>5. Cardinality(sent \ done) = Cardinality(sent) - Cardinality(done)
  BY <1>1, <1>4
<1> PICK a, b, c : a = Cardinality(sent) /\ b = Backlog(r) /\ c = Cardinality(done)
  OBVIOUS
<1>6. a = b + c /\ b \in Nat /\ c \in Nat
  BY <1>3
<1>7. a - c = b
  BY <1>6
<1>8. Cardinality(sent \ done) = b
  BY <1>5, <1>7
<1> QED BY <1>1, <1>4, <1>8

\* The in_flight the policies see is the backlog of the replica; after the reuse
\* of an id it may be less, and never more (dispatch, complete against the queues
\* of simulate).
THEOREM LoadIsAlwaysBacklog == Spec => []LoadIsBacklog
<1>1. SimInv /\ OpenIsUnfinished /\ FP!LoadInv => LoadIsBacklog
  <2> SUFFICES ASSUME SimInv, OpenIsUnfinished, FP!LoadInv, NEW r \in F!Members
               PROVE  /\ replicas[r].in_flight <= Backlog(r)
                      /\ r \notin reused => replicas[r].in_flight = Backlog(r)
    BY DEF LoadIsBacklog
  <2>1. r \in FP!Members /\ r \in DOMAIN busy
    BY DEF F!Members, FP!Members, SimInv, LineInv, Shapes
  <2>2. /\ replicas[r].in_flight <= Cardinality(FP!Owed(r))
        /\ r \notin reused => replicas[r].in_flight = Cardinality(FP!Owed(r))
        /\ r \notin reused => FP!OpenOn(r) \cap orphans = {}
        /\ replicas[r].in_flight \in Nat
    <3>1. \A S : FP!Cardinality(S) = Cardinality(S)
      BY DEF FP!Cardinality, FP!IsFiniteSet, Cardinality, IsFiniteSet
    <3> QED BY <2>1, <3>1 DEF FP!LoadInv, FP!Fair, FP!Exact, FP!OpenInv
  <2>3. IsFiniteSet(FP!OpenOn(r)) /\ Cardinality(FP!OpenOn(r)) = Backlog(r)
    BY <2>1, OpenIsBacklog
  <2>4. FP!Owed(r) \subseteq FP!OpenOn(r)
    BY DEF FP!Owed
  <2>5. Cardinality(FP!Owed(r)) <= Cardinality(FP!OpenOn(r))
    BY <2>3, <2>4, FS_Subset
  <2>6. Cardinality(FP!Owed(r)) \in Nat /\ Backlog(r) \in Nat
    <3>1. IsFiniteSet(FP!Owed(r))
      BY <2>3, <2>4, FS_Subset
    <3> QED BY <2>1, <3>1, FS_CardinalityType, CounterTypes
  <2>7. r \notin reused => FP!Owed(r) = FP!OpenOn(r)
    BY <2>2 DEF FP!Owed
  <2> QED BY <2>2, <2>3, <2>5, <2>6, <2>7
<1> QED BY <1>1, SimInvAlways, OpenAlwaysUnfinished, FleetLoadAlways, PTL

----------------------------------------------------------------------------
\* Who has never been sent anything, in either tree.
Blank(t, r) ==
  r \notin DOMAIN t.tokens_used /\ \A n \in Nodes(t) : r \notin DOMAIN t.residents[n]

\* From t to u nobody but r can have gained anything.
GainsOnly(u, t, r, h) ==
  /\ Sound(u, Token, Prompts, Replicas, h)
  /\ \A s : s # r /\ Blank(t, s) => Blank(u, s)

LEMMA InsertGains ==
  ASSUME NEW t, NEW h \in Nat, Sound(t, Token, Prompts, Replicas, h), NEW tokens \in Prompts,
         NEW r \in Replicas, NEW at \in Nat, h <= at,
         NEW u, u = IF tokens = <<>> THEN t ELSE InsertPath(t, tokens, r, at)
  PROVE  GainsOnly(u, t, r, at)
<1>1. Prompts \subseteq Seq(Token) /\ tokens \in Seq(Token)
  BY SimulateAssumption
<1>2. CASE tokens = <<>>
  BY <1>2, SoundLater DEF GainsOnly
<1>3. CASE tokens # <<>>
  <2>1. Sound(u, Token, Prompts, Replicas, at)
    BY <1>1, <1>3, InsertSound
  <2> DEFINE G == Extended(t, tokens)
  <2>2. Grown(G, t, Token, h, tokens)
    BY <1>1, ExtendedGrown
  <2> HIDE DEF G
  <2>3. /\ Nodes(u) = DOMAIN G
        /\ \A n \in DOMAIN G : DOMAIN u.residents[n] \subseteq DOMAIN G[n] \cup {r}
        /\ DOMAIN u.tokens_used = DOMAIN t.tokens_used \cup {r}
    BY <1>3 DEF InsertPath, Mark, Put, Nodes, G
  <2>4. ASSUME NEW s, s # r, Blank(t, s)
        PROVE  Blank(u, s)
    <3>1. \A n \in DOMAIN G : s \notin DOMAIN G[n]
      BY <2>2, <2>4 DEF Grown, Blank
    <3> QED BY <2>3, <2>4, <3>1 DEF Blank
  <2> QED BY <2>1, <2>4 DEF GainsOnly
<1> QED BY <1>2, <1>3

LEMMA TouchGains ==
  ASSUME NEW t, NEW h \in Nat, Sound(t, Token, Prompts, Replicas, h), NEW tokens \in Prompts,
         NEW r, NEW at \in Nat, h <= at, NEW u, u = Touched(t, tokens, r, at)
  PROVE  Sound(u, Token, Prompts, Replicas, at) /\ \A s : Blank(t, s) => Blank(u, s)
<1>1. Sound(u, Token, Prompts, Replicas, at)
  BY SimulateAssumption, TouchSound
<1>2. /\ u.tokens_used = t.tokens_used /\ Nodes(u) = Nodes(t)
      /\ \A n \in Nodes(t) :
           u.residents[n] = IF n # <<>> /\ IsPrefix(n, tokens) /\ Holds(t, n, r)
                            THEN Put(t.residents[n], r, at) ELSE t.residents[n]
  BY Zenon DEF Touched, Nodes, Sound
<1>3. \A n \in Nodes(t) : DOMAIN u.residents[n] = DOMAIN t.residents[n]
  BY <1>2 DEF Put, Holds
<1> QED BY <1>1, <1>2, <1>3 DEF Blank

LEMMA ForgetGains ==
  ASSUME NEW t, NEW h \in Nat, Sound(t, Token, Prompts, Replicas, h), NEW r,
         NEW u, u = Forgotten(t, r), NEW any
  PROVE  GainsOnly(u, t, any, h) /\ Blank(u, r)
<1>1. Sound(u, Token, Prompts, Replicas, h)
  <2>1. Sound(u, Token, Prompts, Replicas \ {r}, h)
    BY ForgetSound
  <2> QED BY <2>1, SoundMore
<1>2. /\ Nodes(u) = Nodes(t) /\ DOMAIN u.tokens_used = DOMAIN t.tokens_used \ {r}
      /\ \A n \in Nodes(t) : DOMAIN u.residents[n] = DOMAIN t.residents[n] \ {r}
  BY DEF Forgotten, Nodes, Drop
<1> QED BY <1>1, <1>2 DEF GainsOnly, Blank

LEMMA EvictGains ==
  ASSUME NEW t, NEW h \in Nat, Sound(t, Token, Prompts, Replicas, h), NEW r \in Replicas,
         NEW u, u = t \/ \E v \in Victims(t, r) : u = Evicted(t, r, v)
  PROVE  GainsOnly(u, t, r, h)
<1>1. CASE u = t
  BY <1>1 DEF GainsOnly
<1>2. ASSUME NEW v \in Victims(t, r), u = Evicted(t, r, v)
      PROVE  GainsOnly(u, t, r, h)
  <2>1. v \in Evictable(t, r) /\ v \in Nodes(t)
    BY <1>2 DEF Victims, Evictable
  <2>2. Sound(u, Token, Prompts, Replicas, h)
    BY <1>2, <2>1, EvictSound
  <2>3. /\ Nodes(u) = Nodes(t) /\ DOMAIN u.tokens_used = DOMAIN t.tokens_used \cup {r}
        /\ \A n \in Nodes(t) : DOMAIN u.residents[n] \subseteq DOMAIN t.residents[n]
    BY <1>2, <2>1 DEF Evicted, Nodes, Drop, Put
  <2> QED BY <2>2, <2>3 DEF GainsOnly, Blank
<1> QED BY <1>1, <1>2

\* Only members are warm, only the warm are in either tree, and only they can
\* have to be cut down to their capacity.
ColdInv ==
  /\ Sound(tree, Token, Prompts, Replicas, now) /\ Sound(truth, Token, Prompts, Replicas, now)
  /\ now \in 0 .. MaxNow
  /\ warm \subseteq F!Members /\ F!Members \subseteq Replicas
  /\ enforcing \in warm \cup {None} /\ evicting \in warm \cup {None}
  /\ \A r \in Replicas \ warm : Blank(tree, r) /\ Blank(truth, r)

LEMMA InitCold == Init => ColdInv
<1> SUFFICES ASSUME Init PROVE ColdInv
  OBVIOUS
<1>1. /\ tree = EmptyTree /\ truth = EmptyTree /\ now = 0 /\ enforcing = None
      /\ evicting = None /\ warm = {} /\ F!Members = replica_ids
  BY BeliefOperators, TruthOperators DEF Init, F!Init, F!Tree!Init, Truth!Init, F!Members
<1>2. Sound(EmptyTree, Token, Prompts, Replicas, 0)
  BY EmptySound
<1>3. \A r : Blank(EmptyTree, r)
  BY DEF Blank, EmptyTree, Nodes, NoResidents
<1> QED BY <1>1, <1>2, <1>3, SimulateAssumption DEF ColdInv

LEMMA ArrivalCold ==
  ASSUME ColdInv, NEW r \in Replicas, NEW tokens \in Prompts, Arrival(r, tokens)
  PROVE  ColdInv'
<1>1. /\ F!Tree!Insert(tokens, r) /\ Truth!Insert(tokens, r) /\ r \in F!Members
      /\ F!Members' = F!Members /\ warm' = warm \cup {r}
  BY DEF Arrival, F!Dispatch, F!Members
<1>2. now \in Nat /\ now' \in Nat /\ now <= now' /\ now' \in 0 .. MaxNow
  BY <1>1, SimulateAssumption DEF ColdInv, Truth!Insert, Truth!Advance
<1>3. GainsOnly(tree', tree, r, now')
  <2>1. tree' = IF tokens = <<>> THEN tree ELSE InsertPath(tree, tokens, r, now')
    BY <1>1, BeliefOperators DEF F!Tree!Insert
  <2> QED BY <1>2, <2>1, InsertGains DEF ColdInv
<1>4. GainsOnly(truth', truth, r, now')
  <2>1. truth' = IF tokens = <<>> THEN truth ELSE InsertPath(truth, tokens, r, now')
    BY <1>1, TruthOperators DEF Truth!Insert
  <2> QED BY <1>2, <2>1, InsertGains DEF ColdInv
<1>5. enforcing' \in {r, None} /\ evicting' \in {r, None}
  BY <1>1 DEF F!Tree!Insert, Truth!Insert
<1> QED BY <1>1, <1>2, <1>3, <1>4, <1>5 DEF ColdInv, GainsOnly

LEMMA DecodeDoneCold ==
  ASSUME ColdInv, FP!LoadInv, DecodeDone
  PROVE  ColdInv'
<1> PICK q : q = Head(decodes)
  OBVIOUS
<1> PICK r, tokens : r = open[q].replica_id /\ tokens = open[q].tokens
  OBVIOUS
<1>1. /\ F!Complete(q) /\ UNCHANGED <<truth, evicting, warm>>
  BY DEF DecodeDone, truthVars
<1>2. F!Members' = F!Members /\ tokens \in Prompts
  BY <1>1 DEF F!Complete, F!Members, FP!LoadInv, FP!OpenInv
<1>3. CASE UNCHANGED <<tree, now, enforcing>>
  BY <1>1, <1>2, <1>3 DEF ColdInv
<1>4. CASE F!Tree!Touch(tokens, r)
  <2>1. now \in Nat /\ now' \in Nat /\ now <= now' /\ now' \in 0 .. MaxNow
    BY <1>4, SimulateAssumption DEF ColdInv, F!Tree!Touch, F!Tree!Advance
  <2>2. tree' = Touched(tree, tokens, r, now')
    BY <1>4, BeliefOperators DEF F!Tree!Touch
  <2>3. Sound(tree', Token, Prompts, Replicas, now') /\ \A s : Blank(tree, s) => Blank(tree', s)
    BY <1>2, <2>1, <2>2, TouchGains DEF ColdInv
  <2>4. Sound(truth, Token, Prompts, Replicas, now')
    BY <2>1, SoundLater DEF ColdInv
  <2> QED BY <1>1, <1>2, <1>4, <2>1, <2>3, <2>4 DEF ColdInv, F!Tree!Touch
<1> QED BY <1>1, <1>3, <1>4 DEF F!Complete

LEMMA LeaveCold ==
  ASSUME ColdInv, NEW r \in Replicas, Leave(r)
  PROVE  ColdInv'
<1>1. /\ tree' = Forgotten(tree, r) /\ truth' = Forgotten(truth, r)
      /\ UNCHANGED <<now, enforcing, evicting>> /\ enforcing = None /\ evicting = None
      /\ warm' = warm \ {r} /\ F!Members' = F!Members \ {r}
  BY BeliefOperators, TruthOperators
     DEF Leave, F!RemoveReplica, F!Tree!RemoveReplica, Truth!RemoveReplica, F!Members, F!Drop
<1>2. now \in Nat
  BY SimulateAssumption DEF ColdInv
<1>3. /\ GainsOnly(tree', tree, None, now) /\ Blank(tree', r)
      /\ GainsOnly(truth', truth, None, now) /\ Blank(truth', r)
  BY <1>1, <1>2, ForgetGains DEF ColdInv
<1> QED BY <1>1, <1>2, <1>3, SimulateAssumption DEF ColdInv, GainsOnly

LEMMA EnforceCold ==
  ASSUME ColdInv, Enforce
  PROVE  ColdInv'
<1>1. now \in Nat /\ now' = now /\ warm' = warm /\ F!Members' = F!Members
  BY SimulateAssumption
     DEF ColdInv, Enforce, fleetVars, Truth!EvictOne, F!Enforce, F!Tree!EvictOne, F!Members
<1>2. CASE Truth!EvictOne /\ UNCHANGED fleetVars
  <2>1. /\ evicting # None /\ evicting' \in {evicting, None}
        /\ truth' = truth \/ \E v \in Victims(truth, evicting) : truth' = Evicted(truth, evicting, v)
    BY <1>2, TruthOperators DEF Truth!EvictOne
  <2>2. evicting \in warm /\ evicting \in Replicas
    BY <2>1 DEF ColdInv
  <2>3. GainsOnly(truth', truth, evicting, now)
    BY <1>1, <2>1, <2>2, EvictGains DEF ColdInv
  <2> QED BY <1>1, <1>2, <2>1, <2>2, <2>3 DEF ColdInv, GainsOnly, fleetVars
<1>3. CASE F!Enforce /\ UNCHANGED truthVars
  <2>1. /\ enforcing # None /\ enforcing' \in {enforcing, None}
        /\ tree' = tree \/ \E v \in Victims(tree, enforcing) : tree' = Evicted(tree, enforcing, v)
    BY <1>3, BeliefOperators DEF F!Enforce, F!Tree!EvictOne
  <2>2. enforcing \in warm /\ enforcing \in Replicas
    BY <2>1 DEF ColdInv
  <2>3. GainsOnly(tree', tree, enforcing, now)
    BY <1>1, <2>1, <2>2, EvictGains DEF ColdInv
  <2> QED BY <1>1, <1>3, <2>1, <2>2, <2>3 DEF ColdInv, GainsOnly, truthVars
<1> QED BY <1>2, <1>3 DEF Enforce

LEMMA StepsKeepCold ==
  ASSUME ColdInv, FP!LoadInv, [Next]_vars
  PROVE  ColdInv'
<1>1. ASSUME NEW r \in Replicas, NEW tokens \in Prompts, Arrival(r, tokens)
      PROVE  ColdInv'
  BY <1>1, ArrivalCold
<1>2. CASE DecodeDone
  BY <1>2, DecodeDoneCold
<1>3. ASSUME NEW r \in Replicas, Leave(r)
      PROVE  ColdInv'
  BY <1>3, LeaveCold
<1>4. ASSUME NEW r \in Replicas, Join(r)
      PROVE  ColdInv'
  <2>1. /\ UNCHANGED <<tree, now, enforcing, truth, evicting>>
        /\ warm' = IF r \in F!Members THEN warm ELSE warm \ {r}
        /\ F!Members' = F!Members \cup {r}
    BY <1>4 DEF Join, F!AddReplica, F!SetDefault, F!Put, F!Members, truthVars
  <2>2. warm' = warm
    BY <2>1 DEF ColdInv
  <2> QED BY <2>1, <2>2 DEF ColdInv
<1>5. CASE Enforce
  BY <1>5, EnforceCold
<1>6. CASE ArrivalFails \/ (\E q \in Requests : PrefillDone(q)) \/ UNCHANGED vars
  <2>1. UNCHANGED <<tree, now, enforcing, truth, evicting, warm, replicas>>
    BY <1>6 DEF ArrivalFails, PrefillDone, vars, fleetVars, truthVars
  <2> QED BY <2>1 DEF ColdInv, F!Members
<1> QED BY <1>1, <1>2, <1>3, <1>4, <1>5, <1>6 DEF Next

THEOREM ColdInvAlways == Spec => []ColdInv
BY InitCold, StepsKeepCold, FleetLoadAlways, PTL DEF Spec

\* A replica that comes back is cold until it is sent something, to itself and to
\* the router, although completions of its first life still touch the router's
\* tree.
THEOREM AlwaysColdOnReturn == Spec => []ColdOnReturn
<1>1. \A t, r : Blank(t, r) => Used(t, r) = 0 /\ Held(t, r) = {}
  BY DEF Blank, Used, Held, Holds, Nodes
<1>2. ColdInv => ColdOnReturn
  BY <1>1 DEF ColdInv, ColdOnReturn
<1> QED BY <1>2, ColdInvAlways, PTL

----------------------------------------------------------------------------
LEMMA SameFleetType == FP!TypeOK => F!TypeOK
<1>1. FP!Tree!TypeOK => F!Tree!TypeOK
  BY DEF FP!Tree!TypeOK, FP!Tree!Nodes, FP!Tree!NoResidents, FP!Tree!IsPrefix,
         F!Tree!TypeOK, F!Tree!Nodes, F!Tree!NoResidents, F!Tree!IsPrefix
<1> QED BY <1>1 DEF FP!TypeOK, FP!Members, F!TypeOK, F!Members

LEMMA DecodingBounded ==
  ASSUME SimInv, NEW r \in DOMAIN busy
  PROVE  decoding[r] \in 0 .. MaxRequests
<1>1. Sent = 1 .. Len(replica_of) /\ Len(replica_of) \in Nat /\ Len(replica_of) <= MaxRequests
  BY SentTypes DEF SimInv, LineInv, Shapes
<1>2. IsFiniteSet(Sent) /\ Cardinality(Sent) = Len(replica_of)
  <2>1. 1 \in Int /\ Len(replica_of) \in Int
    BY <1>1
  <2>2. /\ IsFiniteSet(1 .. Len(replica_of))
        /\ Cardinality(1 .. Len(replica_of)) =
             IF 1 > Len(replica_of) THEN 0 ELSE Len(replica_of) - 1 + 1
    BY <2>1, FS_Interval
  <2> QED BY <1>1, <2>2
<1>3. SentTo(Decoded, r) \subseteq Sent
  BY DEF SentTo, SimInv, LineInv, Placed
<1>4. Cardinality(SentTo(Decoded, r)) <= Cardinality(Sent)
  BY <1>2, <1>3, FS_Subset
<1>5. decoding[r] = Cardinality(SentTo(Decoded, r)) /\ decoding[r] \in Nat
  BY CounterTypes DEF SimInv, Tallied
<1> QED BY <1>1, <1>2, <1>4, <1>5, SimulateAssumption

\* Every member has its queues, no replica has more to decode than there are
\* requests, and what is open is what is unfinished.
THEOREM SimulateTypeCorrect == Spec => []TypeOK
<1>1. FP!Spec => []FP!TypeOK
  BY FP!FleetTypeCorrect, FleetAssumed
<1>2. SimInv /\ ColdInv /\ OpenIsUnfinished /\ FP!TypeOK => TypeOK
  <2> SUFFICES ASSUME SimInv, ColdInv, OpenIsUnfinished, FP!TypeOK
               PROVE  TypeOK
    OBVIOUS
  <2>1. F!TypeOK
    BY SameFleetType
  <2>2. /\ F!Members \subseteq DOMAIN busy /\ busy \in [DOMAIN busy -> BOOLEAN]
        /\ DOMAIN busy = DOMAIN pending /\ DOMAIN busy = DOMAIN decoding
        /\ DOMAIN busy = DOMAIN requests_per_replica /\ replica_of \in Seq(DOMAIN busy)
        /\ decoding \in [DOMAIN busy -> Nat]
    BY DEF SimInv, LineInv, Shapes
  <2>3. decoding \in [DOMAIN busy -> 0 .. MaxRequests]
    BY <2>2, DecodingBounded
  <2>4. evicting \in Replicas \cup {None}
    BY DEF ColdInv
  <2> QED BY <2>1, <2>2, <2>3, <2>4 DEF TypeOK, OpenIsUnfinished, Sent, Done
<1> QED BY <1>1, <1>2, SimulatedFleetIsAFleet, SimInvAlways, ColdInvAlways,
           OpenAlwaysUnfinished, PTL
=============================================================================
