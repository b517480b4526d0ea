------------------------ MODULE ConsistentHashProofs ------------------------
(***************************************************************************)
(* Theorems of ConsistentHash: for any fleet, any number of virtual nodes  *)
(* and any hashes, collisions included, a request goes to a member, and a  *)
(* key moves only if it must.                                              *)
(***************************************************************************)
EXTENDS ConsistentHash, SequenceTheorems, WellFoundedInduction, TLAPS

\* A nonempty set of naturals has a least element.
LEMMA LeastNat ==
  ASSUME NEW S, S \subseteq Nat, S # {}
  PROVE  \E x \in S : \A y \in S : x <= y
<1>1. PICK x \in S : \A y \in S : ~(<<y, x>> \in OpToRel(<, Nat))
  BY WFMin, NatLessThanWellFounded, Zenon
<1>2. \A y \in S : ~(y < x)
  BY <1>1 DEF OpToRel
<1> QED BY <1>2

RingOf(S) == UNION {Entries(r) : r \in S}

IInv ==
  /\ TypeOK
  /\ \A k \in DOMAIN last :
       /\ last[k].members # {}
       /\ last[k].replica = Owner(RingOf(last[k].members), hash[k])

\* The sort is by point and then by id: there is a first entry.
LEMMA FirstIsLeast ==
  ASSUME NEW E, E \subseteq [point : Nat, rid : Replicas], E # {}
  PROVE  First(E) \in E /\ \A f \in E : Before(First(E), f)
<1>1. PICK p \in {e.point : e \in E} : \A q \in {e.point : e \in E} : p <= q
  <2>1. {e.point : e \in E} \subseteq Nat /\ {e.point : e \in E} # {}
    OBVIOUS
  <2> QED BY <2>1, LeastNat
<1> DEFINE F == {e \in E : e.point = p}
<1>2. PICK n \in {lexical[e.rid] : e \in F} : \A m \in {lexical[e.rid] : e \in F} : n <= m
  <2>1. {lexical[e.rid] : e \in F} \subseteq Nat /\ {lexical[e.rid] : e \in F} # {}
    BY RingAssumption
  <2> QED BY <2>1, LeastNat
<1>3. PICK e \in F : lexical[e.rid] = n
  BY <1>2
<1>4. \A f \in E : Before(e, f)
  <2>1. ASSUME NEW f \in E PROVE Before(e, f)
    <3>1. e.point = p /\ p <= f.point /\ p \in Nat /\ f.point \in Nat
      BY <1>1, <1>3
    <3>2. CASE f.point = p
      <4>1. lexical[e.rid] <= lexical[f.rid]
        BY <1>2, <1>3, <3>2
      <4> QED BY <3>1, <3>2, <4>1 DEF Before
    <3>3. CASE f.point # p
      BY <3>1, <3>3 DEF Before
    <3> QED BY <3>2, <3>3
  <2> QED BY <2>1
<1> QED BY <1>3, <1>4 DEF First

\* Two entries each before the other are of one replica.
LEMMA BeforeAntisymmetric ==
  ASSUME NEW e \in [point : Nat, rid : Replicas], NEW f \in [point : Nat, rid : Replicas],
         Before(e, f), Before(f, e)
  PROVE  e.rid = f.rid
<1>1. e.point \in Nat /\ f.point \in Nat /\ lexical[e.rid] \in Nat /\ lexical[f.rid] \in Nat
      /\ e.rid \in Replicas /\ f.rid \in Replicas
  BY RingAssumption
<1>2. lexical[e.rid] = lexical[f.rid]
  BY <1>1 DEF Before
<1> QED BY <1>1, <1>2, RingAssumption

LEMMA RingEntries ==
  ASSUME position \in Positions, NEW S, S \subseteq Replicas
  PROVE  /\ RingOf(S) \subseteq [point : Nat, rid : Replicas]
         /\ \A e \in RingOf(S) : e.rid \in S /\ e \in Entries(e.rid)
         /\ S # {} => RingOf(S) # {}
<1>1. \A r \in S : Entries(r) \subseteq [point : Nat, rid : Replicas]
                  /\ Entries(r) # {} /\ \A e \in Entries(r) : e.rid = r
  <2>1. ASSUME NEW r \in S
        PROVE  Entries(r) \subseteq [point : Nat, rid : Replicas]
               /\ Entries(r) # {} /\ \A e \in Entries(r) : e.rid = r
    <3>1. \A v \in 0 .. vnodes - 1 : position[<<r, v>>] \in Nat
      BY RingAssumption
    <3>2. 0 \in 0 .. vnodes - 1
      BY RingAssumption
    <3>3. \A v \in 0 .. vnodes - 1 :
            [point |-> position[<<r, v>>], rid |-> r] \in [point : Nat, rid : Replicas]
      BY <3>1
    <3>4. [point |-> position[<<r, 0>>], rid |-> r] \in Entries(r)
      BY <3>2 DEF Entries
    <3>5. Entries(r) \subseteq [point : Nat, rid : Replicas]
      BY <3>3 DEF Entries
    <3>6. ASSUME NEW e \in Entries(r) PROVE e.rid = r
      <4>1. PICK v \in 0 .. vnodes - 1 : e = [point |-> position[<<r, v>>], rid |-> r]
        BY DEF Entries
      <4> QED BY <4>1
    <3> QED BY <3>4, <3>5, <3>6
  <2> QED BY <2>1
<1> QED BY <1>1 DEF RingOf

\* The entry that decides: the first at or after the hash, or there is none
\* such and it is the first of all.
LEMMA Deciding ==
  ASSUME position \in Positions, NEW S, S \subseteq Replicas, S # {}, NEW h \in Nat
  PROVE  \E e \in RingOf(S) :
           /\ e.rid = Owner(RingOf(S), h)
           /\ e.point >= h => \A f \in RingOf(S) : f.point >= h => Before(e, f)
           /\ e.point < h => \A f \in RingOf(S) : f.point < h /\ Before(e, f)
<1> DEFINE R == RingOf(S)
           after == {e \in R : e.point >= h}
<1>1. R \subseteq [point : Nat, rid : Replicas] /\ R # {}
  BY RingEntries
<1>2. \A e \in R : e.point \in Nat
  BY <1>1
<1> HIDE DEF R
<1>3. CASE after # {}
  <2>1. First(after) \in after /\ \A f \in after : Before(First(after), f)
    <3>1. after \subseteq [point : Nat, rid : Replicas]
      BY <1>1
    <3> HIDE DEF after
    <3> QED BY <1>3, <3>1, FirstIsLeast
  <2>2. Owner(R, h) = First(after).rid
    BY <1>3 DEF Owner
  <2>3. First(after) \in R /\ First(after).point >= h /\ First(after).point \in Nat
    BY <1>2, <2>1
  <2>4. ~(First(after).point < h)
    BY <2>3
  <2>5. \A f \in R : f.point >= h => Before(First(after), f)
    BY <2>1
  <2> QED BY <2>2, <2>3, <2>4, <2>5 DEF R
<1>4. CASE after = {}
  <2>1. First(R) \in R /\ \A f \in R : Before(First(R), f)
    BY <1>1, FirstIsLeast
  <2>2. Owner(R, h) = First(R).rid
    BY <1>4 DEF Owner
  <2>3. \A f \in R : f.point < h /\ ~(f.point >= h)
    BY <1>2, <1>4
  <2> QED BY <2>1, <2>2, <2>3 DEF R
<1> QED BY <1>3, <1>4

\* A replica of both fleets that decides in one, decides in the other.
LEMMA SameOwner ==
  ASSUME position \in Positions, NEW h \in Nat,
         NEW S, S \subseteq Replicas, S # {}, NEW U, U \subseteq Replicas, U # {},
         Owner(RingOf(S), h) \in U, Owner(RingOf(U), h) \in S
  PROVE  Owner(RingOf(S), h) = Owner(RingOf(U), h)
<1>1. PICK e \in RingOf(S) :
        /\ e.rid = Owner(RingOf(S), h)
        /\ e.point >= h => \A f \in RingOf(S) : f.point >= h => Before(e, f)
        /\ e.point < h => \A f \in RingOf(S) : f.point < h /\ Before(e, f)
  BY Deciding
<1>2. PICK d \in RingOf(U) :
        /\ d.rid = Owner(RingOf(U), h)
        /\ d.point >= h => \A f \in RingOf(U) : f.point >= h => Before(d, f)
        /\ d.point < h => \A f \in RingOf(U) : f.point < h /\ Before(d, f)
  BY Deciding
<1>3. /\ e \in [point : Nat, rid : Replicas] /\ d \in [point : Nat, rid : Replicas]
      /\ e \in Entries(e.rid) /\ d \in Entries(d.rid)
  BY RingEntries
<1>4. e \in RingOf(U) /\ d \in RingOf(S)
  BY <1>1, <1>2, <1>3 DEF RingOf
<1>5. e.point \in Nat /\ d.point \in Nat
  BY <1>3
<1>6. Before(e, d) /\ Before(d, e)
  <2>1. CASE e.point >= h
    <3>1. d.point >= h
      <4>1. ~(e.point < h)
        BY <1>5, <2>1
      <4>2. ~(d.point < h)
        BY <1>2, <1>4, <4>1
      <4> QED BY <1>5, <4>2
    <3> QED BY <1>1, <1>2, <1>4, <2>1, <3>1
  <2>2. CASE e.point < h
    <3>1. d.point < h
      BY <1>1, <1>4, <2>2
    <3> QED BY <1>1, <1>2, <1>4, <2>2, <3>1
  <2> QED BY <1>5, <2>1, <2>2
<1>7. e.rid = d.rid
  BY <1>3, <1>6, BeforeAntisymmetric
<1> QED BY <1>1, <1>2, <1>7

----------------------------------------------------------------------------
\* What choose answers is of the ring of the ids as they are.
LEMMA ChooseAnswers ==
  ASSUME IInv, NEW k \in Keys, Choose(k)
  PROVE  /\ k \in DOMAIN last'
         /\ last'[k].members = ToSet(replica_ids)
         /\ last'[k].members # {} /\ last'[k].members \subseteq Replicas
         /\ last'[k].replica = Owner(RingOf(ToSet(replica_ids)), hash[k])
         /\ ring' = Ring(replica_ids)
<1>1. replica_ids \in Seq(Replicas) /\ replica_ids # <<>>
  BY DEF IInv, TypeOK, Choose
<1>2. ToSet(replica_ids) \subseteq Replicas /\ ToSet(replica_ids) # {}
  <2>1. Len(replica_ids) # 0 /\ Len(replica_ids) \in Nat
    BY <1>1, EmptySeq, LenProperties
  <2>2. 1 \in DOMAIN replica_ids
    BY <1>1, <2>1, LenProperties
  <2>3. \A i \in DOMAIN replica_ids : replica_ids[i] \in Replicas
    BY <1>1, ElementOfSeq
  <2> QED BY <2>2, <2>3 DEF ToSet
<1>3. ring' = Ring(replica_ids)
  BY DEF IInv, TypeOK, Choose, Rebuilt
<1>4. Ring(replica_ids) = RingOf(ToSet(replica_ids))
  BY DEF Ring, RingOf
<1> QED BY <1>2, <1>3, <1>4 DEF Choose

LEMMA OwnerIsMember ==
  ASSUME position \in Positions, NEW S, S \subseteq Replicas, S # {}, NEW h \in Nat
  PROVE  Owner(RingOf(S), h) \in S
BY Deciding, RingEntries

LEMMA InitKeeps == Init => IInv
<1> SUFFICES ASSUME Init PROVE IInv
  OBVIOUS
<1>1. PICK r \in Replicas : replica_ids = <<r>>
  BY DEF Init
<1>2. replica_ids \in Seq(Replicas) /\ IsInjective(replica_ids)
  BY <1>1 DEF IsInjective
<1>3. built_for \in Seq(Replicas) /\ ToSet(built_for) = {}
  BY DEF Init, ToSet
<1>4. ring = Ring(built_for)
  BY <1>3 DEF Init, Ring
<1>5. DOMAIN last = {} /\ last \in [{} -> [members : SUBSET Replicas, replica : Replicas]]
  BY DEF Init
<1> QED BY <1>2, <1>3, <1>4, <1>5 DEF Init, IInv, TypeOK

LEMMA ChooseKeeps ==
  ASSUME IInv, NEW k \in Keys, Choose(k)
  PROVE  IInv'
<1>1. /\ last'[k].members = ToSet(replica_ids)
      /\ last'[k].members # {} /\ last'[k].members \subseteq Replicas
      /\ last'[k].replica = Owner(RingOf(ToSet(replica_ids)), hash[k])
      /\ ring' = Ring(replica_ids)
  BY ChooseAnswers
<1>2. /\ UNCHANGED <<position, hash, replica_ids>> /\ built_for' = replica_ids
      /\ DOMAIN last' = DOMAIN last \cup {k}
      /\ \A j \in DOMAIN last : j # k => last'[j] = last[j]
      /\ last'[k] = [members |-> ToSet(replica_ids), replica |-> Owner(ring', hash[k])]
  BY DEF Choose
<1>3. hash[k] \in Nat /\ position \in Positions
  BY RingAssumption DEF IInv, TypeOK
<1>4. last'[k].replica \in Replicas
  BY <1>1, <1>3, OwnerIsMember
<1>5. last'[k] \in [members : SUBSET Replicas, replica : Replicas]
  BY <1>1, <1>2, <1>4
<1>6. last' \in [DOMAIN last' -> [members : SUBSET Replicas, replica : Replicas]]
  BY <1>2, <1>5 DEF IInv, TypeOK, Choose
<1>7. Ring(built_for)' = Ring(replica_ids)
  BY <1>2 DEF Ring, Entries
<1>8. TypeOK'
  BY <1>1, <1>2, <1>6, <1>7 DEF IInv, TypeOK
<1>9. ASSUME NEW j \in DOMAIN last'
      PROVE  /\ last'[j].members # {}
             /\ last'[j].replica = Owner(RingOf(last[j].members), hash[j])'
  <2>1. \A S, h : Owner(RingOf(S), h)' = Owner(RingOf(S), h)
    BY <1>2 DEF Owner, RingOf, Entries, First, Before
  <2>2. Owner(RingOf(last[j].members), hash[j])' = Owner(RingOf(last'[j].members), hash[j])
    BY <1>2, <2>1
  <2>3. CASE j = k
    BY <1>1, <2>2, <2>3
  <2>4. CASE j # k
    <3>1. j \in DOMAIN last /\ last'[j] = last[j]
      BY <1>2, <2>4
    <3> QED BY <2>2, <3>1 DEF IInv
  <2> QED BY <2>3, <2>4
<1> QED BY <1>8, <1>9 DEF IInv

\* A change of the fleet touches nothing of the policy's.
LEMMA FleetKeeps ==
  ASSUME IInv, UNCHANGED <<position, hash, ring, built_for, last>>,
         replica_ids' \in Seq(Replicas), IsInjective(replica_ids')
  PROVE  IInv'
<1>1. Ring(built_for)' = Ring(built_for)
  BY DEF Ring, Entries
<1>2. \A S, h : Owner(RingOf(S), h)' = Owner(RingOf(S), h)
  BY DEF Owner, RingOf, Entries, First, Before
<1> QED BY <1>1, <1>2 DEF IInv, TypeOK

LEMMA AddReplicaKeeps ==
  ASSUME IInv, NEW r \in Replicas, AddReplica(r)
  PROVE  IInv'
<1>1. replica_ids \in Seq(Replicas) /\ IsInjective(replica_ids)
  BY DEF IInv, TypeOK
<1>2. replica_ids' \in Seq(Replicas) /\ IsInjective(replica_ids')
  <2>1. CASE r \in ToSet(replica_ids)
    BY <1>1, <2>1 DEF AddReplica
  <2>2. CASE r \notin ToSet(replica_ids)
    <3>1. replica_ids' = Append(replica_ids, r)
      BY <2>2 DEF AddReplica
    <3>2. \A i \in DOMAIN replica_ids : replica_ids[i] # r
      BY <2>2 DEF ToSet
    <3> QED BY <1>1, <3>1, <3>2 DEF IsInjective
  <2> QED BY <2>1, <2>2
<1> QED BY <1>2, FleetKeeps DEF AddReplica

LEMMA RemoveReplicaKeeps ==
  ASSUME IInv, NEW r \in Replicas, RemoveReplica(r)
  PROVE  IInv'
<1>1. replica_ids \in Seq(Replicas) /\ IsInjective(replica_ids)
  BY DEF IInv, TypeOK
<1>2. replica_ids' \in Seq(Replicas) /\ IsInjective(replica_ids')
  <2>1. CASE r \notin ToSet(replica_ids)
    BY <1>1, <2>1 DEF RemoveReplica
  <2>2. CASE r \in ToSet(replica_ids)
    <3>1. PICK i \in DOMAIN replica_ids : replica_ids' = RemoveAt(replica_ids, i)
      BY <2>2 DEF RemoveReplica, ToSet
    <3>2. i \in 1 .. Len(replica_ids) /\ Len(replica_ids) \in Nat
      BY <1>1
    <3>3. replica_ids' = SubSeq(replica_ids, 1, i - 1) \o SubSeq(replica_ids, i + 1, Len(replica_ids))
      BY <3>1 DEF RemoveAt
    <3> DEFINE n == Len(replica_ids)
               head == SubSeq(replica_ids, 1, i - 1)
               tail == SubSeq(replica_ids, i + 1, n)
    <3>4. /\ head \in Seq(Replicas)
          /\ Len(head) = i - 1
          /\ \A j \in 1 .. i - 1 : head[j] = replica_ids[j]
      BY <1>1, <3>2, SubSeqProperties
    <3>5. /\ tail \in Seq(Replicas)
          /\ Len(tail) = n - i
          /\ \A j \in 1 .. n - i : tail[j] = replica_ids[i + j]
      BY <1>1, <3>2, SubSeqProperties
    <3> HIDE DEF head, tail
    <3>6. replica_ids' = head \o tail
      BY <3>3 DEF head, tail
    <3>7. /\ replica_ids' \in Seq(Replicas)
          /\ Len(replica_ids') = n - 1
      BY <3>2, <3>4, <3>5, <3>6, ConcatProperties
    <3>8. DOMAIN replica_ids' = 1 .. n - 1
      BY <3>7, LenProperties
    <3>9. \A j \in 1 .. n - 1 :
            replica_ids'[j] = replica_ids[IF j < i THEN j ELSE j + 1]
      <4>1. ASSUME NEW j \in 1 .. n - 1, j < i PROVE replica_ids'[j] = replica_ids[j]
        BY <3>2, <3>4, <3>5, <3>6, <4>1, ConcatProperties
      <4>2. ASSUME NEW j \in 1 .. n - 1, ~(j < i)
            PROVE  replica_ids'[j] = replica_ids[j + 1]
        <5>1. replica_ids'[j] = tail[j - Len(head)]
          <6>1. j \in 1 .. Len(head) + Len(tail) /\ ~(j <= Len(head))
            BY <3>2, <3>4, <3>5, <4>2
          <6> QED BY <3>4, <3>5, <3>6, <6>1, ConcatProperties
        <5>2. j - Len(head) \in 1 .. n - i /\ i + (j - Len(head)) = j + 1
          BY <3>2, <3>4, <4>2
        <5> QED BY <3>5, <5>1, <5>2
      <4> QED BY <4>1, <4>2
    <3>10. ASSUME NEW a \in 1 .. n - 1, NEW b \in 1 .. n - 1,
                  replica_ids'[a] = replica_ids'[b]
           PROVE  a = b
      <4> DEFINE at(j) == IF j < i THEN j ELSE j + 1
      <4>1. at(a) \in DOMAIN replica_ids /\ at(b) \in DOMAIN replica_ids
        BY <1>1, <3>2
      <4>2. replica_ids[at(a)] = replica_ids[at(b)]
        BY <3>9, <3>10
      <4>3. at(a) = at(b)
        BY <1>1, <4>1, <4>2 DEF IsInjective
      <4> QED BY <3>2, <4>3
    <3> QED BY <3>7, <3>8, <3>10 DEF IsInjective
  <2> QED BY <2>1, <2>2
<1> QED BY <1>2, FleetKeeps DEF RemoveReplica

\* The policy's answers are those of a ring built for the fleet it saw.
THEOREM AnswersAlwaysFresh == Spec => []IInv
<1>1. Init => IInv
  BY InitKeeps
<1>2. IInv /\ [Next]_vars => IInv'
  <2> SUFFICES ASSUME IInv, [Next]_vars PROVE IInv'
    OBVIOUS
  <2>1. ASSUME NEW k \in Keys, Choose(k) PROVE IInv'
    BY <2>1, ChooseKeeps
  <2>2. ASSUME NEW r \in Replicas, AddReplica(r) PROVE IInv'
    BY <2>2, AddReplicaKeeps
  <2>3. ASSUME NEW r \in Replicas, RemoveReplica(r) PROVE IInv'
    BY <2>3, RemoveReplicaKeeps
  <2>4. CASE UNCHANGED vars
    <3>1. replica_ids' \in Seq(Replicas) /\ IsInjective(replica_ids')
      BY <2>4 DEF vars, IInv, TypeOK
    <3> QED BY <2>4, <3>1, FleetKeeps DEF vars
  <2> QED BY <2>1, <2>2, <2>3, <2>4 DEF Next
<1> QED BY <1>1, <1>2, PTL DEF Spec

\* The ring is always that of the ids it was built for, and an id is in the
\* list once (ConsistentHash._rebuild, Fleet.replicas).
THEOREM RingIsAlwaysOfItsIds == Spec => []TypeOK
<1>1. IInv => TypeOK
  BY DEF IInv
<1> QED BY <1>1, AnswersAlwaysFresh, PTL

\* A request is sent to a replica of the fleet as it is (ConsistentHash.choose).
THEOREM AlwaysRoutedToMember == Spec => []RoutedToMember
<1>1. IInv => RoutedToMember
  <2> SUFFICES ASSUME IInv, NEW k \in DOMAIN last PROVE last[k].replica \in last[k].members
    BY DEF RoutedToMember
  <2>1. /\ position \in Positions /\ hash[k] \in Nat
        /\ last[k].members \subseteq Replicas /\ last[k].members # {}
    BY RingAssumption DEF IInv, TypeOK
  <2> QED BY <2>1, OwnerIsMember DEF IInv
<1> QED BY <1>1, AnswersAlwaysFresh, PTL

\* A key moves only if its replica has left, or to a replica that is new
\* (ConsistentHash.choose, _rebuild).
THEOREM AlwaysMovesOnlyIfItMust == Spec => MovesOnlyIfItMust
<1> DEFINE Stays == \A k \in DOMAIN last :
                     last'[k].replica # last[k].replica =>
                       \/ last[k].replica \notin last'[k].members
                       \/ last'[k].replica \notin last[k].members
<1>1. IInv /\ [Next]_vars => [Stays]_vars
  <2> SUFFICES ASSUME IInv, Next, NEW j \in DOMAIN last,
                      last'[j].replica # last[j].replica
               PROVE  \/ last[j].replica \notin last'[j].members
                      \/ last'[j].replica \notin last[j].members
    OBVIOUS
  <2>1. PICK k \in Keys : Choose(k)
    BY DEF Next, AddReplica, RemoveReplica
  <2>2. j = k
    BY <2>1 DEF Choose
  <2>3. /\ position \in Positions /\ hash[j] \in Nat
        /\ last[j].members \subseteq Replicas /\ last[j].members # {}
        /\ last[j].replica = Owner(RingOf(last[j].members), hash[j])
    BY RingAssumption DEF IInv, TypeOK
  <2>4. /\ last'[j].members \subseteq Replicas /\ last'[j].members # {}
        /\ last'[j].replica = Owner(RingOf(last'[j].members), hash[j])
    BY <2>1, <2>2, ChooseAnswers
  <2> QED BY <2>3, <2>4, SameOwner
<1> QED BY <1>1, AnswersAlwaysFresh, PTL DEF Spec, MovesOnlyIfItMust
=============================================================================
