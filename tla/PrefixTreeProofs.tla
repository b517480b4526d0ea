-------------------------- MODULE PrefixTreeProofs --------------------------
(***************************************************************************)
(* Theorems of PrefixTree: for all replicas, prompts, capacities and match *)
(* units, the tree stays well formed.                                      *)
(***************************************************************************)
EXTENDS PrefixTree, RadixTreeFacts

\* Sound is inductive as it stands: that residency and recency are inherited
\* needs each other (a tail is the oldest there is), and a split needs nodes to
\* branch at nodes.
IInv ==
  /\ Sound(tree, Token, Prompts, Replicas, now)
  /\ now \in 0 .. MaxNow
  /\ enforcing \in Replicas \cup {None}

LEMMA InitSound == Init => IInv
<1>1. Sound(EmptyTree, Token, Prompts, Replicas, 0)
  BY EmptySound
<1> QED BY <1>1, ClockAssumption DEF Init, IInv

\* The clock never goes back, and stays within its bound.
LEMMA AdvanceBounds ==
  ASSUME now \in 0 .. MaxNow, Advance
  PROVE  now \in Nat /\ now' \in Nat /\ now <= now' /\ now' \in 0 .. MaxNow
BY ClockAssumption DEF Advance

LEMMA InsertKeeps ==
  ASSUME IInv, NEW tokens \in Prompts, NEW r \in Replicas, Insert(tokens, r)
  PROVE  IInv'
<1>1. Sound(tree, Token, Prompts, Replicas, now) /\ enforcing' \in Replicas \cup {None}
  BY DEF IInv, Insert
<1>2. now \in Nat /\ now' \in Nat /\ now <= now' /\ now' \in 0 .. MaxNow
  BY AdvanceBounds DEF IInv, Insert
<1>3. Sound(tree', Token, Prompts, Replicas, now')
  <2>1. CASE tokens = <<>>
    <3>1. tree' = tree
      BY <2>1 DEF Insert
    <3> QED BY <1>1, <1>2, <3>1, SoundLater
  <2>2. CASE tokens # <<>>
    <3>1. tree' = InsertPath(tree, tokens, r, now')
      BY <2>2 DEF Insert
    <3>2. Sound(InsertPath(tree, tokens, r, now'), Token, Prompts, Replicas, now')
      BY <1>1, <1>2, PromptsAssumption, InsertSound
    <3> QED BY <3>1, <3>2
  <2> QED BY <2>1, <2>2
<1> QED BY <1>1, <1>2, <1>3 DEF IInv

LEMMA EvictOneKeeps ==
  ASSUME IInv, EvictOne
  PROVE  IInv'
<1>1. /\ Sound(tree, Token, Prompts, Replicas, now) /\ now \in Nat
      /\ now' = now /\ enforcing \in Replicas /\ enforcing' \in Replicas \cup {None}
  BY NoneAssumption DEF IInv, EvictOne
<1>2. Sound(tree', Token, Prompts, Replicas, now)
  <2>1. CASE tree' = tree
    BY <1>1, <2>1
  <2>2. CASE \E victim \in Victims(tree, enforcing) : tree' = Evicted(tree, enforcing, victim)
    <3>1. PICK victim \in Evictable(tree, enforcing) : tree' = Evicted(tree, enforcing, victim)
      BY <2>2 DEF Victims
    <3>2. Sound(Evicted(tree, enforcing, victim), Token, Prompts, Replicas, now)
      BY <1>1, EvictSound
    <3> QED BY <3>1, <3>2
  <2> QED BY <2>1, <2>2 DEF EvictOne
<1> QED BY <1>1, <1>2 DEF IInv

LEMMA TouchKeeps ==
  ASSUME IInv, NEW tokens \in Prompts, NEW r \in Replicas, Touch(tokens, r)
  PROVE  IInv'
<1>1. /\ Sound(tree, Token, Prompts, Replicas, now) /\ enforcing' \in Replicas \cup {None}
      /\ tree' = Touched(tree, tokens, r, now')
  BY DEF IInv, Touch
<1>2. now \in Nat /\ now' \in Nat /\ now <= now' /\ now' \in 0 .. MaxNow
  BY AdvanceBounds DEF IInv, Touch
<1>3. Sound(Touched(tree, tokens, r, now'), Token, Prompts, Replicas, now')
  BY <1>1, <1>2, PromptsAssumption, TouchSound
<1> QED BY <1>1, <1>2, <1>3 DEF IInv

LEMMA RemoveReplicaKeeps ==
  ASSUME IInv, NEW r \in Replicas, RemoveReplica(r)
  PROVE  IInv'
<1>1. /\ Sound(tree, Token, Prompts, Replicas, now) /\ now \in Nat /\ now' \in 0 .. MaxNow
      /\ now' = now /\ enforcing' \in Replicas \cup {None} /\ tree' = Forgotten(tree, r)
  BY DEF IInv, RemoveReplica
<1>2. Sound(Forgotten(tree, r), Token, Prompts, Replicas \ {r}, now)
  BY <1>1, ForgetSound
<1>3. Sound(Forgotten(tree, r), Token, Prompts, Replicas, now)
  BY <1>1, <1>2, SoundMore
<1> QED BY <1>1, <1>3 DEF IInv

\* Every reachable tree is sound.
THEOREM SoundAlways == Spec => []IInv
<1>1. Init => IInv
  BY InitSound
<1>2. IInv /\ [Next]_vars => IInv'
  <2> SUFFICES ASSUME IInv, [Next]_vars
               PROVE  IInv'
    OBVIOUS
  <2>1. ASSUME NEW tokens \in Prompts, NEW r \in Replicas, Insert(tokens, r)
        PROVE  IInv'
    BY <2>1, InsertKeeps
  <2>2. CASE EvictOne
    BY <2>2, EvictOneKeeps
  <2>3. ASSUME NEW tokens \in Prompts, NEW r \in Replicas, Touch(tokens, r)
        PROVE  IInv'
    BY <2>3, TouchKeeps
  <2>4. ASSUME NEW r \in Replicas, RemoveReplica(r)
        PROVE  IInv'
    BY <2>4, RemoveReplicaKeeps
  <2>5. CASE UNCHANGED vars
    BY <2>5 DEF IInv, vars
  <2> QED BY <2>1, <2>2, <2>3, <2>4, <2>5 DEF Next
<1> QED BY <1>1, <1>2, PTL DEF Spec

----------------------------------------------------------------------------
\* Nodes are prompts' prefixes, the root belongs to nobody, and times are past
\* (PrefixTree.__init__, insert, touch, remove_replica).
THEOREM TypeCorrect == Spec => []TypeOK
<1>1. IInv => TypeOK
  BY DEF IInv, TypeOK, Sound, Timed, Nodes, Rooted
<1> QED BY <1>1, SoundAlways, PTL

\* No split, eviction or removal leaves a hole in a replica's path (insert,
\* _split, _evict_one, remove_replica).
THEOREM ResidencyIsInherited == Spec => []ResidencyInherited
<1>1. IInv => ResidencyInherited
  BY DEF IInv, Sound, Layered, ResidencyInherited, Nodes, Holds
<1> QED BY <1>1, SoundAlways, PTL

\* A longer prefix is never fresher than a shorter one, so that evicting the
\* oldest tail evicts the oldest there is (_evict_one, touch).
THEOREM RecencyIsInherited == Spec => []RecencyInherited
<1>1. IInv => RecencyInherited
  BY DEF IInv, Sound, Layered, RecencyInherited, Nodes, Holds
<1> QED BY <1>1, SoundAlways, PTL

\* The children dictionary never has to hold two edges under one first token
\* (_split, insert).
THEOREM ChildKeysAreUnique == Spec => []ChildKeysUnique
<1>1. IInv => ChildKeysUnique
  <2> SUFFICES ASSUME IInv, NEW n \in Nodes(tree),
                      NEW c \in Children(tree, n), NEW d \in Children(tree, n),
                      c[Len(n) + 1] = d[Len(n) + 1]
               PROVE  c = d
    BY DEF ChildKeysUnique
  <2>1. Rooted(tree, Token) /\ Branching(Nodes(tree))
    BY DEF IInv, Sound
  <2> QED BY <2>1, SiblingsPart
<1> QED BY <1>1, SoundAlways, PTL

----------------------------------------------------------------------------
\* The counts are right, and only the replica that is being enforced is over
\* its capacity: the loop is entered when the call has put it over, and left
\* as soon as it no longer is.
CountInv ==
  /\ IInv
  /\ \A r \in Replicas : Counted(tree, r)
  /\ \A r \in Replicas : enforcing = r <=> OverCapacity(tree, r, capacity_tokens)

LEMMA InsertKeepsCount ==
  ASSUME CountInv, NEW tokens \in Prompts, NEW r \in Replicas, Insert(tokens, r)
  PROVE  /\ CountInv'
         /\ (tokens = <<>> /\ tree' = tree) \/ Stored(tree', tree, tokens, r, now')
<1>1. /\ IInv /\ IInv' /\ Sound(tree, Token, Prompts, Replicas, now)
      /\ now \in Nat /\ now' \in Nat /\ now <= now'
  BY InsertKeeps, AdvanceBounds DEF CountInv, IInv, Insert
<1>2. \A s \in Replicas : ~OverCapacity(tree, s, capacity_tokens) /\ Counted(tree, s)
  BY NoneAssumption DEF CountInv, Insert
<1>3. CASE tokens = <<>>
  <2>1. tree' = tree /\ enforcing' = None
    BY <1>3 DEF Insert
  <2>2. \A s \in Replicas : Counted(tree', s) /\ ~OverCapacity(tree', s, capacity_tokens)
    BY <1>2, <2>1
  <2> QED BY <1>1, <1>3, <2>1, <2>2, NoneAssumption DEF CountInv
<1>4. CASE tokens # <<>>
  <2>1. tree' = InsertPath(tree, tokens, r, now')
    BY <1>4 DEF Insert
  <2>2. Stored(tree', tree, tokens, r, now')
    BY <1>1, <2>1, PromptsAssumption, InsertStores
  <2>3. \A s \in Replicas : Counted(tree', s)
    BY <1>2, <2>2 DEF Stored, Unaffected, Counted
  <2>4. \A s \in Replicas \ {r} : ~OverCapacity(tree', s, capacity_tokens)
    BY <1>2, <2>2 DEF Stored, Unaffected, OverCapacity
  <2>5. enforcing' = IF OverCapacity(tree', r, capacity_tokens) THEN r ELSE None
    BY <1>4 DEF Insert
  <2> QED BY <1>1, <2>2, <2>3, <2>4, <2>5, NoneAssumption DEF CountInv
<1> QED BY <1>3, <1>4

\* Over its capacity a replica holds something, and so has a tail to evict.
LEMMA OverHasVictim ==
  ASSUME CountInv, enforcing \in Replicas
  PROVE  Counted(tree, enforcing) /\ Victims(tree, enforcing) # {}
<1>1. Sound(tree, Token, Prompts, Replicas, now) /\ now \in Nat
  BY DEF CountInv, IInv
<1>2. Counted(tree, enforcing) /\ OverCapacity(tree, enforcing, capacity_tokens)
  BY DEF CountInv
<1>3. Held(tree, enforcing) # {}
  <2>1. Cardinality(Held(tree, enforcing)) > 0
    BY <1>2, CapacityAssumption, FS_CardinalityType DEF Counted, OverCapacity
  <2> QED BY <2>1, FS_EmptySet
<1> QED BY <1>1, <1>2, <1>3, VictimExists DEF Counted

LEMMA EvictOneKeepsCount ==
  ASSUME CountInv, EvictOne
  PROVE  /\ CountInv'
         /\ enforcing \in Replicas /\ LostOldest(tree', tree, enforcing)
<1>1. /\ IInv /\ IInv' /\ Sound(tree, Token, Prompts, Replicas, now) /\ now \in Nat
      /\ enforcing \in Replicas
  BY EvictOneKeeps, NoneAssumption DEF CountInv, IInv, EvictOne
<1>2. Counted(tree, enforcing) /\ Victims(tree, enforcing) # {}
  BY <1>1, OverHasVictim
<1>5. PICK victim \in Victims(tree, enforcing) : tree' = Evicted(tree, enforcing, victim)
  BY <1>2 DEF EvictOne
<1>6. LostOldest(tree', tree, enforcing)
  BY <1>1, <1>2, <1>5, EvictTakesOldest
<1>7. enforcing' = IF OverCapacity(tree', enforcing, capacity_tokens) THEN enforcing ELSE None
  BY <1>2 DEF EvictOne
<1>8. \A s \in Replicas : Counted(tree', s)
  BY <1>6 DEF CountInv, LostOldest, Unaffected, Counted
<1>9. \A s \in Replicas \ {enforcing} : ~OverCapacity(tree', s, capacity_tokens)
  BY <1>6 DEF CountInv, LostOldest, Unaffected, OverCapacity
<1> QED BY <1>1, <1>6, <1>7, <1>8, <1>9, NoneAssumption DEF CountInv

LEMMA TouchKeepsCount ==
  ASSUME CountInv, NEW tokens \in Prompts, NEW r \in Replicas, Touch(tokens, r)
  PROVE  CountInv' /\ UsedUpTo(tree', tree, tokens, r, now')
<1>1. /\ IInv /\ IInv' /\ Sound(tree, Token, Prompts, Replicas, now)
      /\ now \in Nat /\ now' \in Nat /\ now <= now'
  BY TouchKeeps, AdvanceBounds DEF CountInv, IInv, Touch
<1>2. tree' = Touched(tree, tokens, r, now') /\ enforcing' = enforcing
  BY DEF Touch
<1>3. UsedUpTo(tree', tree, tokens, r, now')
  BY <1>1, <1>2, PromptsAssumption, TouchUses
<1>4. \A s : Held(tree', s) = Held(tree, s) /\ Used(tree', s) = Used(tree, s)
  BY <1>3 DEF UsedUpTo, Unaffected
<1>5. \A s \in Replicas : Counted(tree', s)
  BY <1>4 DEF CountInv, Counted
<1>6. \A s \in Replicas : enforcing' = s <=> OverCapacity(tree', s, capacity_tokens)
  BY <1>2, <1>4 DEF CountInv, OverCapacity
<1> QED BY <1>1, <1>3, <1>5, <1>6 DEF CountInv

LEMMA RemoveReplicaKeepsCount ==
  ASSUME CountInv, NEW r \in Replicas, RemoveReplica(r)
  PROVE  /\ CountInv'
         /\ Held(tree', r) = {} /\ \A s : s # r => Unaffected(tree', tree, s)
<1>1. /\ IInv /\ IInv' /\ Sound(tree, Token, Prompts, Replicas, now) /\ now \in Nat
  BY RemoveReplicaKeeps DEF CountInv, IInv
<1>2. tree' = Forgotten(tree, r) /\ enforcing' = None /\ enforcing = None
  BY DEF RemoveReplica
<1>3. /\ Held(tree', r) = {} /\ Counted(tree', r)
      /\ \A s : s # r => Unaffected(tree', tree, s)
  BY <1>1, <1>2, ForgetClears
<1>4. \A s \in Replicas : Counted(tree', s)
  BY <1>3 DEF CountInv, Unaffected, Counted
<1>5. \A s \in Replicas : ~OverCapacity(tree', s, capacity_tokens)
  <2>1. \A s \in Replicas : s # r => ~OverCapacity(tree', s, capacity_tokens)
    BY <1>2, <1>3, NoneAssumption DEF CountInv, Unaffected, OverCapacity
  <2>2. Used(tree', r) = 0
    BY <1>3, FS_EmptySet DEF Counted
  <2>3. ~OverCapacity(tree', r, capacity_tokens)
    BY <2>2, CapacityAssumption DEF OverCapacity
  <2> QED BY <2>1, <2>3
<1> QED BY <1>1, <1>2, <1>3, <1>4, <1>5, NoneAssumption DEF CountInv

LEMMA InitCounted == Init => CountInv
<1> SUFFICES ASSUME Init PROVE CountInv
  OBVIOUS
<1>1. IInv /\ tree = EmptyTree /\ enforcing = None
  BY InitSound DEF Init
<1>2. \A r : Held(tree, r) = {} /\ Used(tree, r) = 0
  BY <1>1 DEF Held, Nodes, Holds, Used, EmptyTree, NoResidents
<1>3. \A r \in Replicas : Counted(tree, r)
  BY <1>2, FS_EmptySet DEF Counted
<1>4. \A r \in Replicas : ~OverCapacity(tree, r, capacity_tokens)
  BY <1>2, CapacityAssumption DEF OverCapacity
<1> QED BY <1>1, <1>3, <1>4, NoneAssumption DEF CountInv

LEMMA StepKeepsCount == CountInv /\ [Next]_vars => CountInv'
<1> SUFFICES ASSUME CountInv, [Next]_vars
             PROVE  CountInv'
  OBVIOUS
<1>1. ASSUME NEW tokens \in Prompts, NEW r \in Replicas, Insert(tokens, r)
      PROVE  CountInv'
  BY <1>1, InsertKeepsCount
<1>2. CASE EvictOne
  BY <1>2, EvictOneKeepsCount
<1>3. ASSUME NEW tokens \in Prompts, NEW r \in Replicas, Touch(tokens, r)
      PROVE  CountInv'
  BY <1>3, TouchKeepsCount
<1>4. ASSUME NEW r \in Replicas, RemoveReplica(r)
      PROVE  CountInv'
  BY <1>4, RemoveReplicaKeepsCount
<1>5. CASE UNCHANGED vars
  BY <1>5 DEF CountInv, IInv, vars
<1> QED BY <1>1, <1>2, <1>3, <1>4, <1>5 DEF Next

THEOREM CountedAlways == Spec => []CountInv
<1> QED BY InitCounted, StepKeepsCount, PTL DEF Spec

\* tokens_used is the number of token positions a replica holds, counted once
\* each, whatever has been split, stored again and evicted (insert, _split,
\* _evict_one, remove_replica).
THEOREM AccountingIsExact == Spec => []AccountingExact
<1>1. CountInv => AccountingExact
  BY DEF CountInv, Counted, AccountingExact
<1> QED BY <1>1, CountedAlways, PTL

\* Between calls no replica is believed to hold more than its capacity
\* (_enforce_capacity).
THEOREM CapacityIsKept == Spec => []WithinCapacity
<1>1. CountInv => WithinCapacity
  <2> SUFFICES ASSUME CountInv, enforcing = None, NEW r \in DOMAIN capacity_tokens
               PROVE  Used(tree, r) <= capacity_tokens[r]
    BY DEF WithinCapacity
  <2>1. r \in Replicas /\ capacity_tokens[r] \in Nat
    BY CapacityAssumption
  <2>2. ~OverCapacity(tree, r, capacity_tokens)
    BY <2>1, NoneAssumption DEF CountInv
  <2>3. Used(tree, r) \in Nat
    BY <2>1, FS_CardinalityType DEF CountInv, Counted
  <2> QED BY <2>1, <2>2, <2>3 DEF OverCapacity
<1> QED BY <1>1, CountedAlways, PTL

\* The eviction loop is never left for want of something to evict: the `break'
\* of _enforce_capacity is not reached (_enforce_capacity, _evict_one).
LoopFindsVictim == enforcing # None => Victims(tree, enforcing) # {}

THEOREM LoopAlwaysFindsVictim == Spec => []LoopFindsVictim
<1>1. CountInv => LoopFindsVictim
  BY OverHasVictim DEF CountInv, IInv, LoopFindsVictim
<1> QED BY <1>1, CountedAlways, PTL

\* Each pass of the loop, until it ends, counts off a token at least, and never
\* one that is not there: this is why it comes to an end (_enforce_capacity; that
\* it does under fairness, LoopEnds, is checked by TLC).
LoopProgress ==
  enforcing # None =>
    /\ Used(tree, enforcing) \in Nat /\ Used(tree', enforcing) \in Nat
    /\ Used(tree', enforcing) < Used(tree, enforcing)

THEOREM LoopAlwaysProgresses == Spec => [][LoopProgress]_vars
<1>1. ASSUME CountInv, Next PROVE LoopProgress
  <2>1. SUFFICES ASSUME enforcing # None
                 PROVE  /\ Used(tree, enforcing) \in Nat /\ Used(tree', enforcing) \in Nat
                        /\ Used(tree', enforcing) < Used(tree, enforcing)
    BY DEF LoopProgress
  <2>2. EvictOne
    BY <1>1, <2>1 DEF Next, Insert, Touch, RemoveReplica
  <2>3. CountInv' /\ enforcing \in Replicas /\ LostOldest(tree', tree, enforcing)
    BY <1>1, <2>2, EvictOneKeepsCount
  <2> PICK r \in Replicas : r = enforcing
    BY <2>3
  <2>4. Counted(tree, r) /\ LostOldest(tree', tree, r) /\ Counted(tree', r)
    BY <1>1, <2>3 DEF CountInv, LostOldest
  <2>5. /\ IsFiniteSet(Held(tree, r)) /\ Used(tree, r) = Cardinality(Held(tree, r))
        /\ Used(tree', r) = Cardinality(Held(tree', r))
        /\ Held(tree', r) \in SUBSET Held(tree, r) /\ Held(tree', r) # Held(tree, r)
    BY <2>4 DEF Counted, LostOldest
  <2>6. /\ Cardinality(Held(tree, r)) \in Nat /\ Cardinality(Held(tree', r)) \in Nat
        /\ Cardinality(Held(tree', r)) < Cardinality(Held(tree, r))
    BY <2>5, FS_Subset, FS_CardinalityType
  <2> QED BY <2>5, <2>6
<1> QED BY <1>1, CountedAlways, PTL DEF Spec

----------------------------------------------------------------------------
\* match() finds the longest prefix that a replica holds, whatever splits have
\* made of the nodes on the way (match).
THEOREM MatchIsAlwaysLongest == Spec => []MatchIsLongestHeld
<1>1. IInv => MatchIsLongestHeld
  <2> SUFFICES ASSUME IInv, NEW p \in Prompts, NEW r \in Replicas
               PROVE  MatchFor(tree, p, r, prefix_match_unit) =
                        Usable(Max({0} \cup {i \in 1 .. Len(p) : SubSeq(p, 1, i) \in Held(tree, r)}),
                               prefix_match_unit)
    BY DEF MatchIsLongestHeld
  <2>1. Shaped(tree.residents, Token)
    BY SoundShaped DEF IInv
  <2>2. p \in Seq(Token) /\ prefix_match_unit \in Nat \ {0}
    BY PromptsAssumption, UnitAssumption DEF validate_match_unit
  <2> QED BY <2>1, <2>2, MatchIsLongest
<1> QED BY <1>1, SoundAlways, PTL

\* Only insert makes nodes, two at most, and each for a reason.
NodesInv == IInv /\ IsFiniteSet(Nodes(tree)) /\ Needed(Nodes(tree), Prompts)

LEMMA InsertKeepsNodes ==
  ASSUME NodesInv, NEW tokens \in Prompts, NEW r \in Replicas, Insert(tokens, r)
  PROVE  IsFiniteSet(Nodes(tree')) /\ Needed(Nodes(tree'), Prompts)
<1>1. CASE tree' = tree
  BY <1>1 DEF NodesInv
<1>2. CASE tree' = InsertPath(tree, tokens, r, now')
  <2>1. Nodes(tree') = DOMAIN Extended(tree, tokens)
    BY <1>2 DEF InsertPath, Mark, Nodes
  <2>2. Rooted(tree, Token)
    BY DEF NodesInv, IInv, Sound
  <2>3. Needed(Nodes(tree'), Prompts)
    BY <2>1, <2>2, PromptsAssumption, InsertNeeds DEF NodesInv
  <2>4. Nodes(tree') =
          (Nodes(tree) \cup {SubSeq(tokens, 1, Matched(tree, tokens))}) \cup {tokens}
    BY <2>1 DEF Extended
  <2>5. IsFiniteSet(Nodes(tree) \cup {SubSeq(tokens, 1, Matched(tree, tokens))})
    BY FS_AddElement DEF NodesInv
  <2>6. IsFiniteSet(Nodes(tree'))
    <3> DEFINE M == Nodes(tree) \cup {SubSeq(tokens, 1, Matched(tree, tokens))}
    <3>1. IsFiniteSet(M) /\ Nodes(tree') = M \cup {tokens}
      BY <2>4, <2>5
    <3> HIDE DEF M
    <3>2. IsFiniteSet(M \cup {tokens})
      BY <3>1, FS_AddElement
    <3> QED BY <3>1, <3>2
  <2> QED BY <2>3, <2>6
<1> QED BY <1>1, <1>2 DEF Insert

LEMMA OthersKeepNodes ==
  ASSUME IInv, NEW r \in Replicas
  PROVE  /\ EvictOne => Nodes(tree') = Nodes(tree)
         /\ RemoveReplica(r) => Nodes(tree') = Nodes(tree)
         /\ \A tokens : Touch(tokens, r) => Nodes(tree') = Nodes(tree)
<1>1. EvictOne => Nodes(tree') = Nodes(tree)
  BY DEF EvictOne, Evicted, Nodes
<1>2. RemoveReplica(r) => Nodes(tree') = Nodes(tree)
  BY DEF RemoveReplica, Forgotten, Nodes
<1>3. ASSUME NEW tokens, Touch(tokens, r)
      PROVE  Nodes(tree') = Nodes(tree)
  <2>1. DOMAIN tree = {"residents", "tokens_used"}
    BY DEF IInv, Sound
  <2>2. \A at : DOMAIN Touched(tree, tokens, r, at).residents = Nodes(tree)
    BY <2>1 DEF Touched
  <2>3. tree' = Touched(tree, tokens, r, now')
    BY <1>3 DEF Touch
  <2> QED BY <2>2, <2>3 DEF Nodes
<1> QED BY <1>1, <1>2, <1>3

THEOREM NodesInvAlways == Spec => []NodesInv
<1>1. Init => NodesInv
  <2> SUFFICES ASSUME Init PROVE NodesInv
    OBVIOUS
  <2>1. Nodes(tree) = {<<>>}
    BY DEF Init, EmptyTree, Nodes
  <2> QED BY <2>1, InitSound, FS_Singleton DEF NodesInv, Needed
<1>2. NodesInv /\ IInv' /\ [Next]_vars => NodesInv'
  <2> SUFFICES ASSUME NodesInv, [Next]_vars
               PROVE  IsFiniteSet(Nodes(tree')) /\ Needed(Nodes(tree'), Prompts)
    BY DEF NodesInv
  <2>1. ASSUME NEW tokens \in Prompts, NEW r \in Replicas, Insert(tokens, r)
        PROVE  IsFiniteSet(Nodes(tree')) /\ Needed(Nodes(tree'), Prompts)
    BY <2>1, InsertKeepsNodes
  <2>2. CASE EvictOne
    <3>1. enforcing \in Replicas
      BY <2>2, NoneAssumption DEF EvictOne, NodesInv, IInv
    <3> QED BY <2>2, <3>1, OthersKeepNodes DEF NodesInv
  <2>3. ASSUME NEW tokens \in Prompts, NEW r \in Replicas, Touch(tokens, r)
        PROVE  IsFiniteSet(Nodes(tree')) /\ Needed(Nodes(tree'), Prompts)
    BY <2>3, OthersKeepNodes DEF NodesInv
  <2>4. ASSUME NEW r \in Replicas, RemoveReplica(r)
        PROVE  IsFiniteSet(Nodes(tree')) /\ Needed(Nodes(tree'), Prompts)
    BY <2>4, OthersKeepNodes DEF NodesInv
  <2>5. CASE UNCHANGED vars
    BY <2>5 DEF NodesInv, vars
  <2> QED BY <2>1, <2>2, <2>3, <2>4, <2>5 DEF Next
<1> QED BY <1>1, <1>2, SoundAlways, PTL DEF Spec

\* However often prompts are split, evicted and stored again, no node is left
\* without a prompt that ends, or prompts that part, at it (insert, _split).
THEOREM NodesAreAlwaysNeeded == Spec => []NodesAreNeeded
<1>1. NodesInv => NodesAreNeeded
  <2> SUFFICES ASSUME NodesInv, NEW n \in Nodes(tree) \ {<<>>}, n \notin Prompts
               PROVE  Cardinality(Children(tree, n)) > 1
    BY DEF NodesAreNeeded
  <2>1. Rooted(tree, Token) /\ IsFiniteSet(Nodes(tree))
    BY DEF NodesInv, IInv, Sound
  <2>2. PICK a \in Nodes(tree), b \in Nodes(tree) :
          /\ IsPrefix(n, a) /\ Len(n) < Len(a)
          /\ IsPrefix(n, b) /\ Len(n) < Len(b)
          /\ a[Len(n) + 1] # b[Len(n) + 1]
    BY DEF NodesInv, Needed
  <2> QED BY <2>1, <2>2, NeededHasChildren
<1> QED BY <1>1, NodesInvAlways, PTL

----------------------------------------------------------------------------
\* The tree keeps the promise of PrefixCache: the refinement, step by step.

\* PrefixCache's view of the tree.
LEMMA RecencyOfIs ==
  \A r : RecencyOf(r) = [q \in Held(tree, r) |-> Recency(tree.residents, q, r)]
BY DEF RecencyOf, Recency, Under, Nodes, Holds

LEMMA RecencyOfNext ==
  \A r : RecencyOf(r)' = [q \in Held(tree', r) |-> Recency(tree'.residents, q, r)]
BY DEF RecencyOf, Recency, Under, Nodes, Holds

\* For a replica that is not affected the view stays.
LEMMA UnaffectedView ==
  ASSUME NEW r, Unaffected(tree', tree, r)
  PROVE  RecencyOf(r)' = RecencyOf(r)
BY RecencyOfIs, RecencyOfNext DEF Unaffected

\* In the promise a replica is over its capacity when it is so in the tree.
LEMMA OverIsOver ==
  ASSUME CountInv
  PROVE  \A r \in Replicas : Promise!Over(r) <=> OverCapacity(tree, r, capacity_tokens)
<1> SUFFICES ASSUME NEW r \in Replicas
             PROVE  Promise!Over(r) <=> OverCapacity(tree, r, capacity_tokens)
  OBVIOUS
<1>1. DOMAIN RecencyOf(r) = Held(tree, r) /\ Used(tree, r) = Cardinality(Held(tree, r))
  BY RecencyOfIs DEF CountInv, Counted
<1>2. \A S : Promise!Cardinality(S) = Cardinality(S)
  BY DEF Promise!Cardinality, Promise!IsFiniteSet, Cardinality, IsFiniteSet
<1> QED BY <1>1, <1>2 DEF Promise!Over, OverCapacity

LEMMA BetweenCallsSettled ==
  ASSUME CountInv, enforcing = None
  PROVE  Promise!Settled
BY OverIsOver, NoneAssumption DEF CountInv, Promise!Settled

LEMMA InitRefines == Init => Promise!Init
<1> SUFFICES ASSUME Init PROVE Promise!Init
  OBVIOUS
<1>1. \A r : Held(tree, r) = {}
  BY DEF Init, Held, Nodes, Holds, EmptyTree, NoResidents
<1>2. \A r : RecencyOf(r) = [q \in {} |-> 0]
  BY <1>1, RecencyOfIs
<1> QED BY <1>2 DEF Init, Promise!Init

LEMMA InsertRefines ==
  ASSUME CountInv, NEW tokens \in Prompts, NEW r \in Replicas, Insert(tokens, r)
  PROVE  Promise!Store(tokens, r)
<1>1. Promise!Settled
  BY BetweenCallsSettled DEF Insert
<1>2. now' \in now .. MaxNow
  BY AdvanceBounds DEF CountInv, IInv, Insert
<1> DEFINE before == [s \in Replicas |-> RecencyOf(s)]
           after  == [s \in Replicas |-> RecencyOf(s)']
           cuts   == Promise!PrefixesOf(tokens)
           stored == [q \in DOMAIN RecencyOf(r) \cup cuts |->
                        IF q \in cuts THEN now' ELSE RecencyOf(r)[q]]
<1>3. cuts = Cuts(tokens)
  BY DEF Promise!PrefixesOf, Cuts
<1>4. RecencyOf(r)' = stored /\ \A s \in Replicas : s # r => RecencyOf(s)' = RecencyOf(s)
  <2>1. CASE tokens = <<>> /\ tree' = tree
    <3>1. cuts = {}
      BY <1>3, <2>1 DEF Cuts
    <3>2. \A s : RecencyOf(s)' = RecencyOf(s)
      BY <2>1, RecencyOfIs, RecencyOfNext
    <3>3. RecencyOf(r) = [q \in DOMAIN RecencyOf(r) |-> RecencyOf(r)[q]]
      BY RecencyOfIs
    <3> QED BY <3>1, <3>2, <3>3
  <2>2. CASE Stored(tree', tree, tokens, r, now')
    <3>1. \A s : s # r => RecencyOf(s)' = RecencyOf(s)
      BY <2>2, UnaffectedView DEF Stored
    <3>2. RecencyOf(r)' = stored
      BY <1>3, <2>2, RecencyOfIs, RecencyOfNext DEF Stored
    <3> QED BY <3>1, <3>2
  <2> QED BY <2>1, <2>2, InsertKeepsCount
<1>5. after = [before EXCEPT ![r] = stored]
  BY <1>4
<1> QED BY <1>1, <1>2, <1>5 DEF Promise!Store

LEMMA TouchRefines ==
  ASSUME CountInv, NEW tokens \in Prompts, NEW r \in Replicas, Touch(tokens, r)
  PROVE  Promise!Use(tokens, r)
<1>1. Promise!Settled
  BY BetweenCallsSettled DEF Touch
<1>2. now' \in now .. MaxNow
  BY AdvanceBounds DEF CountInv, IInv, Touch
<1>3. UsedUpTo(tree', tree, tokens, r, now')
  BY TouchKeepsCount
<1>4. \A s : s # r => RecencyOf(s)' = RecencyOf(s)
  BY <1>3, UnaffectedView DEF UsedUpTo
<1>5. PICK i \in 0 .. Len(tokens) : \A q \in Held(tree', r) :
        Recency(tree'.residents, q, r) =
          IF q \in Cuts(SubSeq(tokens, 1, i)) THEN now' ELSE Recency(tree.residents, q, r)
  BY <1>3 DEF UsedUpTo
<1> DEFINE used == [q \in DOMAIN RecencyOf(r) |->
                      IF q \in Promise!PrefixesOf(SubSeq(tokens, 1, i))
                      THEN now' ELSE RecencyOf(r)[q]]
<1>6. RecencyOf(r)' = used
  BY <1>3, <1>5, RecencyOfIs, RecencyOfNext DEF UsedUpTo, Promise!PrefixesOf, Cuts
<1>7. [s \in Replicas |-> RecencyOf(s)'] = [[s \in Replicas |-> RecencyOf(s)] EXCEPT ![r] = used]
  BY <1>4, <1>6
<1> QED BY <1>1, <1>2, <1>5, <1>7 DEF Promise!Use

\* What is left after an eviction is still closed under prefixes.
LEMMA HeldClosed ==
  ASSUME NEW t, DOMAIN t.residents \subseteq Seq(Token), NEW r
  PROVE  Promise!PrefixClosed(Held(t, r))
<1>1. ASSUME NEW q \in Held(t, r), NEW p \in Cuts(q)
      PROVE  p \in Held(t, r)
  <2>1. q \in Seq(Token) /\ Under(t.residents, q, r) # {}
    BY HeldIsUnder
  <2>2. p \in Seq(Token) /\ p # <<>> /\ IsPrefix(p, q)
    BY <2>1, CutsArePrefixes
  <2>3. PICK m \in DOMAIN t.residents : IsPrefix(q, m) /\ r \in DOMAIN t.residents[m]
    BY <2>1 DEF Under
  <2>4. IsPrefix(p, m)
    BY <2>1, <2>2, <2>3, PrefixOrder
  <2>5. Under(t.residents, p, r) # {}
    BY <2>3, <2>4 DEF Under
  <2> QED BY <2>2, <2>5, HeldIsUnder
<1> QED BY <1>1 DEF Promise!PrefixClosed, Promise!PrefixesOf, Cuts

LEMMA EvictRefines ==
  ASSUME CountInv, EvictOne, NEW r \in Replicas, enforcing = r
  PROVE  Promise!Evict(r)
<1> DEFINE view   == [s \in Replicas |-> RecencyOf(s)]
           held   == DOMAIN view[r]
           oldest == {q \in held : \A s \in held : view[r][q] <= view[r][s]}
<1>1. r \in Replicas /\ LostOldest(tree', tree, r) /\ now' = now /\ CountInv'
  BY EvictOneKeepsCount DEF EvictOne
<1>2. Promise!Over(r)
  BY <1>1, OverIsOver DEF CountInv
<1>3. held = Held(tree, r) /\ view[r] = [q \in Held(tree, r) |-> Recency(tree.residents, q, r)]
  BY RecencyOfIs
<1>4. PICK gone \in (SUBSET Held(tree, r)) \ {{}} :
        /\ Held(tree', r) = Held(tree, r) \ gone
        /\ \A q \in gone : \A x \in Held(tree, r) :
             Recency(tree.residents, q, r) <= Recency(tree.residents, x, r)
  BY <1>1 DEF LostOldest
<1>5. gone \in (SUBSET oldest) \ {{}}
  BY <1>3, <1>4
<1>6. Promise!PrefixClosed(held \ gone)
  <2>1. Promise!PrefixClosed(Held(tree', r))
    <3>1. IInv'
      BY <1>1 DEF CountInv
    <3>2. DOMAIN tree'.residents \subseteq Seq(Token)
      BY <3>1, SoundShaped DEF IInv, Shaped
    <3> QED BY <3>2, HeldClosed
  <2> QED BY <1>3, <1>4, <2>1
<1> DEFINE left == [q \in held \ gone |-> view[r][q]]
<1>7. RecencyOf(r)' = left
  BY <1>1, <1>3, <1>4, RecencyOfIs, RecencyOfNext DEF LostOldest
<1>8. \A s : s # r => RecencyOf(s)' = RecencyOf(s)
  BY <1>1, UnaffectedView DEF LostOldest
<1>9. [s \in Replicas |-> RecencyOf(s)'] = [view EXCEPT ![r] = left]
  BY <1>7, <1>8
<1> QED BY <1>1, <1>2, <1>5, <1>6, <1>9 DEF Promise!Evict

LEMMA RemoveReplicaRefines ==
  ASSUME CountInv, NEW r \in Replicas, RemoveReplica(r)
  PROVE  Promise!Forget(r)
<1>1. Promise!Settled /\ now' = now
  BY BetweenCallsSettled DEF RemoveReplica
<1>2. Held(tree', r) = {} /\ \A s : s # r => Unaffected(tree', tree, s)
  BY RemoveReplicaKeepsCount
<1>3. RecencyOf(r)' = [q \in {} |-> 0]
  BY <1>2, RecencyOfNext
<1>4. \A s : s # r => RecencyOf(s)' = RecencyOf(s)
  BY <1>2, UnaffectedView
<1>5. [s \in Replicas |-> RecencyOf(s)']
        = [[s \in Replicas |-> RecencyOf(s)] EXCEPT ![r] = [q \in {} |-> 0]]
  BY <1>3, <1>4
<1> QED BY <1>1, <1>5 DEF Promise!Forget

LEMMA StepRefines ==
  CountInv /\ [Next]_vars => [Promise!Next]_Promise!cacheVars
<1> SUFFICES ASSUME CountInv, [Next]_vars
             PROVE  [Promise!Next]_Promise!cacheVars
  OBVIOUS
<1>1. ASSUME NEW tokens \in Prompts, NEW r \in Replicas, Insert(tokens, r)
      PROVE  Promise!Next
  BY <1>1, InsertRefines DEF Promise!Next
<1>2. CASE EvictOne
  <2>1. PICK r \in Replicas : enforcing = r
    BY <1>2, EvictOneKeepsCount
  <2>2. Promise!Evict(r)
    BY <1>2, <2>1, EvictRefines
  <2> QED BY <2>2 DEF Promise!Next
<1>3. ASSUME NEW tokens \in Prompts, NEW r \in Replicas, Touch(tokens, r)
      PROVE  Promise!Next
  BY <1>3, TouchRefines DEF Promise!Next
<1>4. ASSUME NEW r \in Replicas, RemoveReplica(r)
      PROVE  Promise!Next
  BY <1>4, RemoveReplicaRefines DEF Promise!Next
<1>5. CASE UNCHANGED vars
  <2>1. tree' = tree /\ now' = now
    BY <1>5 DEF vars
  <2>2. \A r : RecencyOf(r)' = RecencyOf(r)
    BY <2>1, RecencyOfIs, RecencyOfNext
  <2> QED BY <2>1, <2>2 DEF Promise!cacheVars
<1> QED BY <1>1, <1>2, <1>3, <1>4, <1>5 DEF Next

\* The tree implements the least-recently-used prefix cache: splits are
\* invisible, one replica's calls change nothing for another, and what leaves is
\* the oldest there is, only when over capacity (PrefixTree).
THEOREM TreeKeepsPromise == Spec => KeepsPromise
<1> QED BY InitRefines, StepRefines, CountedAlways, PTL DEF Spec, KeepsPromise, Promise!Spec
=============================================================================
