---------------------------- MODULE FleetProofs ----------------------------
(***************************************************************************)
(* Theorems of Fleet: whatever replicas join and leave, and whenever, the  *)
(* prefix tree is sound for the members of the moment.                     *)
(***************************************************************************)
EXTENDS Fleet, RadixTreeFacts

\* The tree's methods are the same operators, seen through Tree.
LEMMA SharedOperators ==
  ASSUME NEW t, NEW tokens, NEW r, NEW n, NEW at
  PROVE  /\ Tree!EmptyTree = EmptyTree
         /\ Tree!InsertPath(t, tokens, r, at) = InsertPath(t, tokens, r, at)
         /\ Tree!Touched(t, tokens, r, at) = Touched(t, tokens, r, at)
         /\ Tree!Forgotten(t, r) = Forgotten(t, r)
         /\ Tree!Evictable(t, r) = Evictable(t, r)
         /\ Tree!Evicted(t, r, n) = Evicted(t, r, n)
<1>1. Tree!EmptyTree = EmptyTree
  BY DEF Tree!EmptyTree, Tree!NoResidents, EmptyTree, NoResidents
<1>2. Tree!InsertPath(t, tokens, r, at) = InsertPath(t, tokens, r, at)
  <2>1. Tree!Extended(t, tokens) = Extended(t, tokens)
    BY DEF Tree!Extended, Tree!Matched, Tree!MidEdge, Tree!Children, Tree!Deepest, Tree!Walk,
           Tree!Nodes, Tree!NoResidents, Tree!IsPrefix, Tree!IsStrictPrefix,
           Tree!LongestCommonPrefix, Tree!CommonPrefixes, Tree!Prefixes,
           Extended, Matched, MidEdge, Children, Deepest, Walk, Nodes, NoResidents,
           IsPrefix, IsStrictPrefix, LongestCommonPrefix, CommonPrefixes, Prefixes
  <2>2. \A g : Tree!Novel(g, tokens, r) = Novel(g, tokens, r)
    BY DEF Tree!Novel, Tree!IsPrefix, Novel, IsPrefix
  <2>3. \A g : Tree!Mark(g, tokens, r, at) = Mark(g, tokens, r, at)
    BY DEF Tree!Mark, Tree!IsPrefix, Tree!Put, Mark, IsPrefix, Put
  <2>4. Tree!Used(t, r) = Used(t, r)
    BY DEF Tree!Used, Used
  <2>5. \A S : Tree!Cardinality(S) = Cardinality(S)
    BY DEF Tree!Cardinality, Tree!IsFiniteSet, Cardinality, IsFiniteSet
  <2> QED
    BY <2>1, <2>2, <2>3, <2>4, <2>5 DEF Tree!InsertPath, Tree!Put, InsertPath, Put
<1>3. Tree!Touched(t, tokens, r, at) = Touched(t, tokens, r, at)
  BY DEF Tree!Touched, Tree!Nodes, Tree!Holds, Tree!Put, Tree!IsPrefix,
         Touched, Nodes, Holds, Put, IsPrefix
<1>4. Tree!Forgotten(t, r) = Forgotten(t, r)
  BY DEF Tree!Forgotten, Tree!Nodes, Tree!Drop, Forgotten, Nodes, Drop
<1>5. Tree!Evictable(t, r) = Evictable(t, r)
  BY DEF Tree!Evictable, Tree!Nodes, Tree!Holds, Tree!IsTailFor, Tree!Children,
         Tree!IsStrictPrefix, Tree!IsPrefix,
         Evictable, Nodes, Holds, IsTailFor, Children, IsStrictPrefix, IsPrefix
<1>6. Tree!Evicted(t, r, n) = Evicted(t, r, n)
  BY DEF Tree!Evicted, Tree!Drop, Tree!Put, Tree!Used, Tree!Edge, Tree!Children,
         Tree!Nodes, Tree!IsStrictPrefix, Tree!IsPrefix,
         Evicted, Drop, Put, Used, Edge, Children, Nodes, IsStrictPrefix, IsPrefix
<1> QED BY <1>1, <1>2, <1>3, <1>4, <1>5, <1>6

\* The handles have to be remembered: a completion may concern a replica that
\* has gone, or come back.
FleetInv ==
  /\ Sound(tree, Token, Prompts, Members, now)
  /\ now \in 0 .. MaxNow
  /\ enforcing \in Members \cup {None}
  /\ Members \subseteq Replicas
  /\ \A d \in DOMAIN open : open[d].replica_id \in Replicas /\ open[d].tokens \in Prompts

LEMMA AdvanceBounds ==
  ASSUME now \in 0 .. MaxNow, Tree!Advance
  PROVE  now \in Nat /\ now' \in Nat /\ now <= now' /\ now' \in 0 .. MaxNow
BY TreeAssumption DEF Tree!Advance

LEMMA InitFleet == Init => FleetInv
<1> SUFFICES ASSUME Init PROVE FleetInv
  OBVIOUS
<1>1. tree = EmptyTree /\ now = 0 /\ enforcing = None
  BY SharedOperators DEF Init, Tree!Init
<1>2. Sound(EmptyTree, Token, Prompts, Members, 0)
  BY EmptySound
<1>3. Members = replica_ids /\ DOMAIN open = {}
  BY DEF Init, Members
<1> QED BY <1>1, <1>2, <1>3, FleetAssumption, TreeAssumption DEF FleetInv

LEMMA DispatchKeeps ==
  ASSUME FleetInv, NEW d \in Handles, NEW r \in Replicas, NEW tokens \in Prompts,
         Dispatch(d, r, tokens)
  PROVE  FleetInv'
<1>1. /\ Sound(tree, Token, Prompts, Members, now) /\ r \in Members
      /\ enforcing' \in Members \cup {None}
  BY DEF FleetInv, Dispatch, Tree!Insert
<1>2. now \in Nat /\ now' \in Nat /\ now <= now' /\ now' \in 0 .. MaxNow
  BY AdvanceBounds DEF FleetInv, Dispatch, Tree!Insert
<1>3. Sound(tree', Token, Prompts, Members, now')
  <2>1. CASE tokens = <<>>
    <3>1. tree' = tree
      BY <2>1 DEF Dispatch, Tree!Insert
    <3> QED BY <1>1, <1>2, <3>1, SoundLater
  <2>2. CASE tokens # <<>>
    <3>1. tree' = InsertPath(tree, tokens, r, now')
      BY <2>2, SharedOperators DEF Dispatch, Tree!Insert
    <3>2. Sound(InsertPath(tree, tokens, r, now'), Token, Prompts, Members, now')
      BY <1>1, <1>2, TreeAssumption, InsertSound
    <3> QED BY <3>1, <3>2
  <2> QED BY <2>1, <2>2
<1>4. Members' = Members
  BY DEF Dispatch, Members
<1>5. \A e \in DOMAIN open' : open'[e].replica_id \in Replicas /\ open'[e].tokens \in Prompts
  BY DEF FleetInv, Dispatch, Put
<1> QED BY <1>1, <1>2, <1>3, <1>4, <1>5 DEF FleetInv

LEMMA CompleteKeeps ==
  ASSUME FleetInv, NEW d \in Handles, Complete(d)
  PROVE  FleetInv'
<1>1. /\ Sound(tree, Token, Prompts, Members, now) /\ d \in DOMAIN open
      /\ enforcing' \in Members \cup {None}
  BY DEF FleetInv, Complete, Tree!Touch
<1>2. \A e \in DOMAIN open' : open'[e].replica_id \in Replicas /\ open'[e].tokens \in Prompts
  BY DEF FleetInv, Complete, Drop
<1>3. CASE open[d].replica_id \in Members
  <2> DEFINE r == open[d].replica_id
  <2>1. tree' = Touched(tree, open[d].tokens, r, now')
    BY <1>3, SharedOperators DEF Complete, Tree!Touch
  <2>2. now \in Nat /\ now' \in Nat /\ now <= now' /\ now' \in 0 .. MaxNow
    BY <1>3, AdvanceBounds DEF FleetInv, Complete, Tree!Touch
  <2>3. Sound(tree', Token, Prompts, Members, now')
    <3>1. open[d].tokens \in Prompts
      BY <1>1 DEF FleetInv
    <3> QED BY <1>1, <2>1, <2>2, <3>1, TreeAssumption, TouchSound
  <2>4. Members' = Members
    BY <1>3 DEF Complete, Members
  <2> QED BY <1>1, <1>2, <2>2, <2>3, <2>4 DEF FleetInv
<1>4. CASE open[d].replica_id \notin Members
  <2>1. UNCHANGED <<tree, now, enforcing, replicas>>
    BY <1>4 DEF Complete
  <2> QED BY <1>2, <2>1 DEF FleetInv, Members
<1> QED BY <1>3, <1>4

LEMMA AddReplicaKeeps ==
  ASSUME FleetInv, NEW r \in Replicas, AddReplica(r)
  PROVE  FleetInv'
<1>1. Members \subseteq Members' /\ Members' \subseteq Replicas
  BY DEF FleetInv, AddReplica, Members, SetDefault, Put
<1>2. UNCHANGED <<tree, now, enforcing, open>>
  BY DEF AddReplica
<1>3. Sound(tree, Token, Prompts, Members', now)
  BY <1>1, SoundMore DEF FleetInv
<1> QED BY <1>1, <1>2, <1>3 DEF FleetInv

\* The member that leaves is gone from the tree in the same step.
LEMMA RemoveReplicaKeeps ==
  ASSUME FleetInv, NEW r \in Replicas, RemoveReplica(r)
  PROVE  FleetInv'
<1>1. Members' = Members \ {r}
  BY DEF RemoveReplica, Members, Drop
<1>2. /\ tree' = Forgotten(tree, r) /\ now' = now /\ enforcing' = None /\ open' = open
  BY SharedOperators DEF RemoveReplica, Tree!RemoveReplica
<1>3. now \in Nat
  BY TreeAssumption DEF FleetInv
<1>4. Sound(Forgotten(tree, r), Token, Prompts, Members \ {r}, now)
  BY <1>3, ForgetSound DEF FleetInv
<1> QED BY <1>1, <1>2, <1>4 DEF FleetInv

LEMMA EnforceKeeps ==
  ASSUME FleetInv, Enforce
  PROVE  FleetInv'
<1>1. /\ Sound(tree, Token, Prompts, Members, now) /\ now \in Nat
      /\ enforcing \in Members /\ enforcing' \in Members \cup {None}
      /\ UNCHANGED <<now, replicas, open>>
  BY TreeAssumption DEF FleetInv, Enforce, Tree!EvictOne
<1>2. Sound(tree', Token, Prompts, Members, now)
  <2>1. CASE tree' = tree
    BY <1>1, <2>1
  <2>2. CASE tree' # tree
    <3>1. PICK victim \in Evictable(tree, enforcing) : tree' = Evicted(tree, enforcing, victim)
      BY <2>2, SharedOperators DEF Enforce, Tree!EvictOne, Tree!Victims
    <3>2. Sound(Evicted(tree, enforcing, victim), Token, Prompts, Members, now)
      BY <1>1, EvictSound
    <3> QED BY <3>1, <3>2
  <2> QED BY <2>1, <2>2
<1> QED BY <1>1, <1>2 DEF FleetInv, Members

THEOREM FleetInvAlways == Spec => []FleetInv
<1>1. Init => FleetInv
  BY InitFleet
<1>2. FleetInv /\ [Next]_vars => FleetInv'
  <2> SUFFICES ASSUME FleetInv, [Next]_vars
               PROVE  FleetInv'
    OBVIOUS
  <2>1. ASSUME NEW d \in Handles, NEW r \in Replicas, NEW tokens \in Prompts,
               Dispatch(d, r, tokens)
        PROVE  FleetInv'
    BY <2>1, DispatchKeeps
  <2>2. ASSUME NEW d \in Handles, Complete(d)
        PROVE  FleetInv'
    BY <2>2, CompleteKeeps
  <2>3. ASSUME NEW r \in Replicas, AddReplica(r)
        PROVE  FleetInv'
    BY <2>3, AddReplicaKeeps
  <2>4. ASSUME NEW r \in Replicas, RemoveReplica(r)
        PROVE  FleetInv'
    BY <2>4, RemoveReplicaKeeps
  <2>5. CASE Enforce
    BY <2>5, EnforceKeeps
  <2>6. CASE UNCHANGED vars
    BY <2>6 DEF FleetInv, Members, vars
  <2> QED BY <2>1, <2>2, <2>3, <2>4, <2>5, <2>6 DEF Next
<1> QED BY <1>1, <1>2, PTL DEF Spec

\* The tree never names a replica that has left the fleet, so that no policy
\* is offered one (Fleet.remove_replica, PureAffinity.choose).
THEOREM ResidentsAreAlwaysMembers == Spec => []ResidentsAreMembers
<1>1. FleetInv => ResidentsAreMembers
  BY TreeAssumption DEF FleetInv, Sound, Timed, Nodes, ResidentsAreMembers
<1> QED BY <1>1, FleetInvAlways, PTL

----------------------------------------------------------------------------
\* The load of a replica: what is counted for it against what it owes.

\* The tokens missed by the requests S, each one once.
Missed(o, S) == UNION {{d} \X (1 .. o[d].uncached_tokens) : d \in S}

\* One more request misses that many tokens more.
LEMMA MissedAdd ==
  ASSUME NEW o, NEW S, NEW d, d \notin S, o[d].uncached_tokens \in Nat,
         IsFiniteSet(Missed(o, S))
  PROVE  /\ IsFiniteSet(Missed(o, S \cup {d}))
         /\ Cardinality(Missed(o, S \cup {d})) =
              Cardinality(Missed(o, S)) + o[d].uncached_tokens
<1> DEFINE u    == o[d].uncached_tokens
           M    == Missed(o, S)
           more == {d} \X (1 .. u)
<1>1. Missed(o, S \cup {d}) = M \cup more
  BY DEF Missed
<1>2. IsFiniteSet(more) /\ Cardinality(more) = u
  <2>1. IsFiniteSet({d}) /\ Cardinality({d}) = 1
    BY FS_Singleton
  <2>2. IsFiniteSet(1 .. u) /\ Cardinality(1 .. u) = u
    <3>1. 1 \in Int /\ u \in Int
      OBVIOUS
    <3>2. IsFiniteSet(1 .. u) /\ Cardinality(1 .. u) = IF 1 > u THEN 0 ELSE u - 1 + 1
      BY <3>1, FS_Interval
    <3> QED BY <3>2
  <2>4. u \in Nat
    OBVIOUS
  <2> HIDE DEF u
  <2>3. IsFiniteSet({d} \X (1 .. u))
        /\ Cardinality({d} \X (1 .. u)) = Cardinality({d}) * Cardinality(1 .. u)
    BY <2>1, <2>2, FS_Product
  <2> QED BY <2>1, <2>2, <2>3, <2>4
<1>3. M \cap more = {}
  BY DEF Missed
<1> HIDE DEF u, M, more
<1>4. IsFiniteSet(M) /\ Cardinality(M) \in Nat /\ u \in Nat
  BY FS_CardinalityType DEF M, u
<1>5. /\ IsFiniteSet(M \cup more)
      /\ Cardinality(M \cup more) = Cardinality(M) + Cardinality(more) - Cardinality(M \cap more)
  BY <1>2, <1>4, FS_Union
<1>6. Cardinality(M \cap more) = 0
  BY <1>3, FS_EmptySet
<1>7. IsFiniteSet(M \cup more) /\ Cardinality(M \cup more) = Cardinality(M) + u
  BY <1>2, <1>4, <1>5, <1>6
<1> QED BY <1>1, <1>7 DEF M, u

\* Only the requests of S matter.
LEMMA MissedAgrees ==
  ASSUME NEW o, NEW p, NEW S, \A d \in S : o[d] = p[d]
  PROVE  Missed(o, S) = Missed(p, S)
BY DEF Missed

\* Of fewer requests, no more.
LEMMA MissedFewer ==
  ASSUME NEW o, NEW S, NEW R, R \subseteq S, IsFiniteSet(Missed(o, S))
  PROVE  IsFiniteSet(Missed(o, R)) /\ Cardinality(Missed(o, R)) \in Nat
<1>1. Missed(o, R) \subseteq Missed(o, S)
  BY DEF Missed
<1> QED BY <1>1, FS_Subset, FS_CardinalityType

\* What is open and what is counted are of their types, and finite; whoever is
\* not a member owes nothing; and only to a reused id have orphans been sent.
OpenInv ==
  /\ FleetInv
  /\ replicas \in [Members -> [in_flight : Nat, pending_prefill_tokens : Nat]]
  /\ DOMAIN open \subseteq Handles
  /\ open \in [DOMAIN open -> [replica_id : Replicas, tokens : Prompts, uncached_tokens : Nat]]
  /\ IsFiniteSet(DOMAIN open) /\ IsFiniteSet(Missed(open, DOMAIN open))
  /\ orphans \subseteq DOMAIN open /\ reused \subseteq Members
  /\ \A r \in Replicas \ Members : Owed(r) = {}
  /\ \A r \in Members \ reused : OpenOn(r) \cap orphans = {}

\* A request never misses fewer than none of its tokens.
LEMMA UncachedNat ==
  ASSUME FleetInv, NEW r, NEW tokens \in Prompts
  PROVE  Uncached(tokens, r) \in Nat
<1>1. Shaped(tree.residents, Token) /\ tokens \in Seq(Token)
  BY SoundShaped, TreeAssumption DEF FleetInv
<1>2. Cached(tokens, r) \in 0 .. Len(tokens)
  BY <1>1, TreeAssumption, MatchWithinPrompt DEF Cached
<1> QED BY <1>1, <1>2 DEF Uncached

LEMMA InitOpen == Init => OpenInv
<1> SUFFICES ASSUME Init PROVE OpenInv
  OBVIOUS
<1>1. /\ Members = replica_ids /\ DOMAIN open = {} /\ orphans = {} /\ reused = {}
      /\ replicas = [r \in replica_ids |-> ReplicaState]
      /\ open \in [{} -> [replica_id : Replicas, tokens : Prompts, uncached_tokens : Nat]]
  BY DEF Init, Members
<1>2. \A r : OpenOn(r) = {} /\ Owed(r) = {}
  BY <1>1 DEF OpenOn, Owed
<1>3. Missed(open, {}) = {}
  BY DEF Missed
<1> QED BY <1>1, <1>2, <1>3, InitFleet, FS_EmptySet DEF OpenInv, ReplicaState

\* Dispatch adds the request to what its replica owes, and to nobody else's.
Sent(r, d, missed) ==
  /\ d \notin DOMAIN open /\ r \in Members /\ missed \in Nat
  /\ Members' = Members /\ UNCHANGED <<orphans, reused>>
  /\ DOMAIN open' = DOMAIN open \cup {d}
  /\ \A e \in DOMAIN open : open'[e] = open[e]
  /\ open'[d].uncached_tokens = missed
  /\ open'[d] \in [replica_id : Replicas, tokens : Prompts, uncached_tokens : Nat]
  /\ OpenOn(r)' = OpenOn(r) \cup {d} /\ Owed(r)' = Owed(r) \cup {d}
  /\ \A s : s # r => OpenOn(s)' = OpenOn(s) /\ Owed(s)' = Owed(s) /\ replicas'[s] = replicas[s]
  /\ replicas'[r].in_flight = replicas[r].in_flight + 1
  /\ replicas'[r].pending_prefill_tokens = replicas[r].pending_prefill_tokens + missed

LEMMA DispatchSends ==
  ASSUME OpenInv, NEW d \in Handles, NEW r \in Replicas, NEW tokens \in Prompts,
         Dispatch(d, r, tokens)
  PROVE  Sent(r, d, Uncached(tokens, r))
<1> DEFINE u == Uncached(tokens, r)
<1>1. u \in Nat
  BY UncachedNat DEF OpenInv
<1>2. /\ d \notin DOMAIN open /\ r \in Members /\ UNCHANGED <<orphans, reused>>
      /\ replicas' = [replicas EXCEPT
           ![r] = [in_flight |-> @.in_flight + 1,
                   pending_prefill_tokens |-> @.pending_prefill_tokens + u]]
      /\ open' = Put(open, d, [replica_id |-> r, tokens |-> tokens, uncached_tokens |-> u])
  BY DEF Dispatch
<1> HIDE DEF u
<1>3. /\ replicas \in [Members -> [in_flight : Nat, pending_prefill_tokens : Nat]]
      /\ orphans \subseteq DOMAIN open
  BY DEF OpenInv
<1>4. /\ DOMAIN open' = DOMAIN open \cup {d} /\ \A e \in DOMAIN open : open'[e] = open[e]
      /\ open'[d] = [replica_id |-> r, tokens |-> tokens, uncached_tokens |-> u]
  BY <1>2 DEF Put
<1>5. /\ Members' = Members /\ \A s : s # r => replicas'[s] = replicas[s]
      /\ replicas'[r].in_flight = replicas[r].in_flight + 1
      /\ replicas'[r].pending_prefill_tokens = replicas[r].pending_prefill_tokens + u
  BY <1>2, <1>3 DEF Members
<1>6. OpenOn(r)' = OpenOn(r) \cup {d} /\ \A s : s # r => OpenOn(s)' = OpenOn(s)
  BY <1>2, <1>4 DEF OpenOn
<1>7. Owed(r)' = Owed(r) \cup {d} /\ \A s : s # r => Owed(s)' = Owed(s)
  BY <1>2, <1>3, <1>6 DEF Owed
<1>8. Sent(r, d, u)
  BY <1>1, <1>2, <1>4, <1>5, <1>6, <1>7 DEF Sent
<1> QED BY <1>8 DEF u

\* A completion takes a request from what its replica owes, if it is there.
Finished(r, d) ==
  /\ d \in DOMAIN open /\ r \in Replicas
  /\ Members' = Members /\ orphans' = orphans \ {d} /\ UNCHANGED reused
  /\ DOMAIN open' = DOMAIN open \ {d}
  /\ \A e \in DOMAIN open' : open'[e] = open[e]
  /\ OpenOn(r)' = OpenOn(r) \ {d} /\ Owed(r)' = Owed(r) \ {d}
  /\ d \in Owed(r) <=> d \notin orphans
  /\ \A s : s # r => OpenOn(s)' = OpenOn(s) /\ Owed(s)' = Owed(s) /\ replicas'[s] = replicas[s]
  /\ r \in Members =>
       /\ replicas'[r].in_flight = FloorAtZero(replicas[r].in_flight - 1)
       /\ replicas'[r].pending_prefill_tokens =
            FloorAtZero(replicas[r].pending_prefill_tokens - open[d].uncached_tokens)

LEMMA CompleteFinishes ==
  ASSUME OpenInv, NEW d \in Handles, Complete(d), NEW r, r = open[d].replica_id
  PROVE  Finished(r, d)
<1>1. /\ d \in DOMAIN open /\ open' = Drop(open, d)
      /\ orphans' = orphans \ {d} /\ UNCHANGED reused
  BY DEF Complete
<1>2. /\ replicas \in [Members -> [in_flight : Nat, pending_prefill_tokens : Nat]]
      /\ r \in Replicas /\ orphans \subseteq DOMAIN open
  BY <1>1 DEF OpenInv
<1>3. DOMAIN open' = DOMAIN open \ {d} /\ \A e \in DOMAIN open' : open'[e] = open[e]
  BY <1>1 DEF Drop
<1>4. /\ Members' = Members /\ \A s : s # r => replicas'[s] = replicas[s]
      /\ r \in Members =>
           /\ replicas'[r].in_flight = FloorAtZero(replicas[r].in_flight - 1)
           /\ replicas'[r].pending_prefill_tokens =
                FloorAtZero(replicas[r].pending_prefill_tokens - open[d].uncached_tokens)
  <2>1. CASE r \in Members
    <3>1. replicas' = [replicas EXCEPT
            ![r] = [in_flight |-> FloorAtZero(@.in_flight - 1),
                    pending_prefill_tokens |->
                      FloorAtZero(@.pending_prefill_tokens - open[d].uncached_tokens)]]
      BY <2>1 DEF Complete, Due
    <3> QED BY <1>2, <2>1, <3>1 DEF Members
  <2>2. CASE r \notin Members
    BY <2>2 DEF Complete, Members
  <2> QED BY <2>1, <2>2
<1>5. OpenOn(r)' = OpenOn(r) \ {d} /\ \A s : s # r => OpenOn(s)' = OpenOn(s)
  BY <1>1, <1>3 DEF OpenOn
<1>6. Owed(r)' = Owed(r) \ {d} /\ (d \in Owed(r) <=> d \notin orphans)
  BY <1>1, <1>5 DEF Owed, OpenOn
<1>7. \A s : s # r => Owed(s)' = Owed(s)
  BY <1>1, <1>5 DEF Owed, OpenOn
<1> QED BY <1>1, <1>2, <1>3, <1>4, <1>5, <1>6, <1>7 DEF Finished

LEMMA DispatchKeepsOpen ==
  ASSUME OpenInv, NEW d \in Handles, NEW r \in Replicas, NEW tokens \in Prompts,
         Dispatch(d, r, tokens)
  PROVE  OpenInv'
<1>1. FleetInv'
  BY DispatchKeeps DEF OpenInv
<1>2. Sent(r, d, Uncached(tokens, r))
  BY DispatchSends
<1>3. replicas' \in [Members' -> [in_flight : Nat, pending_prefill_tokens : Nat]]
  <2>1. replicas' = [replicas EXCEPT
          ![r] = [in_flight |-> @.in_flight + 1,
                  pending_prefill_tokens |-> @.pending_prefill_tokens + Uncached(tokens, r)]]
    BY DEF Dispatch
  <2> QED BY <1>2, <2>1 DEF Sent, OpenInv
<1>4. open' \in [DOMAIN open' -> [replica_id : Replicas, tokens : Prompts, uncached_tokens : Nat]]
  <2>1. open' = [e \in DOMAIN open' |-> open'[e]]
    BY DEF Dispatch, Put
  <2>2. \A e \in DOMAIN open' : open'[e] \in [replica_id : Replicas, tokens : Prompts, uncached_tokens : Nat]
    BY <1>2 DEF Sent, OpenInv
  <2> QED BY <2>1, <2>2
<1>5. IsFiniteSet(DOMAIN open') /\ DOMAIN open' \subseteq Handles
  BY <1>2, FS_AddElement DEF Sent, OpenInv
<1>6. IsFiniteSet(Missed(open', DOMAIN open'))
  <2>1. Missed(open', DOMAIN open) = Missed(open, DOMAIN open)
    BY <1>2, MissedAgrees DEF Sent
  <2>2. IsFiniteSet(Missed(open', DOMAIN open)) /\ d \notin DOMAIN open
        /\ open'[d].uncached_tokens \in Nat
    BY <1>2, <2>1 DEF OpenInv, Sent
  <2>3. IsFiniteSet(Missed(open', DOMAIN open \cup {d}))
    BY <2>2, MissedAdd
  <2> QED BY <1>2, <2>3 DEF Sent
<1>7. orphans' \subseteq DOMAIN open' /\ reused' \subseteq Members'
  BY <1>2 DEF Sent, OpenInv
<1>8. \A s \in Replicas \ Members' : Owed(s)' = {}
  BY <1>2 DEF Sent, OpenInv
<1>9. \A s \in Members' \ reused' : OpenOn(s)' \cap orphans' = {}
  BY <1>2 DEF Sent, OpenInv
<1> QED BY <1>1, <1>3, <1>4, <1>5, <1>6, <1>7, <1>8, <1>9 DEF OpenInv

LEMMA CompleteKeepsOpen ==
  ASSUME OpenInv, NEW d \in Handles, Complete(d)
  PROVE  OpenInv'
<1> PICK r : r = open[d].replica_id
  OBVIOUS
<1>1. FleetInv'
  BY CompleteKeeps DEF OpenInv
<1>2. Finished(r, d)
  BY CompleteFinishes
<1>3. replicas' \in [Members' -> [in_flight : Nat, pending_prefill_tokens : Nat]]
  <2>1. CASE r \in Members
    <3>1. replicas' = [replicas EXCEPT
            ![r] = [in_flight |-> FloorAtZero(@.in_flight - 1),
                    pending_prefill_tokens |-> FloorAtZero(@.pending_prefill_tokens - Due(d))]]
      BY <2>1 DEF Complete
    <3>2. Due(d) \in Nat
      BY <1>2 DEF Finished, OpenInv, Due
    <3>3. \A i, j \in Nat : FloorAtZero(i - 1) \in Nat /\ FloorAtZero(i - j) \in Nat
      BY DEF FloorAtZero
    <3> QED BY <1>2, <2>1, <3>1, <3>2, <3>3 DEF Finished, OpenInv
  <2>2. CASE r \notin Members
    BY <1>2, <2>2 DEF Complete, Finished, OpenInv
  <2> QED BY <2>1, <2>2
<1>4. open' \in [DOMAIN open' -> [replica_id : Replicas, tokens : Prompts, uncached_tokens : Nat]]
  BY <1>2 DEF Complete, Drop, Finished, OpenInv
<1>5. IsFiniteSet(DOMAIN open') /\ DOMAIN open' \subseteq Handles
  BY <1>2, FS_RemoveElement DEF Finished, OpenInv
<1>6. IsFiniteSet(Missed(open', DOMAIN open'))
  <2>1. Missed(open', DOMAIN open') = Missed(open, DOMAIN open')
    BY <1>2, MissedAgrees DEF Finished
  <2>2. DOMAIN open' \subseteq DOMAIN open
    BY <1>2 DEF Finished
  <2> QED BY <2>1, <2>2, MissedFewer DEF OpenInv
<1>7. orphans' \subseteq DOMAIN open' /\ reused' \subseteq Members'
  BY <1>2 DEF Finished, OpenInv
<1>8. \A s \in Replicas \ Members' : Owed(s)' = {}
  <2>1. ASSUME NEW s PROVE Owed(s)' \subseteq Owed(s)
    BY DEF Complete, Drop, Owed, OpenOn
  <2> QED BY <1>2, <2>1 DEF Finished, OpenInv
<1>9. \A s \in Members' \ reused' : OpenOn(s)' \cap orphans' = {}
  <2>1. ASSUME NEW s PROVE OpenOn(s)' \subseteq OpenOn(s)
    BY DEF Complete, Drop, OpenOn
  <2> QED BY <1>2, <2>1 DEF Finished, OpenInv
<1> QED BY <1>1, <1>3, <1>4, <1>5, <1>6, <1>7, <1>8, <1>9 DEF OpenInv

LEMMA AddReplicaKeepsOpen ==
  ASSUME OpenInv, NEW r \in Replicas, AddReplica(r)
  PROVE  OpenInv'
<1>1. FleetInv' /\ UNCHANGED <<open, orphans>>
  BY AddReplicaKeeps DEF OpenInv, AddReplica
<1>2. replicas' \in [Members' -> [in_flight : Nat, pending_prefill_tokens : Nat]]
      /\ Members' = Members \cup {r}
  BY DEF OpenInv, AddReplica, Members, SetDefault, Put, ReplicaState
<1>3. \A s : OpenOn(s)' = OpenOn(s) /\ Owed(s)' = Owed(s)
  BY <1>1 DEF OpenOn, Owed
<1>4. reused' = IF r \notin Members /\ OpenOn(r) # {} THEN reused \cup {r} ELSE reused
  BY DEF AddReplica
<1>5. \A s \in Members' \ reused' : OpenOn(s)' \cap orphans' = {}
  BY <1>1, <1>2, <1>3, <1>4 DEF OpenInv
<1>6. reused' \subseteq Members' /\ \A s \in Replicas \ Members' : Owed(s)' = {}
  BY <1>2, <1>3, <1>4 DEF OpenInv
<1> QED BY <1>1, <1>2, <1>5, <1>6 DEF OpenInv

LEMMA RemoveReplicaKeepsOpen ==
  ASSUME OpenInv, NEW r \in Replicas, RemoveReplica(r)
  PROVE  /\ OpenInv'
         /\ \A s \in Members' : s \in Members /\ Owed(s)' = Owed(s) /\ replicas'[s] = replicas[s]
<1>1. FleetInv' /\ UNCHANGED open /\ orphans' = orphans \cup OpenOn(r) /\ reused' = reused \ {r}
  BY RemoveReplicaKeeps DEF OpenInv, RemoveReplica
<1>2. /\ replicas' \in [Members' -> [in_flight : Nat, pending_prefill_tokens : Nat]]
      /\ Members' = Members \ {r} /\ \A s \in Members' : replicas'[s] = replicas[s]
  BY DEF OpenInv, RemoveReplica, Members, Drop
<1>3. OpenOn(r) \subseteq DOMAIN open
  BY DEF OpenOn
<1>4. \A s : OpenOn(s)' = OpenOn(s) /\ (s # r => Owed(s)' = Owed(s)) /\ Owed(s)' \subseteq Owed(s)
  BY <1>1 DEF OpenOn, Owed
<1>5. Owed(r)' = {}
  BY <1>1, <1>4 DEF Owed
<1>6. ASSUME NEW s \in Members' \ reused'
      PROVE  OpenOn(s)' \cap orphans' = {}
  <2>1. OpenOn(s) \cap orphans = {} /\ s # r
    BY <1>1, <1>2, <1>6 DEF OpenInv
  <2> QED BY <1>1, <1>4, <2>1 DEF OpenOn
<1>7. \A s \in Replicas \ Members' : Owed(s)' = {}
  BY <1>2, <1>4, <1>5 DEF OpenInv
<1>8. orphans' \subseteq DOMAIN open' /\ reused' \subseteq Members'
  BY <1>1, <1>2, <1>3 DEF OpenInv
<1> QED BY <1>1, <1>2, <1>4, <1>6, <1>7, <1>8 DEF OpenInv

LEMMA EnforceKeepsOpen ==
  ASSUME OpenInv, Enforce
  PROVE  OpenInv'
<1>1. FleetInv' /\ UNCHANGED <<replicas, open, orphans, reused>>
  BY EnforceKeeps DEF OpenInv, Enforce
<1> QED BY <1>1 DEF OpenInv, Members, Owed, OpenOn

THEOREM OpenInvAlways == Spec => []OpenInv
<1>1. OpenInv /\ [Next]_vars => OpenInv'
  <2> SUFFICES ASSUME OpenInv, [Next]_vars
               PROVE  OpenInv'
    OBVIOUS
  <2>1. ASSUME NEW d \in Handles, NEW r \in Replicas, NEW tokens \in Prompts,
               Dispatch(d, r, tokens)
        PROVE  OpenInv'
    BY <2>1, DispatchKeepsOpen
  <2>2. ASSUME NEW d \in Handles, Complete(d)
        PROVE  OpenInv'
    BY <2>2, CompleteKeepsOpen
  <2>3. ASSUME NEW r \in Replicas, AddReplica(r)
        PROVE  OpenInv'
    BY <2>3, AddReplicaKeepsOpen
  <2>4. ASSUME NEW r \in Replicas, RemoveReplica(r)
        PROVE  OpenInv'
    BY <2>4, RemoveReplicaKeepsOpen
  <2>5. CASE Enforce
    BY <2>5, EnforceKeepsOpen
  <2>6. CASE UNCHANGED vars
    <3>1. FleetInv'
      BY <2>6 DEF OpenInv, FleetInv, Members, vars
    <3> QED BY <2>6, <3>1 DEF OpenInv, Members, Owed, OpenOn, vars
  <2> QED BY <2>1, <2>2, <2>3, <2>4, <2>5, <2>6 DEF Next
<1> QED BY <1>1, InitOpen, PTL DEF Spec

\* The fleet's records are of their types: no counter goes below zero, whatever
\* is completed after its replica has gone or come back (dispatch, complete).
THEOREM FleetTypeCorrect == Spec => []TypeOK
<1>1. OpenInv => TypeOK
  <2> SUFFICES ASSUME OpenInv PROVE TypeOK
    OBVIOUS
  <2>1. /\ Sound(tree, Token, Prompts, Members, now) /\ now \in 0 .. MaxNow
        /\ enforcing \in Members \cup {None} /\ Members \subseteq Replicas
    BY DEF OpenInv, FleetInv
  <2>2. Tree!TypeOK
    BY <2>1 DEF Sound, Timed, Rooted, Nodes, NoResidents,
                Tree!TypeOK, Tree!Nodes, Tree!NoResidents, Tree!IsPrefix, IsPrefix
  <2> QED BY <2>1, <2>2 DEF OpenInv, TypeOK
<1> QED BY <1>1, OpenInvAlways, PTL

----------------------------------------------------------------------------
\* What the counters of a replica are compared with.
LEMMA OwedCounted ==
  ASSUME OpenInv, NEW r
  PROVE  /\ Owed(r) \subseteq DOMAIN open
         /\ IsFiniteSet(Owed(r)) /\ Cardinality(Owed(r)) \in Nat
         /\ IsFiniteSet(Missed(open, Owed(r)))
         /\ Pending(r) = Cardinality(Missed(open, Owed(r))) /\ Pending(r) \in Nat
<1>1. Owed(r) \subseteq DOMAIN open
  BY DEF Owed, OpenOn
<1>2. IsFiniteSet(Owed(r)) /\ Cardinality(Owed(r)) \in Nat
  BY <1>1, FS_Subset, FS_CardinalityType DEF OpenInv
<1>3. IsFiniteSet(Missed(open, Owed(r))) /\ Cardinality(Missed(open, Owed(r))) \in Nat
  BY <1>1, MissedFewer DEF OpenInv
<1>4. Pending(r) = Cardinality(Missed(open, Owed(r)))
  BY DEF Pending, Missed
<1> QED BY <1>1, <1>2, <1>3, <1>4

\* Who owes the same requests, with the same counts, owes as much.
LEMMA SameLoad ==
  ASSUME NEW r, Owed(r)' = Owed(r), \A d \in Owed(r) : open'[d] = open[d]
  PROVE  Cardinality(Owed(r))' = Cardinality(Owed(r)) /\ Pending(r)' = Pending(r)
<1>1. Missed(open', Owed(r)) = Missed(open, Owed(r))
  BY MissedAgrees
<1>2. Pending(r)' = Cardinality(Missed(open', Owed(r)))
  BY DEF Pending, Missed
<1>3. Pending(r) = Cardinality(Missed(open, Owed(r)))
  BY DEF Pending, Missed
<1> QED BY <1>1, <1>2, <1>3

LEMMA SentLoad ==
  ASSUME OpenInv, NEW r, NEW d, NEW missed, Sent(r, d, missed)
  PROVE  /\ Cardinality(Owed(r))' = Cardinality(Owed(r)) + 1
         /\ Pending(r)' = Pending(r) + missed
<1>1. /\ d \notin Owed(r) /\ Owed(r)' = Owed(r) \cup {d}
      /\ \A e \in Owed(r) : open'[e] = open[e]
      /\ open'[d].uncached_tokens = missed /\ missed \in Nat
  BY OwedCounted DEF Sent
<1>2. /\ IsFiniteSet(Owed(r)) /\ IsFiniteSet(Missed(open, Owed(r)))
      /\ Pending(r) = Cardinality(Missed(open, Owed(r)))
  BY OwedCounted
<1>3. Cardinality(Owed(r) \cup {d}) = Cardinality(Owed(r)) + 1
  BY <1>1, <1>2, FS_AddElement
<1>4. Missed(open', Owed(r)) = Missed(open, Owed(r))
  BY <1>1, MissedAgrees
<1>5. Cardinality(Missed(open', Owed(r) \cup {d})) =
        Cardinality(Missed(open', Owed(r))) + open'[d].uncached_tokens
  BY <1>1, <1>2, <1>4, MissedAdd
<1>6. Pending(r)' = Cardinality(Missed(open', Owed(r)'))
  BY DEF Pending, Missed
<1> QED BY <1>1, <1>2, <1>3, <1>4, <1>5, <1>6

LEMMA FinishedLoad ==
  ASSUME OpenInv, NEW r, NEW d, Finished(r, d), d \in Owed(r)
  PROVE  /\ Cardinality(Owed(r))' = Cardinality(Owed(r)) - 1
         /\ Pending(r)' = Pending(r) - open[d].uncached_tokens
         /\ Cardinality(Owed(r))' \in Nat /\ Pending(r)' \in Nat
<1> DEFINE R == Owed(r) \ {d}
<1>1. /\ Owed(r)' = R /\ d \notin R /\ Owed(r) = R \cup {d}
      /\ R \subseteq DOMAIN open' /\ \A e \in R : open'[e] = open[e]
  BY OwedCounted DEF Finished
<1>2. /\ IsFiniteSet(Owed(r)) /\ IsFiniteSet(Missed(open, Owed(r)))
      /\ Pending(r) = Cardinality(Missed(open, Owed(r)))
      /\ open[d].uncached_tokens \in Nat /\ Cardinality(Owed(r)) \in Nat
  BY OwedCounted DEF OpenInv, Finished
<1>3. Cardinality(R) = Cardinality(Owed(r)) - 1 /\ Cardinality(R) \in Nat
  BY <1>1, <1>2, FS_RemoveElement, FS_CardinalityType
<1> HIDE DEF R
<1>4. IsFiniteSet(Missed(open, R)) /\ Cardinality(Missed(open, R)) \in Nat
  BY <1>1, <1>2, MissedFewer
<1>5. Cardinality(Missed(open, R \cup {d})) =
        Cardinality(Missed(open, R)) + open[d].uncached_tokens
  BY <1>1, <1>2, <1>4, MissedAdd
<1>6. Missed(open', R) = Missed(open, R)
  BY <1>1, MissedAgrees
<1>7. Pending(r)' = Cardinality(Missed(open', Owed(r)'))
  BY DEF Pending, Missed
<1> QED BY <1>1, <1>2, <1>3, <1>4, <1>5, <1>6, <1>7

\* Who looks no busier than it is, and exactly as busy where nothing has been
\* sent to an earlier life of its id.
Fair(r) ==
  /\ replicas[r].in_flight <= Cardinality(Owed(r))
  /\ replicas[r].pending_prefill_tokens <= Pending(r)
  /\ r \notin reused => Exact(r)

LoadInv == OpenInv /\ \A r \in Members : Fair(r)

\* A member that a step does not concern stays fair.
LEMMA StaysFair ==
  ASSUME NEW r, Fair(r), Owed(r)' = Owed(r), \A d \in Owed(r) : open'[d] = open[d],
         replicas'[r] = replicas[r], r \in reused => r \in reused'
  PROVE  Fair(r)'
<1>1. Cardinality(Owed(r))' = Cardinality(Owed(r)) /\ Pending(r)' = Pending(r)
  BY SameLoad
<1> QED BY <1>1 DEF Fair, Exact

LEMMA DispatchKeepsFair ==
  ASSUME LoadInv, NEW d \in Handles, NEW r \in Replicas, NEW tokens \in Prompts,
         Dispatch(d, r, tokens)
  PROVE  \A s \in Members' : Fair(s)'
<1> PICK u : u = Uncached(tokens, r)
  OBVIOUS
<1>1. Sent(r, d, u) /\ OpenInv
  BY DispatchSends DEF LoadInv
<1>2. ASSUME NEW s \in Members', s # r
      PROVE  Fair(s)'
  <2>1. Fair(s) /\ \A e \in Owed(s) : open'[e] = open[e]
    BY <1>1, <1>2, OwedCounted DEF LoadInv, Sent
  <2> QED BY <1>1, <1>2, <2>1, StaysFair DEF Sent
<1>3. Fair(r)'
  <2>1. /\ Cardinality(Owed(r))' = Cardinality(Owed(r)) + 1
        /\ Pending(r)' = Pending(r) + u
    BY <1>1, SentLoad
  <2>2. /\ replicas'[r].in_flight = replicas[r].in_flight + 1
        /\ replicas'[r].pending_prefill_tokens = replicas[r].pending_prefill_tokens + u
        /\ reused' = reused /\ Fair(r) /\ u \in Nat /\ r \in Members
    BY <1>1 DEF LoadInv, Sent
  <2>3. /\ Cardinality(Owed(r)) \in Nat /\ Pending(r) \in Nat
        /\ replicas[r].in_flight \in Nat /\ replicas[r].pending_prefill_tokens \in Nat
    BY <1>1, <2>2, OwedCounted DEF OpenInv
  <2> QED BY <2>1, <2>2, <2>3 DEF Fair, Exact
<1> QED BY <1>2, <1>3

LEMMA CompleteKeepsFair ==
  ASSUME LoadInv, NEW d \in Handles, Complete(d)
  PROVE  \A s \in Members' : Fair(s)'
<1> PICK r : r = open[d].replica_id
  OBVIOUS
<1>1. Finished(r, d) /\ OpenInv
  BY CompleteFinishes DEF LoadInv
<1>2. ASSUME NEW s \in Members', s # r
      PROVE  Fair(s)'
  <2>1. d \notin Owed(s)
    BY <1>2 DEF Owed, OpenOn
  <2>2. \A e \in Owed(s) : open'[e] = open[e]
    BY <1>1, <2>1, OwedCounted DEF Finished
  <2>3. Owed(s)' = Owed(s) /\ replicas'[s] = replicas[s] /\ reused' = reused /\ Fair(s)
    BY <1>1, <1>2 DEF LoadInv, Finished
  <2> QED BY <2>2, <2>3, StaysFair
<1>3. ASSUME r \in Members'
      PROVE  Fair(r)'
  <2>1. /\ r \in Members /\ Fair(r) /\ reused' = reused
        /\ replicas'[r].in_flight = FloorAtZero(replicas[r].in_flight - 1)
        /\ replicas'[r].pending_prefill_tokens =
             FloorAtZero(replicas[r].pending_prefill_tokens - open[d].uncached_tokens)
    BY <1>1, <1>3 DEF LoadInv, Finished
  <2>2. /\ Cardinality(Owed(r)) \in Nat /\ Pending(r) \in Nat /\ open[d].uncached_tokens \in Nat
        /\ replicas[r].in_flight \in Nat /\ replicas[r].pending_prefill_tokens \in Nat
    BY <1>1, <2>1, OwedCounted DEF OpenInv, Finished
  <2>3. CASE d \in Owed(r)
    <3>1. /\ Cardinality(Owed(r))' = Cardinality(Owed(r)) - 1
          /\ Pending(r)' = Pending(r) - open[d].uncached_tokens
          /\ Cardinality(Owed(r))' \in Nat /\ Pending(r)' \in Nat
      BY <1>1, <2>3, FinishedLoad
    <3> QED BY <2>1, <2>2, <3>1 DEF Fair, Exact, FloorAtZero
  <2>4. CASE d \notin Owed(r)
    <3>1. Owed(r)' = Owed(r) /\ d \in orphans /\ d \in OpenOn(r)
      BY <1>1, <2>4 DEF Finished, OpenOn
    <3>2. r \in reused
      BY <1>1, <2>1, <3>1 DEF OpenInv
    <3>3. \A e \in Owed(r) : open'[e] = open[e]
      BY <1>1, <2>4, OwedCounted DEF Finished
    <3>4. Cardinality(Owed(r))' = Cardinality(Owed(r)) /\ Pending(r)' = Pending(r)
      BY <3>1, <3>3, SameLoad
    <3> QED BY <2>1, <2>2, <3>2, <3>4 DEF Fair, FloorAtZero
  <2> QED BY <2>3, <2>4
<1> QED BY <1>2, <1>3

LEMMA AddReplicaKeepsFair ==
  ASSUME LoadInv, NEW r \in Replicas, AddReplica(r)
  PROVE  \A s \in Members' : Fair(s)'
<1>1. /\ open' = open /\ orphans' = orphans /\ Members' = Members \cup {r}
      /\ \A s \in Members : replicas'[s] = replicas[s]
      /\ r \notin Members => replicas'[r] = ReplicaState
      /\ \A s : s \in reused => s \in reused'
  BY DEF AddReplica, Members, SetDefault, Put
<1>2. \A s : Owed(s)' = Owed(s)
  BY <1>1 DEF Owed, OpenOn
<1>3. ASSUME NEW s \in Members
      PROVE  Fair(s)'
  BY <1>1, <1>2, StaysFair DEF LoadInv
<1>4. ASSUME r \notin Members
      PROVE  Fair(r)'
  <2>1. Owed(r) = {} /\ OpenInv
    BY <1>4 DEF LoadInv, OpenInv
  <2>2. Cardinality(Owed(r))' = 0
    BY <1>2, <2>1, FS_EmptySet
  <2>3. Pending(r)' = 0
    <3>1. Pending(r)' = Cardinality(Missed(open', Owed(r)'))
      BY DEF Pending, Missed
    <3>2. Missed(open', Owed(r)') = {}
      BY <1>2, <2>1 DEF Missed
    <3> QED BY <3>1, <3>2, FS_EmptySet
  <2> QED BY <1>1, <1>4, <2>2, <2>3 DEF Fair, Exact, ReplicaState
<1> QED BY <1>1, <1>3, <1>4

LEMMA RemoveReplicaKeepsFair ==
  ASSUME LoadInv, NEW r \in Replicas, RemoveReplica(r)
  PROVE  \A s \in Members' : Fair(s)'
<1> SUFFICES ASSUME NEW s \in Members'
             PROVE  Fair(s)'
  OBVIOUS
<1>1. s \in Members /\ Owed(s)' = Owed(s) /\ replicas'[s] = replicas[s]
  BY RemoveReplicaKeepsOpen DEF LoadInv
<1>2. open' = open /\ reused' = reused \ {r} /\ s # r
  BY DEF RemoveReplica, Members, Drop
<1> QED BY <1>1, <1>2, StaysFair DEF LoadInv

THEOREM LoadInvAlways == Spec => []LoadInv
<1>1. Init => LoadInv
  <2> SUFFICES ASSUME Init, NEW r \in Members PROVE Fair(r)
    BY InitOpen DEF LoadInv
  <2>1. Owed(r) = {} /\ replicas[r] = ReplicaState
    BY DEF Init, Members, Owed, OpenOn
  <2>2. Cardinality(Owed(r)) = 0 /\ Pending(r) = 0
    BY <2>1, FS_EmptySet DEF Pending
  <2> QED BY <2>1, <2>2 DEF Fair, Exact, ReplicaState
<1>2. LoadInv /\ OpenInv' /\ [Next]_vars => LoadInv'
  <2> SUFFICES ASSUME LoadInv, [Next]_vars
               PROVE  \A r \in Members' : Fair(r)'
    BY DEF LoadInv
  <2>1. ASSUME NEW d \in Handles, NEW r \in Replicas, NEW tokens \in Prompts,
               Dispatch(d, r, tokens)
        PROVE  \A s \in Members' : Fair(s)'
    BY <2>1, DispatchKeepsFair
  <2>2. ASSUME NEW d \in Handles, Complete(d)
        PROVE  \A s \in Members' : Fair(s)'
    BY <2>2, CompleteKeepsFair
  <2>3. ASSUME NEW r \in Replicas, AddReplica(r)
        PROVE  \A s \in Members' : Fair(s)'
    BY <2>3, AddReplicaKeepsFair
  <2>4. ASSUME NEW r \in Replicas, RemoveReplica(r)
        PROVE  \A s \in Members' : Fair(s)'
    BY <2>4, RemoveReplicaKeepsFair
  <2>5. CASE Enforce \/ UNCHANGED vars
    <3>1. UNCHANGED <<replicas, open, orphans, reused>>
      BY <2>5 DEF Enforce, vars
    <3>2. Members' = Members /\ \A s : Owed(s)' = Owed(s)
      BY <3>1 DEF Members, Owed, OpenOn
    <3> QED BY <3>1, <3>2, StaysFair DEF LoadInv
  <2> QED BY <2>1, <2>2, <2>3, <2>4, <2>5 DEF Next
<1> QED BY <1>1, <1>2, OpenInvAlways, PTL DEF Spec

\* Nothing leaks upwards: whatever joins and leaves with requests in flight, no
\* replica looks busier than what it owes makes it (dispatch, complete).
THEOREM NeverLooksBusier == Spec => []NeverOvercounted
<1>1. LoadInv => NeverOvercounted
  BY DEF LoadInv, Fair, NeverOvercounted
<1> QED BY <1>1, LoadInvAlways, PTL

\* The counters of a replica whose id was free when it joined are exactly those
\* of the requests sent to it and not known to be finished (ReplicaState).
THEOREM LoadIsExact == Spec => []LoadExactUnlessReused
<1>1. LoadInv => LoadExactUnlessReused
  BY DEF LoadInv, Fair, LoadExactUnlessReused
<1> QED BY <1>1, LoadInvAlways, PTL

----------------------------------------------------------------------------
\* What the fleet believes to be cached is part of the prompt, is believed of
\* members only, and is believed of every prompt that begins alike.
BeliefFits ==
  \A p \in Prompts, r \in Replicas :
    /\ Cached(p, r) \in 0 .. Len(p)
    /\ Cached(p, r) > 0 => r \in Members
    /\ \A q \in Prompts, n \in Nat :
         n <= Len(p) /\ n <= Len(q) /\ (\A k \in 1 .. n : p[k] = q[k]) =>
           \/ Cached(p, r) <= Cached(q, r)
           \/ Usable(n, prefix_match_unit) <= Cached(q, r)

\* The belief fits the prompts and the fleet whatever has joined, left and been
\* evicted (Fleet.dispatch, PrefixTree.match).
THEOREM BeliefAlwaysFits == Spec => []BeliefFits
<1>1. FleetInv => BeliefFits
  <2> SUFFICES ASSUME FleetInv, NEW p \in Prompts, NEW r \in Replicas
               PROVE  /\ Cached(p, r) \in 0 .. Len(p)
                      /\ Cached(p, r) > 0 => r \in Members
                      /\ \A q \in Prompts, n \in Nat :
                           n <= Len(p) /\ n <= Len(q) /\ (\A k \in 1 .. n : p[k] = q[k]) =>
                             \/ Cached(p, r) <= Cached(q, r)
                             \/ Usable(n, prefix_match_unit) <= Cached(q, r)
    BY DEF BeliefFits
  <2>1. Shaped(tree.residents, Token) /\ \A q \in Prompts : q \in Seq(Token)
    BY SoundShaped, TreeAssumption DEF FleetInv
  <2>2. Cached(p, r) \in 0 .. Len(p)
    BY <2>1, TreeAssumption, MatchWithinPrompt DEF Cached
  <2>3. ASSUME r \notin Members
        PROVE  Cached(p, r) = 0
    <3>1. \A n \in Nodes(tree) : ~Holds(tree, n, r)
      BY <2>3 DEF FleetInv, Sound, Timed, Nodes, Holds
    <3> QED BY <3>1, NobodysMatch DEF Cached
  <2>4. ASSUME NEW q \in Prompts, NEW n \in Nat, n <= Len(p), n <= Len(q),
               \A k \in 1 .. n : p[k] = q[k]
        PROVE  \/ Cached(p, r) <= Cached(q, r)
               \/ Usable(n, prefix_match_unit) <= Cached(q, r)
    BY <2>1, <2>4, TreeAssumption, MatchFollowsPrefix DEF Cached
  <2> QED BY <2>2, <2>3, <2>4
<1> QED BY <1>1, FleetInvAlways, PTL
=============================================================================
