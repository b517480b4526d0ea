--------------------------- MODULE ConsistentHash ---------------------------
(***************************************************************************)
(* The ConsistentHash policy of policies.py: a ring of replicas, built for *)
(* a list of ids and kept until that list changes.                         *)
(*                                                                         *)
(* What is hashed is a session key, or the first tokens of a prompt that   *)
(* comes without one; hashes are numbers drawn once.  The sorted list of   *)
(* the ring is a set of entries with the order the sort gives them.        *)
(***************************************************************************)
EXTENDS Integers, SequencesExt

CONSTANTS
  Replicas, Keys,
  vnodes,
  lexical,     \* numbers the replica ids in their lexical order
  Points,      \* the numbers a hash may be
  Positions,   \* the places replicas may be drawn: functions from replica and
               \* virtual node to Points
  MaxReplicas  \* bound on the size of the fleet

ASSUME RingAssumption ==
  /\ vnodes \in Nat \ {0}
  /\ Points \subseteq Nat
  /\ Positions \subseteq [Replicas \X (0 .. vnodes - 1) -> Points]
  /\ lexical \in [Replicas -> Nat]
  /\ \A r, s \in Replicas : lexical[r] = lexical[s] => r = s

VARIABLES
  position, hash,   \* _hash of the virtual nodes and of the keys
  replica_ids,      \* list(fleet.replicas)
  ring, built_for,  \* _ring, _built_for
  last              \* history: for the keys seen, the fleet and the answer then

vars == <<position, hash, replica_ids, ring, built_for, last>>

\* A replica's entries, and the ring of several.
Entries(r) == {[point |-> position[<<r, v>>], rid |-> r] : v \in 0 .. vnodes - 1}

\* Mutant: virtual nodes are named by the index of the replica in the list.
RingByIndex(ids) ==
  {[point |-> position[<<CHOOSE r \in Replicas : lexical[r] = i, v>>], rid |-> ids[i]] :
     i \in DOMAIN ids, v \in 0 .. vnodes - 1}
Ring(ids) == UNION {Entries(r) : r \in ToSet(ids)}

Before(e, f) ==
  \/ e.point < f.point
  \/ e.point = f.point /\ lexical[e.rid] <= lexical[f.rid]
First(entries) == CHOOSE e \in entries : \A f \in entries : Before(e, f)

\* The first entry at or after the hash, or, past the last, the first of all.
Owner(entries, h) ==
  LET after == {e \in entries : e.point >= h}
  IN  First(IF after # {} THEN after ELSE entries).rid

\* Mutant: only a change in the number of replicas is noticed.
RebuiltForLength == IF Len(replica_ids) # Len(built_for) THEN Ring(replica_ids) ELSE ring
Rebuilt          == IF replica_ids # built_for THEN Ring(replica_ids) ELSE ring

----------------------------------------------------------------------------
Init ==
  /\ position \in Positions
  /\ hash \in [Keys -> Points]
  /\ \E r \in Replicas : replica_ids = <<r>>
  /\ ring = {} /\ built_for = <<>>
  /\ last = [k \in {} |-> 0]

\* With no replica at all the code fails; a fleet starts with one.
Choose(k) ==
  /\ replica_ids # <<>>
  /\ ring' = Rebuilt
  /\ built_for' = replica_ids
  /\ last' = [j \in DOMAIN last \cup {k} |->
                IF j = k THEN [members |-> ToSet(replica_ids), replica |-> Owner(ring', hash[k])]
                ELSE last[j]]
  /\ UNCHANGED <<position, hash, replica_ids>>

\* Mutant: a member is added once more.
AddReplicaAgain(r) ==
  /\ Len(replica_ids) < MaxReplicas
  /\ replica_ids' = Append(replica_ids, r)
  /\ UNCHANGED <<position, hash, ring, built_for, last>>

\* Fleet.add_replica and Fleet.remove_replica, as the list of ids shows them.
AddReplica(r) ==
  /\ Len(replica_ids) < MaxReplicas
  /\ replica_ids' = IF r \in ToSet(replica_ids) THEN replica_ids ELSE Append(replica_ids, r)
  /\ UNCHANGED <<position, hash, ring, built_for, last>>

RemoveReplica(r) ==
  /\ replica_ids' = IF r \in ToSet(replica_ids)
                    THEN RemoveAt(replica_ids, CHOOSE i \in DOMAIN replica_ids : replica_ids[i] = r)
                    ELSE replica_ids
  /\ UNCHANGED <<position, hash, ring, built_for, last>>

Next ==
  \/ \E k \in Keys : Choose(k)
  \/ \E r \in Replicas : AddReplica(r) \/ RemoveReplica(r)

Spec == Init /\ [][Next]_vars

----------------------------------------------------------------------------
\* The ring is always that of the ids it was built for, which may be old; an
\* id is in the list once (_built_for, Fleet.replicas).
TypeOK ==
  /\ position \in Positions /\ hash \in [Keys -> Points]
  /\ replica_ids \in Seq(Replicas) /\ IsInjective(replica_ids)
  /\ built_for \in Seq(Replicas) /\ ring = Ring(built_for)
  /\ DOMAIN last \subseteq Keys
  /\ last \in [DOMAIN last -> [members : SUBSET Replicas, replica : Replicas]]

\* However the fleet has changed since the ring was built, a request is sent
\* to a replica of the fleet as it is (choose compares the ids with _built_for).
RoutedToMember == \A k \in DOMAIN last : last[k].replica \in last[k].members

\* From one request of a key to its next, over any changes of the fleet in
\* between, the key moves only if its replica has left, or to one that is new
\* (the point of a ring: _rebuild hashes the ids and not their places).
MovesOnlyIfItMust ==
  [][\A k \in DOMAIN last :
       last'[k].replica # last[k].replica =>
         \/ last[k].replica \notin last'[k].members
         \/ last'[k].replica \notin last[k].members]_vars
=============================================================================
