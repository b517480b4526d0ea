------------------------------- MODULE Fleet -------------------------------
(***************************************************************************)
(* The router's view of its replicas (fleet.py): who holds which prefix,   *)
(* in a PrefixTree, and who is busy, in one ReplicaState per member.       *)
(* `open' is what the callers hold: the Dispatch handles not yet passed    *)
(* back to complete().                                                     *)
(***************************************************************************)
EXTENDS RadixTree

CONSTANTS
  Replicas, Token, Prompts, KERNEL_TILE_TOKENS, prefix_match_unit, capacity_tokens,
  None, MaxNow,        \* as in PrefixTree
  Handles,             \* names for the dispatches that may be open at a time
  replica_ids          \* the replicas the fleet starts with

ASSUME FleetAssumption == replica_ids \subseteq Replicas /\ replica_ids # {}

ASSUME TreeAssumption ==
  /\ Prompts \subseteq Seq(Token)
  /\ None \notin Replicas
  /\ MaxNow \in Nat
  /\ prefix_match_unit \in Nat \ {0}

VARIABLES
  tree, now, enforcing,  \* the shared prefix tree
  replicas,              \* for every member: [in_flight, pending_prefill_tokens]
  open,                  \* a partial function from Handles to Dispatch records
  orphans,               \* history: the open handles whose replica was removed since
  reused                 \* history: the members that joined with such handles still open

Tree == INSTANCE PrefixTree

treeVars == <<tree, now, enforcing>>
vars     == <<tree, now, enforcing, replicas, open, orphans, reused>>

Members     == DOMAIN replicas
ReplicaState == [in_flight |-> 0, pending_prefill_tokens |-> 0]
\* Mutant: no floor.
NoFloor(n) == n
FloorAtZero(n) == IF n < 0 THEN 0 ELSE n

Cached(tokens, r)   == MatchFor(tree, tokens, r, prefix_match_unit)
\* Mutant: the operands are swapped.
UncachedSwapped(tokens, r) == Cached(tokens, r) - Len(tokens)
Uncached(tokens, r) == Len(tokens) - Cached(tokens, r)

\* Mutant: counted anew, when the prompt is in the tree.
DueRecounted(d) == Uncached(open[d].tokens, open[d].replica_id)
\* What a completion takes off the queue estimate.
Due(d) == open[d].uncached_tokens

OpenOn(r) == {d \in DOMAIN open : open[d].replica_id = r}

----------------------------------------------------------------------------
Init ==
  /\ Tree!Init
  /\ replicas = [r \in replica_ids |-> ReplicaState]
  /\ open = [d \in {} |-> 0]
  /\ orphans = {}
  /\ reused = {}

\* The uncached count is taken before the prefix enters the tree.
Dispatch(d, r, tokens) ==
  /\ d \notin DOMAIN open /\ r \in Members
  /\ replicas' = [replicas EXCEPT
       ![r] = [in_flight |-> @.in_flight + 1,
               pending_prefill_tokens |-> @.pending_prefill_tokens + Uncached(tokens, r)]]
  /\ Tree!Insert(tokens, r)
  /\ open' = Put(open, d, [replica_id |-> r, tokens |-> tokens,
                           uncached_tokens |-> Uncached(tokens, r)])
  /\ UNCHANGED <<orphans, reused>>

\* Tolerates the replica having been removed in the meantime.
Complete(d) ==
  /\ d \in DOMAIN open
  /\ LET r == open[d].replica_id
     IN  IF r \in Members
         THEN /\ replicas' = [replicas EXCEPT
                   ![r] = [in_flight |-> FloorAtZero(@.in_flight - 1),
                           pending_prefill_tokens |->
                             FloorAtZero(@.pending_prefill_tokens - Due(d))]]
              /\ Tree!Touch(open[d].tokens, r)
         ELSE enforcing = None /\ UNCHANGED <<tree, now, enforcing, replicas>>
  /\ open' = Drop(open, d)
  /\ orphans' = orphans \ {d}
  /\ UNCHANGED reused

\* A member stays as it is.
AddReplica(r) ==
  /\ enforcing = None
  /\ replicas' = SetDefault(replicas, r, ReplicaState)
  /\ reused' = IF r \notin Members /\ OpenOn(r) # {} THEN reused \cup {r} ELSE reused
  /\ UNCHANGED <<tree, now, enforcing, open, orphans>>

RemoveReplica(r) ==
  /\ replicas' = Drop(replicas, r)
  /\ Tree!RemoveReplica(r)
  /\ orphans' = orphans \cup OpenOn(r)
  /\ reused' = reused \ {r}
  /\ UNCHANGED open

Enforce == Tree!EvictOne /\ UNCHANGED <<replicas, open, orphans, reused>>

Next ==
  \/ \E d \in Handles, r \in Replicas, tokens \in Prompts : Dispatch(d, r, tokens)
  \/ \E d \in Handles : Complete(d)
  \/ \E r \in Replicas : AddReplica(r) \/ RemoveReplica(r)
  \/ Enforce

Spec == Init /\ [][Next]_vars

----------------------------------------------------------------------------
TypeOK ==
  /\ Tree!TypeOK
  /\ Members \subseteq Replicas
  /\ replicas \in [Members -> [in_flight : Nat, pending_prefill_tokens : Nat]]
  /\ DOMAIN open \subseteq Handles
  /\ open \in [DOMAIN open -> [replica_id : Replicas, tokens : Prompts, uncached_tokens : Nat]]
  /\ orphans \subseteq DOMAIN open /\ reused \subseteq Members

\* The tree knows no replica the fleet has removed, so that no policy is
\* offered one (PureAffinity looks up fleet.replicas[r] for every r in match()).
ResidentsAreMembers ==
  /\ \A n \in Nodes(tree) : DOMAIN tree.residents[n] \subseteq Members
  /\ DOMAIN tree.tokens_used \subseteq Members
  /\ enforcing # None => enforcing \in Members

\* The requests sent to the present replica of that id and not yet completed,
\* and the tokens they were found to miss.
Owed(r)    == OpenOn(r) \ orphans
Pending(r) == Cardinality(UNION {{d} \X (1 .. open[d].uncached_tokens) : d \in Owed(r)})

\* Whatever joins and leaves, no replica looks busier than the requests it
\* still owes make it: nothing leaks upwards (dispatch, complete).
NeverOvercounted ==
  \A r \in Members :
    /\ replicas[r].in_flight <= Cardinality(Owed(r))
    /\ replicas[r].pending_prefill_tokens <= Pending(r)

\* in_flight and pending_prefill_tokens are exactly those of the requests sent
\* to the replica and not known to be finished (ReplicaState's "accepted but
\* not yet known to be finished", Fleet's "kept in sync by lifecycle calls").
Exact(r) ==
  /\ replicas[r].in_flight = Cardinality(Owed(r))
  /\ replicas[r].pending_prefill_tokens = Pending(r)
LoadExact == \A r \in Members : Exact(r)

\* They are, for every member whose id was free of open requests when it joined.
LoadExactUnlessReused == \A r \in Members \ reused : Exact(r)
=============================================================================
