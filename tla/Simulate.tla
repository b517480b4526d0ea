------------------------------ MODULE Simulate ------------------------------
(***************************************************************************)
(* simulate() of simulate.py: requests arrive at a fleet, queue for their  *)
(* prefill, which a replica does one at a time, and decode side by side,   *)
(* while replicas join and leave.  One pop of the event heap is one        *)
(* action.                                                                 *)
(*                                                                         *)
(* Simulated time is left out but for the order it imposes: an arrival, a  *)
(* churn event or the end of a prefill may come next at any time; decodes  *)
(* all take output_tokens * decode_s_per_token, and end in the order they  *)
(* began.  The policy is any policy.  The belief is "modelled": a tree of  *)
(* the router's own with a capacity; Replay has blind and oracle too, and  *)
(* measures.                                                               *)
(***************************************************************************)
EXTENDS RadixTree

CONSTANTS
  Replicas, Token, Prompts, KERNEL_TILE_TOKENS, prefix_match_unit,
  capacity_tokens,            \* of every replica
  belief_capacity_ratio,      \* a fraction <<n, d>>
  None, MaxNow,
  replica_ids,
  MaxRequests, MaxChurn       \* bounds on the two traces

ASSUME SimulateAssumption ==
  /\ replica_ids \subseteq Replicas /\ replica_ids # {}
  /\ Prompts \subseteq Seq(Token)
  /\ None \notin Replicas
  /\ prefix_match_unit \in Nat \ {0}
  /\ MaxNow \in Nat /\ MaxRequests \in Nat /\ MaxChurn \in Nat

VARIABLES
  tree, now, enforcing, replicas, open, orphans, reused,   \* of the fleet
  truth, evicting,           \* the other tree, and its loop
  busy, pending, decoding,   \* by replica id
  prefills, decodes,         \* the _PREFILL_DONE and _DECODE_DONE events of the heap
  replica_of, outcomes,      \* where each request went; those finished, in that order
  requests_per_replica,
  failed,                    \* has the policy raised an exception?
  churned, warm              \* history: churn events so far; replicas sent a request
                             \* since they joined

Requests == 1 .. MaxRequests  \* numbered as they arrive

\* A replica that joins gets no max(1, ...).
belief_capacity ==
  LET scaled == (capacity_tokens * belief_capacity_ratio[1]) \div belief_capacity_ratio[2]
  IN  [r \in Replicas |-> IF r \in replica_ids THEN Max({1, scaled}) ELSE scaled]
capacity == [r \in Replicas |-> capacity_tokens]

F     == INSTANCE Fleet WITH Handles <- Requests, capacity_tokens <- belief_capacity
Truth == INSTANCE PrefixTree WITH tree <- truth, enforcing <- evicting,
                                  capacity_tokens <- capacity

fleetVars  == <<tree, now, enforcing, replicas, open, orphans, reused>>
truthVars  == <<truth, evicting>>
queueVars  == <<busy, pending, prefills>>
decodeVars == <<decoding, decodes, outcomes>>
vars == <<fleetVars, truthVars, queueVars, decodeVars, replica_of, requests_per_replica,
          failed, churned, warm>>

\* The next event may be popped: no insert() is under way.
Settled == enforcing = None /\ evicting = None /\ ~failed
SentTo(S, r) == {q \in S : replica_of[q] = r}

----------------------------------------------------------------------------
Init ==
  /\ F!Init
  /\ Truth!Init
  /\ busy = [r \in replica_ids |-> FALSE]
  /\ pending = [r \in replica_ids |-> <<>>]
  /\ decoding = [r \in replica_ids |-> 0]
  /\ requests_per_replica = [r \in replica_ids |-> 0]
  /\ prefills = {} /\ decodes = <<>>
  /\ replica_of = <<>> /\ outcomes = <<>>
  /\ failed = FALSE
  /\ churned = 0 /\ warm = {}

\* Mutant: a request alone in the queue waits for another.
MayStartTwo(free, queue) == free /\ Len(queue) > 1
MayStart(free, queue) == free /\ queue # <<>>

\* Mutant: appendleft() for append().
QueuedFirst(queue, q) == <<q>> \o queue
Queued(queue, q) == Append(queue, q)

\* start_next, with what its caller has made of busy, the queue and the heap.
StartNext(r, free, queue, others) ==
  LET start == MayStart(free, queue)
  IN  /\ busy' = [busy EXCEPT ![r] = ~free \/ start]
      /\ pending' = [pending EXCEPT ![r] = IF start THEN Tail(queue) ELSE queue]
      /\ prefills' = IF start THEN others \cup {Head(queue)} ELSE others

\* The policy answers with a member of the fleet.
Arrival(r, tokens) ==
  /\ Settled
  /\ Len(replica_of) < MaxRequests
  /\ r \in F!Members
  /\ requests_per_replica' = [requests_per_replica EXCEPT ![r] = @ + 1]
  /\ Truth!Insert(tokens, r)
  /\ F!Dispatch(Len(replica_of) + 1, r, tokens)
  /\ StartNext(r, ~busy[r], Queued(pending[r], Len(replica_of) + 1), prefills)
  /\ replica_of' = Append(replica_of, r)
  /\ warm' = warm \cup {r}
  /\ UNCHANGED <<decodeVars, failed, churned>>

\* When churn has taken the last replica no policy has an answer: the exception
\* ends the run.
ArrivalFails ==
  /\ Settled
  /\ Len(replica_of) < MaxRequests
  /\ F!Members = {}
  /\ failed' = TRUE
  /\ UNCHANGED <<fleetVars, truthVars, queueVars, decodeVars, replica_of, requests_per_replica,
                 churned, warm>>

PrefillDone(q) ==
  /\ Settled
  /\ q \in prefills
  /\ LET r == replica_of[q]
     IN  /\ decoding' = [decoding EXCEPT ![r] = @ + 1]
         /\ StartNext(r, TRUE, pending[r], prefills \ {q})
  /\ decodes' = Append(decodes, q)
  /\ UNCHANGED <<fleetVars, truthVars, outcomes, replica_of, requests_per_replica, failed, churned, warm>>

DecodeDone ==
  /\ Settled
  /\ decodes # <<>>
  /\ LET q == Head(decodes)
         r == replica_of[q]
     IN  /\ decoding' = [decoding EXCEPT ![r] = @ - 1]
         /\ F!Complete(q)
         /\ outcomes' = Append(outcomes, q)
         /\ StartNext(r, ~busy[r], pending[r], prefills)
  /\ decodes' = Tail(decodes)
  /\ UNCHANGED <<truthVars, replica_of, requests_per_replica, failed, churned, warm>>

\* Churn.  A replica that comes back finds the queue its id has left.  Its
\* capacities are those of its first life.
Join(r) ==
  /\ Settled /\ churned < MaxChurn
  /\ F!AddReplica(r)
  /\ busy' = SetDefault(busy, r, FALSE)
  /\ pending' = SetDefault(pending, r, <<>>)
  /\ decoding' = SetDefault(decoding, r, 0)
  /\ requests_per_replica' = SetDefault(requests_per_replica, r, 0)
  /\ churned' = churned + 1
  /\ warm' = IF r \in F!Members THEN warm ELSE warm \ {r}
  /\ UNCHANGED <<truthVars, prefills, decodes, outcomes, replica_of, failed>>

\* Queued work stays.
Leave(r) ==
  /\ Settled /\ churned < MaxChurn
  /\ F!RemoveReplica(r)
  /\ Truth!RemoveReplica(r)
  /\ churned' = churned + 1
  /\ warm' = warm \ {r}
  /\ UNCHANGED <<queueVars, decodeVars, replica_of, requests_per_replica, failed>>

\* The loops of the two insert()s of an arrival, the truth's first.
Enforce ==
  /\ \/ Truth!EvictOne /\ UNCHANGED fleetVars
     \/ evicting = None /\ F!Enforce /\ UNCHANGED truthVars
  /\ UNCHANGED <<queueVars, decodeVars, replica_of, requests_per_replica, failed, churned, warm>>

Next ==
  \/ \E r \in Replicas, tokens \in Prompts : Arrival(r, tokens)
  \/ ArrivalFails
  \/ \E q \in Requests : PrefillDone(q)
  \/ DecodeDone
  \/ \E r \in Replicas : Join(r) \/ Leave(r)
  \/ Enforce

\* The loop goes on while there are events in the heap.
Spec ==
  /\ Init /\ [][Next]_vars
  /\ WF_vars(\E q \in Requests : PrefillDone(q)) /\ WF_vars(DecodeDone) /\ WF_vars(Enforce)

----------------------------------------------------------------------------
\* Every member has its queues, and every request sent is open, once, until
\* it is finished (start_next's closures over busy, pending and decoding).
TypeOK ==
  /\ F!TypeOK
  /\ F!Members \subseteq DOMAIN busy
  /\ DOMAIN busy = DOMAIN pending /\ DOMAIN busy = DOMAIN decoding
  /\ DOMAIN busy = DOMAIN requests_per_replica
  /\ busy \in [DOMAIN busy -> BOOLEAN]
  /\ decoding \in [DOMAIN busy -> 0 .. MaxRequests]
  /\ evicting \in Replicas \cup {None}
  /\ replica_of \in Seq(DOMAIN busy)
  /\ DOMAIN open = DOMAIN replica_of \ ToSet(outcomes)

\* A replica prefills one request at a time, and its counters say what events
\* it has in the heap, through any churn of its id ("One prefill at a time per
\* replica").
OnePrefillAtATime ==
  \A r \in DOMAIN busy :
    /\ Cardinality(SentTo(prefills, r)) = IF busy[r] THEN 1 ELSE 0
    /\ Cardinality(SentTo(ToSet(decodes), r)) = decoding[r]

\* No request waits for a replica that does nothing (start_next is called
\* wherever one may begin).
WorkConserving == \A r \in DOMAIN busy : pending[r] # <<>> => busy[r]

\* What the replica really has to do, and what became of all it was sent.
Backlog(r) == Len(pending[r]) + (IF busy[r] THEN 1 ELSE 0) + decoding[r]

\* Whatever churn does to its id, a replica works off all it was ever sent
\* ("work already queued on it finishes").
NothingLost ==
  \A r \in DOMAIN busy :
    requests_per_replica[r] = Backlog(r) + Cardinality(SentTo(ToSet(outcomes), r))

\* The in_flight the policies see is the backlog of the replica; after the
\* reuse of an id it may be less, and never more (dispatch, complete against
\* the queues of simulate).
LoadIsBacklog ==
  \A r \in F!Members :
    /\ replicas[r].in_flight <= Backlog(r)
    /\ r \notin reused => replicas[r].in_flight = Backlog(r)

\* A replica that comes back is cold until it is sent something, to itself and
\* to the router ("loses its cache"), although completions of its first life
\* still touch the router's tree.
ColdOnReturn ==
  \A r \in Replicas \ warm :
    /\ Used(truth, r) = 0 /\ Held(truth, r) = {}
    /\ Used(tree, r) = 0 /\ Held(tree, r) = {}

\* A replica finishes requests in the order they came (pending, a queue).
FirstComeFirstServed ==
  \A i, j \in DOMAIN outcomes :
    i < j /\ replica_of[outcomes[i]] = replica_of[outcomes[j]] => outcomes[i] < outcomes[j]

\* Every request that arrives completes ("test_every_request_completes"), also
\* those on a replica that has left, and with a believed capacity of nothing;
\* but not when a request finds the fleet empty.
EveryRequestCompletes ==
  \A q \in Requests : q \in DOMAIN replica_of ~> q \in ToSet(outcomes) \/ failed
=============================================================================
