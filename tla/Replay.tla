------------------------------ MODULE Replay ------------------------------
(***************************************************************************)
(* replay() of replay.py: a trace of requests is routed with one prefix    *)
(* tree, the belief, while another, the truth, stands for what the         *)
(* replicas really hold.  One iteration of the loop is one action.  The    *)
(* policy is any policy: the replica is chosen freely.  Load counters are  *)
(* the business of Fleet; here a Dispatch keeps what it would add to them. *)
(* Requests come in the order of their arrival times, as generate() sorts  *)
(* them, and several may arrive at one time.  A time is compared with      *)
(* others and nothing more, so that it is enough to let each be the one    *)
(* before it or the next number.                                           *)
(***************************************************************************)
EXTENDS RadixTree

CONSTANTS
  replica_ids,
  Prompts,
  prefix_match_unit,
  capacity,          \* what the replicas hold: a partial function to tokens
  BeliefCapacities,  \* what the router may take it to be; the empty function: blind
  OracleModes,       \* a set of Booleans: is the belief the truth itself?
  Concurrencies,
  MaxRequests, MaxBackground   \* bounds on the two traces

Token == UNION {ToSet(p) : p \in Prompts}

ASSUME ReplayAssumption ==
  /\ Prompts \subseteq Seq(Token)
  /\ prefix_match_unit \in Nat \ {0}
  /\ \A cap \in BeliefCapacities \cup {capacity} : cap \in [DOMAIN cap -> Nat]
  /\ OracleModes \subseteq BOOLEAN /\ Concurrencies \subseteq Nat \ {0}
  /\ MaxRequests \in Nat

VARIABLES
  oracle, belief_capacity, concurrency,  \* the arguments of the run
  truth, belief,
  truth_order, belief_order,  \* in which order _evict_one traverses them
  inflight,      \* the Dispatch handles, oldest first, with the hit believed in
  arrival, last_request,      \* the times of the last arrival, of the last request
  served, others,
  mispredicted,  \* result.mispredicted_requests
  ceiling        \* the tree of reuse_ceiling(), called with the same requests

vars == <<oracle, belief_capacity, concurrency, truth, belief, truth_order, belief_order, inflight,
          arrival, last_request, served, others, mispredicted, ceiling>>

----------------------------------------------------------------------------
\* Of equally old victims _evict_one takes the one it comes to first.  Its
\* stack takes children from the newest to the oldest; `order' lists the
\* prompts of a tree in the order in which that comes to them.

\* Where the traversal comes to a node.
Place(order, n) == Min({i \in DOMAIN order : IsPrefix(n, order[i])} \cup {Len(order) + 1})

\* A prompt that leaves the tree t adds the newest child where it does.
Ordered(order, t, tokens) ==
  IF tokens = <<>> \/ Place(order, tokens) <= Len(order) THEN order
  ELSE InsertAt(order, Place(order, SubSeq(tokens, 1, Matched(t, tokens))), tokens)

Victim(t, r, order) ==
  CHOOSE v \in Victims(t, r) : \A u \in Victims(t, r) : Place(order, v) <= Place(order, u)

\* A pass of the loop of _enforce_capacity: nothing more happens once the tree
\* is within its capacity or has no victim.
Pass(t, r, cap, order) ==
  IF OverCapacity(t, r, cap) /\ Victims(t, r) # {} THEN Evicted(t, r, Victim(t, r, order)) ELSE t

\* The loop.  A pass takes off a token at least, so that there are no more of
\* them than tokens.
EnforceCapacity(t, r, cap, order) ==
  LET After[n \in 0 .. Used(t, r)] == IF n = 0 THEN t ELSE Pass(After[n - 1], r, cap, order)
  IN  After[Used(t, r)]

\* insert() as a whole.
Inserted(t, tokens, r, at, cap, order) ==
  IF tokens = <<>> THEN t ELSE EnforceCapacity(InsertPath(t, tokens, r, at), r, cap, order)

----------------------------------------------------------------------------

\* Mutant: one more than may be is let in.
PastConcurrency == Len(inflight) > concurrency
AtConcurrency   == Len(inflight) >= concurrency

\* Mutant: what is partly there is not stored.
CeilingOnMiss(tokens) ==
  IF Walk(ceiling, tokens) # {<<>>} THEN ceiling ELSE InsertPath(ceiling, tokens, "oracle", 0)

\* One replica without a bound; as nothing is evicted, the times do not matter.
CeilingWith(tokens) == InsertPath(ceiling, tokens, "oracle", 0)

Hit(t, tokens, r) == MatchFor(t, tokens, r, prefix_match_unit)

----------------------------------------------------------------------------
Init ==
  /\ oracle \in OracleModes
  /\ belief_capacity \in IF oracle THEN {capacity} ELSE BeliefCapacities
  /\ concurrency \in Concurrencies
  /\ truth = EmptyTree /\ belief = EmptyTree /\ ceiling = EmptyTree
  /\ truth_order = <<>> /\ belief_order = <<>>
  /\ inflight = <<>>
  /\ arrival = 0 /\ last_request = 0 /\ served = 0 /\ others = 0 /\ mispredicted = 0

Advance == arrival' \in arrival .. (arrival + 1)

\* Another router's request reaches a replica; only the truth changes.  Had it
\* come no later than the request before, it would have been taken before it.
Background(tokens, r) ==
  /\ served < MaxRequests /\ others < MaxBackground
  /\ Advance /\ arrival' > last_request
  /\ truth_order' = Ordered(truth_order, truth, tokens)
  /\ truth' = Inserted(truth, tokens, r, arrival', capacity, truth_order')
  /\ others' = others + 1
  /\ UNCHANGED <<oracle, belief_capacity, concurrency, belief, belief_order, inflight,
                 last_request, served, mispredicted, ceiling>>

\* The next request: the oldest one completes if as many as may be are in
\* flight (never more, so the while loop runs at most once); then measure,
\* then store in the truth, then dispatch.  In oracle mode all of this happens
\* to one tree.
Serve(tokens, r) ==
  /\ served < MaxRequests
  /\ Advance /\ last_request' = arrival'
  /\ served' = served + 1
  /\ truth_order' = Ordered(truth_order, truth, tokens)
  /\ belief_order' = IF oracle THEN belief_order ELSE Ordered(belief_order, belief, tokens)
  /\ LET full       == AtConcurrency
         done       == Head(inflight)
         model      == IF oracle THEN truth ELSE belief
         completed  == IF full THEN Touched(model, done.tokens, done.replica_id, arrival')
                       ELSE model
         replicas   == IF oracle THEN completed ELSE truth
         actual     == Hit(replicas, tokens, r)
         believed   == Hit(completed, tokens, r)
         current(stored) == IF oracle THEN stored ELSE completed
     IN  \E stored \in {Inserted(replicas, tokens, r, arrival', capacity, truth_order')} :
         \E dispatched \in {Inserted(current(stored), tokens, r, arrival', belief_capacity,
                                IF oracle THEN truth_order' ELSE belief_order')} :
         /\ truth'  = IF oracle THEN dispatched ELSE stored
         /\ belief' = IF oracle THEN belief ELSE dispatched
         /\ inflight' = Append(IF full THEN Tail(inflight) ELSE inflight,
                               [replica_id |-> r, tokens |-> tokens, believed |-> believed,
                                uncached_tokens |-> Len(tokens) - Hit(current(stored), tokens, r)])
         /\ mispredicted' = IF believed - actual >= prefix_match_unit
                            THEN mispredicted + 1 ELSE mispredicted
  /\ ceiling' = CeilingWith(tokens)
  /\ UNCHANGED <<oracle, belief_capacity, concurrency, others>>

\* The trace is at its end.
Finished == served = MaxRequests /\ UNCHANGED vars

Next ==
  \/ \E tokens \in Prompts, r \in replica_ids : Background(tokens, r) \/ Serve(tokens, r)
  \/ Finished

Spec == Init /\ [][Next]_vars

----------------------------------------------------------------------------
TypeOK ==
  /\ oracle \in BOOLEAN /\ belief_capacity \in BeliefCapacities \cup {capacity} /\ concurrency \in Concurrencies
  /\ \A t \in {truth, belief} :
       \A n \in Nodes(t) : /\ \E p \in Prompts \cup {<<>>} : IsPrefix(n, p)
                           /\ DOMAIN t.residents[n] \subseteq replica_ids
  /\ Len(inflight) <= concurrency
  /\ served \in 0 .. MaxRequests /\ mispredicted \in 0 .. served

Unbounded(cap, r)  == r \notin DOMAIN cap
NoMore(cap, of, r) == Unbounded(of, r) \/ (~Unbounded(cap, r) /\ cap[r] <= of[r])

\* Until the first completion, and with all traffic seen, a model with the
\* true capacity holds what the replica does, whatever arrives together ("its
\* eviction model reproduces the replica exactly", insert and _evict_one on
\* either tree).  If no two requests arrive together, the cache with less
\* capacity holds a part of what the other does, so that a model with too little
\* is never over-confident ("drift needs a cause").
Undisturbed == ~oracle /\ others = 0 /\ served = Len(inflight)
NoTies      == arrival = served + others  \* each arrival has moved the clock

CapacityOrdersHoldings ==
  Undisturbed =>
    \A r \in replica_ids :
      LET less == NoMore(belief_capacity, capacity, r)
          more == NoMore(capacity, belief_capacity, r)
      IN  /\ less /\ more   => Held(belief, r) = Held(truth, r)
          /\ less /\ NoTies => Held(belief, r) \subseteq Held(truth, r)
          /\ more /\ NoTies => Held(truth, r) \subseteq Held(belief, r)

\* A router that assumes replicas never forget, and sees all traffic, never
\* misses anything they hold, completions or not (belief "blind").
BlindNeverUnderestimates ==
  ~oracle /\ others = 0 =>
    \A r \in replica_ids :
      Unbounded(belief_capacity, r) => Held(truth, r) \subseteq Held(belief, r)

\* Wherever the next request is sent, and whatever was believed, evicted and
\* completed before, no replica serves more of it from its cache than the one
\* replica that has seen all and forgets nothing: the ceiling of the reports is
\* one, request by request ("every request routed to a perfect oracle",
\* reuse_ceiling; "test_no_policy_beats_the_oracle_ceiling").
NoPolicyBeatsTheCeiling ==
  others = 0 => \A tokens \in Prompts, r \in replica_ids :
                  Hit(truth, tokens, r) <= Hit(ceiling, tokens, "oracle")

\* A request adds to the queue estimate the tokens it was believed to lack
\* when it was measured ("measure before dispatching", "the uncached count has
\* to be captured here").
EstimateIsWhatWasBelieved(d) == d.uncached_tokens = Len(d.tokens) - d.believed
QueueEstimateHonest ==
  \A i \in DOMAIN inflight : EstimateIsWhatWasBelieved(inflight[i])

\* The router sees every request and knows the true capacity: it never sends a
\* request to a block the replica has evicted ("its eviction model reproduces
\* the replica exactly").
PerfectModelNeverMispredicts ==
  ~oracle /\ others = 0 /\ belief_capacity = capacity => mispredicted = 0
=============================================================================
