------------------------------ MODULE Gateway ------------------------------
(***************************************************************************)
(* The OpenAI-compatible gateway (gateway.py): chat_completions handlers   *)
(* interleaving on one event loop.  A handler is synchronous from the end  *)
(* of `await request.json()' to its first await on the backend, and that   *)
(* stretch is one action; after it, the handler is where pc[q] says.       *)
(*                                                                         *)
(*   reading    awaiting the body                                          *)
(*   posting    awaiting http.post                                         *)
(*   unstarted  a StreamingResponse exists, its generator has not begun    *)
(*   streaming  inside the generator                                       *)
(*   done, rejected                                                        *)
(*                                                                         *)
(* The backends, the server and the client are the environment.           *)
(***************************************************************************)
EXTENDS RadixTree, Tokenize

CONSTANTS
  Replicas, KERNEL_TILE_TOKENS, prefix_match_unit, capacity_tokens,
  None, MaxNow, lexical, prefill_per_token, decode_interference,
  Conversations, \* the lists of messages that requests carry
  Requests,   \* each is served once, and names its own Dispatch handle
  backends,   \* the configured replica ids, in order
  PolicyNames \* the policies KV_ROUTER_POLICY may select

ASSUME BackendsAssumption == backends \in Seq(Replicas) /\ backends # <<>>

ASSUME CostAssumption ==
  prefill_per_token \in Nat \ {0} /\ decode_interference \in Nat

ASSUME LexicalAssumption ==
  /\ lexical \in [Replicas -> Nat]
  /\ \A r, s \in Replicas : lexical[r] = lexical[s] => r = s

\* Roles and contents are text.
ASSUME TextAssumption ==
  /\ marker \in [DOMAIN marker -> Seq(Nat)]
  /\ Conversations \subseteq Seq([role : DOMAIN marker, content : Seq(Seq(Nat))])

ASSUME GatewayAssumption ==
  None \notin Replicas /\ MaxNow \in Nat /\ prefix_match_unit \in Nat \ {0}

VARIABLES
  tree, now, enforcing, replicas, open, orphans, reused,  \* app.state.fleet
  policy, turn,                                   \* the policy, and RoundRobin._n
  stats, pc,
  abandoned                                       \* history: the requests of Abandon

Tokens(messages) == encode(render_messages(messages))
Prompts == {Tokens(m) : m \in Conversations}
Token   == UNION {ToSet(p) : p \in Prompts}

F == INSTANCE Fleet WITH Handles <- Requests, replica_ids <- ToSet(backends)
P == INSTANCE Policies

fleetVars == <<tree, now, enforcing, replicas, open, orphans, reused>>
vars      == <<tree, now, enforcing, replicas, open, orphans, reused, policy, turn, stats, pc,
               abandoned>>

Init ==
  /\ F!Init
  /\ policy \in PolicyNames
  /\ turn = 0
  /\ stats = [requests |-> 0, failures |-> 0, prompt_tokens |-> 0, cached_tokens |-> 0,
              per_replica |-> [r \in ToSet(backends) |-> 0]]
  /\ pc = [q \in Requests |-> "reading"]
  /\ abandoned = {}

Choose(tokens) ==
  CASE policy = "round_robin"       -> P!RoundRobin(backends, turn)
    [] policy = "least_connections" -> P!LeastConnections
    [] policy = "pure_affinity"     -> P!PureAffinity(tokens)
    [] policy = "cost_model"        -> P!CostModelPolicy(tokens)

\* The body has arrived: choose, count, dispatch, and start on the backend.
Route(q, messages, stream) ==
  LET tokens  == Tokens(messages)
      replica == Choose(tokens)
  IN  /\ pc[q] = "reading"
      /\ stats' = [requests      |-> stats.requests + 1,
                   failures      |-> stats.failures,
                   prompt_tokens |-> stats.prompt_tokens + Len(tokens),
                   cached_tokens |-> stats.cached_tokens + F!Cached(tokens, replica),
                   per_replica   |-> [stats.per_replica EXCEPT ![replica] = @ + 1]]
      /\ F!Dispatch(q, replica, tokens)
      /\ turn' = IF policy = "round_robin" THEN turn + 1 ELSE turn
      /\ pc' = [pc EXCEPT ![q] = IF stream THEN "unstarted" ELSE "posting"]
      /\ UNCHANGED <<policy, abandoned>>

\* No list of messages: 400, before anything is counted.
Reject(q) ==
  /\ enforcing = None
  /\ pc[q] = "reading"
  /\ pc' = [pc EXCEPT ![q] = "rejected"]
  /\ UNCHANGED <<fleetVars, policy, turn, stats, abandoned>>

\* The generator is iterated for the first time.
StartStream(q) ==
  /\ enforcing = None
  /\ pc[q] = "unstarted"
  /\ pc' = [pc EXCEPT ![q] = "streaming"]
  /\ UNCHANGED <<fleetVars, policy, turn, stats, abandoned>>

\* The backend has answered, or the stream has ended, or the client hung up
\* while the generator was suspended: complete() in each case.
Finish(q) ==
  /\ pc[q] \in {"posting", "streaming"}
  /\ F!Complete(q)
  /\ pc' = [pc EXCEPT ![q] = "done"]
  /\ UNCHANGED <<policy, turn, stats, abandoned>>

\* Mutant: the except branch does not complete the dispatch.
FailLeaking(q) ==
  /\ enforcing = None
  /\ pc[q] \in {"posting", "streaming"}
  /\ stats' = [stats EXCEPT !.failures = @ + 1]
  /\ pc' = [pc EXCEPT ![q] = "done"]
  /\ UNCHANGED <<fleetVars, policy, turn, abandoned>>

\* An Exception: an error status, a broken connection, a timeout.
Fail(q) ==
  /\ pc[q] \in {"posting", "streaming"}
  /\ stats' = [stats EXCEPT !.failures = @ + 1]
  /\ F!Complete(q)
  /\ pc' = [pc EXCEPT ![q] = "done"]
  /\ UNCHANGED <<policy, turn, abandoned>>

\* A cancellation of `await http.post' is no Exception, and the finally of a
\* generator that never began does not run: neither way is complete() called.
Abandon(q) ==
  /\ enforcing = None
  /\ pc[q] \in {"posting", "unstarted"}
  /\ pc' = [pc EXCEPT ![q] = "done"]
  /\ abandoned' = abandoned \cup {q}
  /\ UNCHANGED <<fleetVars, policy, turn, stats>>

Enforce == F!Enforce /\ UNCHANGED <<policy, turn, stats, pc, abandoned>>

Answered(q) == StartStream(q) \/ Finish(q) \/ Fail(q)

\* Once every handler has returned the gateway only waits.
Idle == (\A q \in Requests : pc[q] \in {"done", "rejected"}) /\ enforcing = None /\ UNCHANGED vars

Next ==
  \/ \E q \in Requests, messages \in Conversations, stream \in BOOLEAN : Route(q, messages, stream)
  \/ \E q \in Requests : Reject(q) \/ Answered(q) \/ Abandon(q)
  \/ Enforce
  \/ Idle

\* Nothing preempts the eviction loop of a synchronous dispatch().  Of a handler
\* at its await or yield nothing is assumed: a backend may trickle chunks for
\* ever, and a client need neither read nor hang up.
Spec == Init /\ [][Next]_vars /\ WF_vars(Enforce)

----------------------------------------------------------------------------
TypeOK ==
  /\ F!TypeOK
  /\ policy \in PolicyNames /\ turn \in Nat
  /\ pc \in [Requests -> {"reading", "posting", "unstarted", "streaming", "done", "rejected"}]
  /\ stats \in [requests : Nat, failures : Nat, prompt_tokens : Nat, cached_tokens : Nat,
                per_replica : [ToSet(backends) -> Nat]]

\* Whatever the handlers do to each other, a replica's load is that of the
\* dispatches not yet completed (dispatch, complete on every path).
LoadIsOpen == F!LoadExact

\* A handler past its dispatch holds it open until it leaves, and one that has
\* left holds none: "completed on every exit path" (stream, the except branch).
Awaiting(q) == pc[q] \in {"posting", "unstarted", "streaming"}
CompletedOnExit == \A q \in Requests : q \in DOMAIN open <=> Awaiting(q)

\* It does on every path but the two of Abandon.
CompletedUnlessAbandoned ==
  \A q \in Requests : q \in DOMAIN open <=> Awaiting(q) \/ q \in abandoned

\* What a request adds to its replica's queue estimate is what the statistics
\* say it missed, although the two are measured apart (cached, uncached).
MissesAreQueued ==
  [][\A q \in DOMAIN open' \ DOMAIN open :
       LET r == open'[q].replica_id
       IN  replicas'[r].pending_prefill_tokens - replicas[r].pending_prefill_tokens =
             (stats'.prompt_tokens - stats.prompt_tokens)
             - (stats'.cached_tokens - stats.cached_tokens)]_vars

\* With nothing in flight the cost model routes as pure affinity does ("under
\* light load ... this behaves as pure affinity", CostModelPolicy).
IdleCostModelIsAffinity ==
  (\A r \in DOMAIN replicas : replicas[r].in_flight = 0 /\ replicas[r].pending_prefill_tokens = 0)
    => \A p \in Prompts : P!CostModelPolicy(p) = P!PureAffinity(p)

\* The cost model never lengthens a queue past what any other replica's would
\* have become with the whole prompt to prefill (expected_ttft_s, dispatch).
CostModelBalances ==
  [][policy = "cost_model" => \A q \in DOMAIN open' \ DOMAIN open :
       \A r, s \in DOMAIN replicas : r = open'[q].replica_id =>
         P!QueueDelay(r)' <=
           P!QueueDelay(s) + Len(open'[q].tokens) * prefill_per_token + decode_interference]_vars

\* What a replica is believed to hold of one turn serves the next: all but the
\* token that the end of the shorter text cut off (render_messages "has to be
\* prefix-preserving", encode, match).
NextTurnIsServed ==
  \A m, n \in Conversations, r \in DOMAIN replicas :
    IsStrictPrefix(m, n) =>
      LET whole == Len(render_messages(m)) \div Fold
      IN  F!Cached(Tokens(n), r) >= Min({F!Cached(Tokens(m), r), Usable(whole, prefix_match_unit)})

\* A handler waits for this replica, or for the client it serves from there.
AwaitingOn(q, r) == q \in DOMAIN open /\ Awaiting(q) /\ open[q].replica_id = r

\* Nothing is counted for the replica but the requests abandoned on it.
Drained(r) ==
  /\ replicas[r].in_flight = Cardinality({q \in abandoned : open[q].replica_id = r})
  /\ F!OpenOn(r) \subseteq abandoned
  /\ F!OpenOn(r) = {} => replicas[r] = F!ReplicaState

\* Once every body has arrived, a replica no handler waits on for ever comes to
\* be believed idle but for the requests abandoned: no other in-flight count or
\* queue estimate stays behind.  A stream that never ends on one replica leaves
\* nothing behind on another (complete on every path).
QueuesDrain ==
  \A r \in ToSet(backends) :
    (\A q \in Requests : []<>~AwaitingOn(q, r)) =>
      ((\A q \in Requests : pc[q] # "reading") ~> Drained(r))
=============================================================================
