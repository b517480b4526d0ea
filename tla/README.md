# A verification project for kv-aware-router

TLA+ models of the router, TLC configurations that check them on small instances, and TLAPS proofs
about them for all instances. Paths such as `radix.py` are below `src/src/kv_aware_router/`.

## 1. The system

kv-aware-router sends each LLM request to the replica that already holds its KV cache. It runs as an
OpenAI-compatible gateway on one asyncio event loop, and the same parts are driven by a trace replay
and a discrete-event simulation.

| Component | State | Operations | Talks to | What is hard |
|---|---|---|---|---|
| `PrefixTree` (`radix.py`) | nodes with an edge, children and `residents` (replica → last access); `tokens_used`, `capacity_tokens` | `insert` (walk, split, leaf, mark, evict), `touch`, `match`, `remove_replica` | nothing | splits must not lose residency; token accounting through splits; eviction looks at tails only; a prompt larger than the capacity |
| `Fleet` (`fleet.py`) | one `ReplicaState` per member; one `PrefixTree` | `dispatch`, `complete`, `add_replica`, `remove_replica`; `uncached_tokens`, `expected_ttft_s` | the tree | replicas leave and join with requests in flight; counters floored at zero |
| policies (`policies.py`) | `RoundRobin._n`; the ring of `ConsistentHash` | `choose` | reads the fleet | ties, stale rings, overload of the warmest replica |
| gateway (`gateway.py`) | the fleet, the policy, `Stats`; one coroutine per request | `chat_completions`, `stream` | policy, fleet, HTTP backends | interleaving at awaits; completing the dispatch on every exit path |
| replay (`replay.py`) | two trees, `truth` and the fleet's; the deque of open dispatches | `replay` | policy, fleet, truth | what the router believes and what replicas hold drift apart |
| simulation (`simulate.py`) | event heap, `busy`, `pending`, `decoding`, two trees | `simulate` with churn | policy, fleet, truth | events at one time; churn with queued work |
| workload (`workload.py`) | in one call: the list of requests, `next_token_id`, the history and clock of the present session | `generate`, `reuse_ceiling` | the tree, for the ceiling | token ids must not be used twice; turns that arrive together must keep their order |
| tokenizer (`tokenize.py`) | none | `render_messages`, `ByteTokenizer.encode` | called by the gateway | the next turn must keep the blocks of the last, although its last token was cut |
| experiments | none | scripts | workload, replay, simulate, gateway | |

What makes each part correct:

* tree: residency and recency are inherited along every path, children are told apart by their first
  token, the accounting equals the tokens held, the capacity bounds it between calls, `match` is the
  longest held prefix in whole blocks, no node is there that no prompt needs; in sum, it is a
  least-recently-used prefix cache;
* fleet: the tree names members only; the load counters are those of the open dispatches;
* gateway: every handler completes its dispatch, queue estimates drain, statistics and queue
  estimates agree; a turn finds what the one before it left; the cost model is affinity on an idle
  fleet and bounds the queue on a busy one;
* policies: a consistent-hash ring is never used stale, and moves a key only when it must;
* replay: until something completes, a belief errs on the side its assumed capacity says, unless
  requests arrive together; a blind one never errs on the other; no routing is
  better than the ceiling it is compared with;
* simulation: every request completes, in order, and the load the policies see is the real backlog,
  through replicas leaving and coming back (less than it once an id is reused);
* workload: in the sorted trace a prompt is a beginning of its session's next, and strangers share
  the system prompt and nothing else;
* tokenizer: the whole tokens of a text stay when text is appended, and tell texts apart.

The hazards behind these properties are listed in `PROJECT.json`, each at its line.

## 2. Modules

```
RadixTree ──── PrefixTree ──── MCPrefixTree             PrefixCache  (what PrefixTree implements)
    │               │ INSTANCE
    │             Fleet ─────── MCFleet
    │               │ INSTANCE
    ├─ Policies ── Gateway ──── MCGateway               (Gateway also EXTENDS Tokenize)
    ├─ Simulate (INSTANCE of Fleet and, for the truth, of PrefixTree) ── MCSimulate
    └─ Replay ───────────────── MCReplay
ConsistentHash ── MCConsistentHash
Workload ──────── MCWorkload

RadixTreeFacts  (lemmas about RadixTree)
    ├─ PrefixTreeProofs ── of PrefixTree
    ├─ FleetProofs ─────── of Fleet; instantiated by the next two
    ├─ GatewayProofs ───── of Gateway and Tokenize
    ├─ SimulateProofs ──── of Simulate
    └─ ReplayProofs ────── of Replay
ConsistentHashProofs, WorkloadProofs ── of the modules of those names
```

**RadixTree** has the tree as a value and each method's work as an operator. A node is named by the
tokens from the root to it: `depth` is `Len`, `edge` what a name has beyond its parent's, and the
children of a node are the nodes below it with none in between. A tree is a record of `residents`
(for each node a partial function from replicas to times) and `tokens_used`. `Walk`, `Deepest` and
`MidEdge` are `_descend`; `Extended` is the split and the new leaf, `Mark` and `Novel` the loop up
the path, `InsertPath` their sum; `Touched`, `Victims`, `Evicted`, `Forgotten`, `MatchFor` are the
other methods. Which of several equally old victims is taken depends on the order in which Python
dictionaries were filled; it is left open here and in every module but Replay. The `evictions` counter is left out.

Names stand for nodes only if walking by first tokens finds what comparing whole prefixes finds:
that is `ChildKeysUnique`, which is checked and proved.

**PrefixTree** is one such object under any sequence of calls, at times that never go back. `insert`
ends in the loop of `_enforce_capacity`; each pass of it, `EvictOne`, is a step, and `enforcing`
names the replica in the meantime, so that no other call starts. **PrefixCache** is the abstract
specification: per replica, a set of prefixes with a last use, without nodes. `PrefixTree` implements
it under `recency <- RecencyOf`.

**Fleet** adds replica states and the open `Dispatch` handles. `Dispatch` and `Complete` are whole
methods, including the tree's part. `orphans` and `reused` are history: the handles whose replica was
removed since, and the members that joined while handles of an earlier life were open.

**Policies** has the decisions; costs are multiples of the time to prefill a token, so that scores
compare exactly (the code's are floats). **Gateway** has the handlers of `chat_completions`; a step
is what a handler does between two awaits, and `pc` is where it waits (see the module's head).
`Abandon` is the environment ending a handler where no `except Exception` and no `finally` runs: a
cancellation at `await http.post`, or a response whose generator is never iterated; `abandoned` is
history and names the requests it ended. A failing `upstream.json()` comes after `complete()` and
changes nothing that is modelled. A request carries a list of messages, and what is routed on is
`Tokens` of it: **Tokenize** renders messages to bytes and folds bytes into tokens as `tokenize.py`
does, the last token filled up with zeros. A token is the sequence of its bytes, where the code packs
them into an integer, which is the same to anyone who compares tokens.

**Replay** is the loop of `replay()`: one iteration is one step, with truth and belief as two trees
or, in oracle mode, one. Requests come in the order of their arrival times, as `generate()` returns
them, and any number of them may arrive at one time: the next arrival is at the same time or at the
next number, which is all that comparing times can tell apart. Among equally old victims `_evict_one`
takes the first its traversal meets, so that here, where two trees get the same requests, the order
of the traversal counts. `truth_order` and `belief_order` keep it: the prompts that added a node, in
the order in which the stack comes to their nodes. A new node is the newest child of the one it hangs
on, and comes before all that is below that one (`Ordered`); a split puts a node in the place of
another and changes nothing; so `Place` of a node is that of the first prompt through it, and `Victim`
takes the foremost. As one iteration contains several eviction loops, `EnforceCapacity` is the tree
that a loop ends in: the trees after n passes are a recursive function of n, and n goes up to the
number of tokens used, as a pass takes off one at least. `ceiling` is the tree that `reuse_ceiling()` of
`workload.py` builds from the same requests, grown beside the others.

**Simulate** is the event loop of `simulate()`: one pop of the heap is one step, and the two
insertions of an arrival are followed by their eviction loops (`Enforce`) before anything else. Of
the heap it keeps the `_PREFILL_DONE` events as a set and the `_DECODE_DONE` events as a queue: all
decodes last equally long, so they end in the order they began, while the length of a prefill depends
on its uncached tokens and on the decodes beside it and is left open. Arrivals and churn may come at
any time. The fleet is an instance of Fleet whose handles are the requests, so that what Fleet
leaves to "any caller" is here one real caller, with the replicas' queues beside the router's counters.
The believed capacities are computed as the code does: `max(1, int(capacity * ratio))` for the
replicas of the start, without the maximum for one that joins, so that a small ratio makes the latter
zero. Churn may empty the fleet; the next arrival then ends the run (`ArrivalFails`, `failed`).

**Workload** is `generate()`: a step is one draw of the random generator with what the code does with
it, and every outcome of a draw is possible. `traces` are the lists several calls have returned. The
sort is written as what a stable sort does.

**ConsistentHash** has the ring as a set of entries, with the order that `ring.sort()` gives them
(by point, then by id) in `Before`; `Owner` is the scan for the first entry at or after the hash. The
hashes of virtual nodes and keys are arbitrary numbers, equal ones included. `last` is history: what
each key was answered, and which replicas were members then. It has the fleet's list of ids and
nothing else of the fleet, as the policy reads nothing else.

Operators whose comment begins with *Mutant* are not part of any specification: each is a plausible
bug in the definition after it, which the runs must notice if they are worth anything.

## 3. Runs

`cd tla; tlc -workers 2 -config <cfg> <module>`. Deadlock is checked in every run but those of
Simulate and Workload, which end: the heap is empty, the last list is returned.

| Run | Config | Asks | Bounds |
|---|---|---|---|
| `tree` | `MCPrefixTree.cfg` | the invariants of the tree; does it refine `PrefixCache`; does every eviction loop end | two replicas, one bounded by 3 tokens, less than the longest prompts, and one unbounded; five prompts that diverge inside an edge, at a node and at the root, one ending inside an edge, and the empty one; times 0..2 |
| `fleet` | `MCFleet.cfg` | membership and load counters under churn | two replicas, two open requests, one of the replicas starting outside; times 0..1 |
| `fleet_reuse` | `MCFleetReuse.cfg` | are the counters exact whatever joins (**violated**) | same |
| `gateway` | `MCGateway.cfg` | counters, statistics, decisions and draining of interleaved handlers with failures, hang-ups and cancellations; does a turn find the last one | two backends of 6 tokens, three requests, a conversation of two turns and a stranger's, two bytes to a token, four policies; time stands still |
| `gateway_leak` | `MCGatewayLeak.cfg` | is the dispatch completed on every exit (**violated**) | two requests |
| `replay` | `MCReplay.cfg` | on which side beliefs err; is the ceiling one | two replicas of 4 tokens, alike but for their names (symmetry); beliefs of 3, 4 tokens and blind; oracle or not; three prompts, one extending another; four requests and one of another router, at times that advance or not; concurrency 2 or 4; a trace with another router's request in it ends after two of this one's (`MCShort`) |
| `replay_drift` | `MCReplayDrift.cfg` | does a perfect model never mispredict (**violated**) | one replica, four prompts |
| `replay_oracle` | `MCReplayOracle.cfg` | does the queue estimate say what was believed in oracle mode too (**violated**) | small |
| `consistent_hash` | `MCConsistentHash.cfg` | is the cached ring ever stale; when do keys move | three replicas of two virtual nodes each, in five placements (apart, interleaved, colliding with one another, with themselves); two keys anywhere among, before and past them |
| `simulate` | `MCSimulate.cfg` | queues, counters and caches under churn; does every request complete | one replica at the start and one to join; three requests, three churn events; caches of 3 tokens at a ratio of 1/4, believed to be 1 and 0; times 0..1 |
| `workload` | `MCWorkload.cfg` | do the turns of a session extend each other in the sorted trace; what do strangers share | three sessions of one to three turns, two system prompts, gaps of 0 or 1 |
| `workload_background` | `MCWorkloadBackground.cfg` | does the same hold of sessions of two calls (**violated**) | two calls, one session of two turns each |

Why the bounds are enough to meet the interesting cases. A split needs two prompts that part inside
an edge; a split of a split needs a third (`<<1,2>>`, `<<1,2,3,4>>`, `<<1,2,3,5>>`). A
capacity below the longest prompt makes insertion evict its own path, above it makes it evict others.
Three times are enough for a node that is older than two others, and equal times cover ties. The
match unit of 2 makes lengths 1 and 3 partial blocks. Two replicas suffice where the tree treats
replicas independently, which `PrefixCache` states and `tree` checks. Three requests make
two dispatches to one replica with a third on another. The first turn of the gateway's conversation
has an odd number of bytes, so that its last token is cut, and the next turn goes on inside it; a
replica holds one turn and not both, so that turns are evicted while others are in flight. Ties in
time are all there is in `gateway`, where eviction may take any victim; orders of recency are the
subject of `tree` and `replay`. With four requests in Replay at concurrency
2, completions reorder a cache of two entries before it evicts; at concurrency 4 nothing completes,
and four requests evict from both trees. The belief of 3 is below what the longest prompt needs and the
truth of 4 is not; a belief above the truth is the blind one. The properties of Replay promise nothing
(but `TypeOK`) once another router has sent something, so that such traces are kept short. A
match unit of 1 stands for the 16 tokens below which the code takes none, and a token for as many. Three requests in Simulate are one
decoding, one in prefill and one waiting at a replica; three churn events let a replica join, another
leave with work queued, and come back, or both leave. Gaps of zero make turns of one session and of
several arrive together, in whatever order their sessions were generated.

### Fairness

`LoopEnds` assumes weak fairness of `EvictOne`: a synchronous loop is not preempted. The gateway's
specification assumes the same of `Enforce`, its eviction loop, and nothing else. In particular
nothing is assumed of a handler at its await or yield: the generator of `stream()` is suspended while
the client reads, a client may stop reading without closing, and httpx's timeout is per read, which a
backend that trickles chunks never reaches. `QueuesDrain` has what it needs as hypotheses instead, for
each replica apart: *if* no handler waits on the replica for ever (`[]<>~AwaitingOn(q, r)`), then once
all bodies have arrived (a client may never send one) the replica comes to be believed idle, but for
what the abandoned requests have left in its counters, which is all that the leak of `gateway_leak`
allows one to say. What it shows is that an end of the wait, of whatever kind, is followed by all that
the counters need, and that a stream that never ends on one replica leaves nothing behind on another.
`Abandon` may happen at any time or never.

`EveryRequestCompletes` assumes weak fairness of `PrefillDone`, `DecodeDone` and `Enforce`: `while
events` pops every event that is in the heap, and a synchronous loop is not preempted. Arrivals and
churn are not assumed to come. It says that what has arrived completes, unless the exception of an
empty fleet ends the run first.

### Disagreements between the code and what is said of it

1. *Completion on every exit path* (`gateway.py:189`, `LOGBOOK.md:155`). Cancelling `await http.post`
   raises no `Exception`; and a `StreamingResponse` cancelled before its first iteration never enters
   `stream()`, so its `finally` does not run. `in_flight` then leaks upward, as the comment fears.
2. *Counters kept in sync by lifecycle calls* (`fleet.py:62`). A handle names its replica by id only.
   Remove, add again, dispatch: the completion from the first life lowers the counters of the second.
   They are never too high (`NeverOvercounted`) and exact as long as ids are not reused that way.
3. *A router that sees every request and knows the true capacity reproduces the replica exactly*
   (`LOGBOOK.md:82`, `tests/test_drift.py:26`). `replay()` completes requests on the belief only;
   `touch` reorders its LRU while the truth keeps insertion order. Until the first completion the
   claim holds, ties included (`CapacityOrdersHoldings`; `PerfectModelDriftsOnlyByCompletion` proves that nothing is
   mispredicted), and a blind router never underestimates at all.
4. *Measure before dispatching* (`replay.py:207`, `fleet.py:115`). In oracle mode `truth.insert` on
   line 220 has already stored the prompt when line 221 dispatches it on the same tree, so that the
   queue estimates of the oracle runs count the tail of a block only.
5. *Strangers share a short head* (`workload.py:9-10`), and the background of
   `experiments/02_capacity_and_drift.py:32` is another router's traffic. Every call of `generate()`
   numbers its tokens from the same one, whatever the seed. With `turn_skew` 0, as there, turn k of
   session i has the same tokens in both traces, and a background session that draws the system prompt
   of its namesake (one in three) repeats a whole conversation of the foreground: it warms caches for
   it, where it is meant to evict.

### Requests that arrive together

`tests/test_drift.py:63` says that "believing a replica is colder than it is costs reuse, not accuracy",
and `replay.py:152` that a ratio of 0.5 "under-uses a cache that is really there". That needs the
hypothesis `NoTies` of `CapacityOrdersHoldings`; without it TLC refutes the nesting. Of equally old
entries `_evict_one` drops the newest child. Let requests for `<<1,2,3,4>>`, `<<5>>` and `<<5>>` arrive at
one time at a replica of 4 tokens that is taken to have 3: the router has dropped the first prompt at
once and believes in the second, which the replica, full with the first, drops. The third is believed
to hit and misses (so does the code, a token being a block of 16). `replay()` takes arrival times as
they are, and `generate()` returns equal ones with an infinite `session_arrival_rate` or a `think_time_s`
of zero. With equal capacities the two caches are the same, ties or not.

## 4. Proofs

`tlapm <module>.tla` for each of `RadixTreeFacts`, `PrefixTreeProofs`, `FleetProofs`,
`ConsistentHashProofs`, `GatewayProofs`, `SimulateProofs`, `ReplayProofs`, `WorkloadProofs`; the
slowest take some minutes. Every invariant and action property of a passing run is a theorem there,
for any sets of replicas, prompts, requests and conversations, any capacities, match units, costs,
hashes and lengths of a trace.

### The tree

**RadixTreeFacts** holds the lemmas: about prefixes of sequences; that the walk reaches a deepest node
and where it stops (`WalkStops`); that between a node and one below it lies a child (`ChildTowards`);
and, method by method, two kinds of facts. First, that the tree stays `Sound`. `Sound(t, T, P, A, h)`
is for tokens `T`, prompts `P`, replicas `A` that may be resident and the time `h`:

* nodes are prefixes of prompts, the root is a node and nobody's, times are in `0..h`;
* `Branching`: any two nodes part at a node. Without it a split could be inserted at a place that the
  walk does not see, and `ChildKeysUnique` alone is not inductive: a split must know that no edge
  leaves the one it cuts (`EdgeHasNoExit`);
* `Layered`: a replica resident at a node is resident at every node above, with times no earlier.
  `_evict_one` keeps it because a tail, which only has no resident *child*, then has no resident
  descendant; `touch` keeps it because the path it refreshes is closed upwards.

Second, what a method does to the set `Held(t, r)` of prefixes and to the `Recency` of each, without
nodes: `InsertStores`, `TouchUses`, `EvictTakesOldest`, `ForgetClears`; and that `MatchFor` is a
function of that set (`MatchIsLongest`). `Counted` says that `tokens_used` is its cardinality; it
passes through a split because `Novel` counts exactly the cuts that were not held (`NovelIsNotHeld`),
and through an eviction because an edge's tokens are exactly the prefixes lost.

**PrefixTreeProofs.** `Sound` is inductive (`IInv`), and gives `TypeOK`, `ResidencyInherited`,
`RecencyInherited` and `ChildKeysUnique`. `CountInv` adds `Counted` and that `enforcing` names exactly
the replica over its capacity; that one is inductive because over its capacity a replica holds
something, and so has a victim: the `break` of `_enforce_capacity` is never reached
(`LoopAlwaysFindsVictim`), each pass counts off a token at least (`LoopAlwaysProgresses`), and
`WithinCapacity` follows. `NodesInv` adds that every node ends a prompt or is where two part.
`TreeKeepsPromise` is the refinement: the initial tree maps to the initial cache, and each step to one
of `PrefixCache` or a stutter, from the second kind of facts.

### What is built on it

**FleetProofs** takes `A` to be the members of the moment, which gives `ResidentsAreMembers`:
`AddReplica` may enlarge `A`, and `RemoveReplica` shrinks it in the step in which the tree forgets.
`OpenInv` adds the open handles and their types. `LoadInv` says of each member that its counters are at
most what it owes, and exactly that if its id was not reused; `Pending`, the sum of uncached tokens,
is the cardinality of a set of pairs, so that a dispatch adds a disjoint part and a completion takes
one away. `BeliefAlwaysFits` bounds what is believed cached by the prompt.

**GatewayProofs** begins with `Tokenize`. Appending to a text keeps its whole tokens
(`EncodeKeepsPrefixes`), which is why `NextTurnIsServed` may ask for all but the cut one; texts whose
whole tokens agree agree byte for byte (`EncodeTellsApart`), so that no reuse is reported that is not
there; and the rendering of a conversation is a beginning of that of any longer one
(`RenderKeepsPrefixes`). For the handlers, `GateInv` ties `open` to `pc` and `abandoned`. With it every
step of Gateway is a step of Fleet or leaves the fleet alone (`GatewayFleetIsAFleet`), so FleetProofs,
instantiated, gives the gateway's load. From there come `LoadIsOpen`, the types of the statistics,
`MissesAreQueued`, the two properties of the cost model and `NextTurnIsServed`. `AlwaysDrained` is the
state `QueuesDrain` promises of a replica, for whenever no handler waits on it.

**SimulateProofs.** `LineInv` says that a sent request is in one place of queue, prefill, decode and
done, that queues are ascending, and that of two requests to one replica the later is never further on;
`SimInv` adds that the counters per replica are the cardinalities of those places. `WorkConserving`,
`OnePrefillAtATime`, `NothingLost` and `FirstComeFirstServed` follow, and that the heap is not empty
while a request is unfinished (`HeapAlwaysOutlastsRequests`). The fleet is again an instance of Fleet
(`SimulatedFleetIsAFleet`); as the open handles are the unfinished requests (`OpenIsUnfinished`), its
`LoadInv` gives `LoadIsBacklog`. `ColdInv` says for both trees that who is not warm is nowhere
resident, and that only warm replicas are in an eviction loop, from which comes `ColdOnReturn`.

**ReplayProofs.** First the loop: that the recursive function of `EnforceCapacity` exists
(`LoopExists`), and that the tree it ends in is `Trimmed`: sound, within the capacity, with the same
nodes, and without some of the oldest prefixes (`LoopTrims`). Then `ReplayInv`, whose parts are:

* `Trees` and `Line`: both trees sound and counted, requests in flight within the concurrency;
* `BlindNeverUnderestimates`, inductive with `Trees` since a completion moves nothing;
* `Ceiling`: what a replica holds the ceiling's one holds. `NoPolicyBeatsTheCeiling` follows as a hit
  grows with what is held (`HitGrows`);
* `Compared`, for the time before the first completion. Both trees then have the same nodes and the
  same traversal. For a replica whose two capacities are equal they are `Alike`: the same residents at
  the same times, node by node. Each pass then has the same victims and the same foremost of them
  (`SameVictim`), so that the loops end alike (`LoopAlike`, `InsertedAlike`); this holds whatever arrives
  together, because the victims and the traversal determine which of them goes.
* `Sorted`, the part of `Compared` that assumes `NoTies`, for unequal capacities.
  `CapacityOrdersHoldings` speaks of sets and is
  not inductive: that the smaller cache stays in the larger needs that both have the same nodes, that
  times agree on what both hold, that what only the larger holds is no younger (`Nested`), and that
  prefixes used last at one time are of one request, hence comparable (`OneAtATime`). The step is
  `SmallerIsSpared`: suppose that the larger, over its capacity, evicts an edge the smaller keeps some
  of. The smaller keeps all of that edge (`EvictTakesEdge`: edges are the same in both trees), while
  the larger has something else the smaller lacks, no younger than the edge as the edge was chosen,
  no older by nesting; so both were used in one request, one is a prefix of the other, and either way
  there is a contradiction. With ties `OneAtATime` fails, and so does the conclusion (section 3).

**WorkloadProofs.** `GenInv` says of every list, finished or not, that a request is a system prompt, a
token of its session's own that no other session has, and more of the same; that of two requests of a
session the later turn strictly extends the earlier and comes no earlier; and that the session under
way goes on from its own history. The sort is a permutation of places that puts earlier arrivals first
and keeps the order of equal ones, so that turns with a gap of zero keep theirs.

**ConsistentHashProofs** shows that a sorted ring has a first entry and which one decides
(`FirstIsLeast`, `Deciding`), and the inductive invariant `IInv`: the ring is the one of the ids it was
built for, and every answer in `last` is the owner on the ring of the members of that time, for which
it does not matter in which order they joined. `SameOwner` is the heart of `MovesOnlyIfItMust`: if
the owners for two fleets are members of both, each one's deciding entry is an entry of the other's
ring, so that each comes before the other.

### Assumptions

They are those the modules name, and TLC evaluates each on its runs. Prompts are sequences of tokens
and `None` is no replica; match unit, virtual nodes, concurrency and the bytes of a token are at least
one; capacities, costs and hashes are numbers; initial fleets consist of replicas, the gateway's is not
empty; roles and contents are texts of bytes; ids compare by an order in which no two are equal
(`lexical`); the numbers of sessions, turns, prompts and tokens of `generate()` are positive, its gaps
not negative. The bounds that only TLC needs (of clocks, requests, churn) are arbitrary numbers.
Nothing is assumed of collisions on the ring or of what prompts share. Requests of Replay come in the
order of their arrival times; that no two arrive together is assumed nowhere but as the hypothesis
`NoTies` of two conjuncts of `CapacityOrdersHoldings`.

Induction is by least counterexample (`LeastNat`), since the library's induction rules take an
operator as a parameter.

### Only model-checked

The liveness properties `LoopEnds`, `QueuesDrain` and `EveryRequestCompletes`: fairness and ENABLED are
out of the prover's reach. What they rest on is proved: that a loop makes progress, that what is drained
is clean, that the heap does not run empty. The five properties of the runs that are violated are
refuted, and not provable.

## 5. Not modelled

* `Config.from_env`, `/health` and `/stats`, HTTP headers and wording: they only read, or parse the
  environment.
* `HFTokenizer`: it calls a library, whose tokens are not the router's to choose. It need not keep
  prefixes as `ByteTokenizer` does.
* The experiments: scripts that call the parts above. The sessions of `04_real_backend.py` wait for
  one turn before they send the next; Gateway lets requests come in any order, theirs included.
* Of `simulate()`: the oracle and blind beliefs (which Replay has), simulated time but for the order
  it imposes (events at one time come in any order), the timing fields of an `Outcome`, percentiles
  and reports. Of `replay()`: its counters but for `mispredicted_requests`.
* The distributions of `generate()`: every outcome of a draw is possible.
* The eviction counters of the tree, and the ceiling on the match unit per backend.
* Numbers: the blake2b hash of the ring is any function to numbers, times are small integers, the
  floats in costs are integers.

## 6. Plan

1. Done: RadixTree, PrefixTree with PrefixCache, Fleet, Policies, Gateway with Tokenize, Replay,
   ConsistentHash, Simulate, Workload; all their invariants and action properties proved, and the
   refinements PrefixTree ⇒ PrefixCache, Gateway ⇒ Fleet and Simulate ⇒ Fleet.
2. Proofs left: that the truth of Simulate and both trees of Replay implement `PrefixCache` as well.
3. Models left: the policies over a fleet with churn; the oracle belief in Simulate.
