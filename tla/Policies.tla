----------------------------- MODULE Policies -----------------------------
(***************************************************************************)
(* The routing decisions of policies.py that look at the fleet.  Costs are *)
(* whole multiples of the time to prefill one token, so that comparing two *)
(* scores is exact.                                                        *)
(***************************************************************************)
EXTENDS RadixTree

CONSTANTS
  Replicas, prefix_match_unit,
  lexical,              \* numbers the replica ids in their lexical order
  prefill_per_token,    \* CostModel.prefill_s_per_token
  decode_interference   \* CostModel.decode_interference_s

VARIABLES tree, replicas

Hit(tokens, r)  == MatchFor(tree, tokens, r, prefix_match_unit)
QueueDelay(r)   == replicas[r].pending_prefill_tokens * prefill_per_token
                   + replicas[r].in_flight * decode_interference
\* Mutant: the cache is not looked at.
ScoreBlind(tokens, r) == QueueDelay(r) + Len(tokens) * prefill_per_token
Score(tokens, r) == QueueDelay(r) + (Len(tokens) - Hit(tokens, r)) * prefill_per_token

Tiebreak(candidates) ==
  CHOOSE r \in candidates : \A s \in candidates \ {r} :
    \/ replicas[r].in_flight < replicas[s].in_flight
    \/ replicas[r].in_flight = replicas[s].in_flight /\ lexical[r] < lexical[s]

RoundRobin(ids, n) == ids[(n % Len(ids)) + 1]

LeastConnections == Tiebreak(DOMAIN replicas)

\* Only replicas with some whole block are in match().
PureAffinity(tokens) ==
  LET cached == {r \in Replicas : Hit(tokens, r) > 0}
  IN  IF cached = {} THEN Tiebreak(DOMAIN replicas)
      ELSE Tiebreak({r \in cached : \A s \in cached : Hit(tokens, s) <= Hit(tokens, r)})

\* Mutant: the queues are not looked at.
CostModelWithoutQueue(tokens) ==
  Tiebreak({r \in DOMAIN replicas :
              \A s \in DOMAIN replicas : Hit(tokens, s) <= Hit(tokens, r)})
CostModelPolicy(tokens) ==
  Tiebreak({r \in DOMAIN replicas :
              \A s \in DOMAIN replicas : Score(tokens, r) <= Score(tokens, s)})
=============================================================================
