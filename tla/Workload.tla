------------------------------ MODULE Workload ------------------------------
(***************************************************************************)
(* generate() of workload.py: synthetic sessions whose turns share their   *)
(* prompts' beginnings.  What the random generator draws is left open.  A  *)
(* step is one draw of the code with what follows from it; `traces' are    *)
(* the lists that calls have returned, as for a replay with background     *)
(* traffic there are several (experiments/02_capacity_and_drift.py).       *)
(***************************************************************************)
EXTENDS Integers, FiniteSets, SequencesExt

CONSTANTS
  n_sessions, n_system_prompts, system_tokens, user_tokens, reply_tokens, \* WorkloadSpec
  Turns,     \* what draw_turns may return; one number if turn_skew is 0
  Gaps,      \* the times that may pass between arrivals of sessions or turns
  MaxTraces  \* bound on the calls

ASSUME SpecAssumption ==
  /\ {n_sessions, n_system_prompts, system_tokens, user_tokens, reply_tokens} \subseteq Nat \ {0}
  /\ Turns \subseteq Nat \ {0} /\ Gaps \subseteq Nat

VARIABLES
  traces,
  requests, next_token_id, session_start, session_id,  \* of the call under way
  index, history, at, turn, turns                      \* of its present session

vars == <<traces, requests, next_token_id, session_start, session_id, index, history, at, turn,
          turns>>

system_prompts(i) == [k \in 1 .. system_tokens |-> i * system_tokens + k - 1]

\* Mutant: every session numbers its tokens from the same one.
FreshInSession(first, n) ==
  [k \in 1 .. n |-> n_system_prompts * system_tokens + Len(history) - system_tokens + k - 1]
Fresh(first, n) == [k \in 1 .. n |-> first + k - 1]

\* Mutant: of requests that arrive together the later one comes first.
ComesBeforeReversed(s, j, i) ==
  s[j].arrival_s < s[i].arrival_s \/ (s[j].arrival_s = s[i].arrival_s /\ j >= i)
ComesBefore(s, j, i) ==
  s[j].arrival_s < s[i].arrival_s \/ (s[j].arrival_s = s[i].arrival_s /\ j <= i)

\* list.sort(), which is stable: i comes after as many as come before it.
Sorted(s) ==
  LET Place(i) == Cardinality({j \in DOMAIN s : ComesBefore(s, j, i)})
  IN  [k \in DOMAIN s |-> s[CHOOSE i \in DOMAIN s : Place(i) = k]]

----------------------------------------------------------------------------
Init ==
  /\ traces = <<>>
  /\ requests = <<>> /\ session_start = 0 /\ session_id = 0
  /\ next_token_id = n_system_prompts * system_tokens
  /\ index = 0 /\ history = <<>> /\ at = 0 /\ turn = 0 /\ turns = 0

StartSession ==
  /\ turn = turns /\ session_id < n_sessions /\ Len(traces) < MaxTraces
  /\ session_id' = session_id + 1
  /\ \E gap \in Gaps : session_start' = session_start + gap
  /\ index' \in 0 .. n_system_prompts - 1
  /\ history' = system_prompts(index')
  /\ at' = session_start'
  /\ turns' \in Turns /\ turn' = 0
  /\ UNCHANGED <<traces, requests, next_token_id>>

\* The reply becomes part of the next turn's prompt.
Turn ==
  /\ turn < turns
  /\ LET prompt == history \o Fresh(next_token_id, user_tokens)
     IN  /\ requests' = Append(requests, [session_id |-> session_id, turn |-> turn,
                                          index |-> index, arrival_s |-> at, tokens |-> prompt])
         /\ history' = prompt \o Fresh(next_token_id + user_tokens, reply_tokens)
  /\ next_token_id' = next_token_id + user_tokens + reply_tokens
  /\ \E gap \in Gaps : at' = at + gap
  /\ turn' = turn + 1
  /\ UNCHANGED <<traces, session_start, session_id, index, turns>>

\* The list is sorted and returned.  Another call numbers its tokens anew.
Return ==
  /\ turn = turns /\ session_id = n_sessions
  /\ traces' = Append(traces, Sorted(requests))
  /\ requests' = <<>> /\ session_start' = 0 /\ session_id' = 0
  /\ next_token_id' = n_system_prompts * system_tokens
  /\ index' = 0 /\ history' = <<>> /\ at' = 0 /\ turn' = 0 /\ turns' = 0

Next == StartSession \/ Turn \/ Return

Spec == Init /\ [][Next]_vars

----------------------------------------------------------------------------
\* How many tokens two requests' prompts have in common.
Shared(p, q) == Len(LongestCommonPrefix({p.tokens, q.tokens}))

\* A trace has the turns of a session in their order, each prompt a beginning
\* of the next, also when two arrive at one time ("the shared prefix grows",
\* Request, requests.sort).
TurnsExtend ==
  \A i \in DOMAIN traces : \A j, k \in DOMAIN traces[i] :
    LET p == traces[i][j]
        q == traces[i][k]
    IN  j < k /\ p.session_id = q.session_id
          => p.turn < q.turn /\ p.arrival_s <= q.arrival_s /\ IsStrictPrefix(p.tokens, q.tokens)

\* Two sessions have no more in common than the head, if they drew the same
\* one ("there is a short common head even between strangers").
ShareTheHead(p, q) == Shared(p, q) = IF p.index = q.index THEN system_tokens ELSE 0

StrangersShareTheHead ==
  \A i \in DOMAIN traces : \A p, q \in ToSet(traces[i]) :
    p.session_id # q.session_id => ShareTheHead(p, q)

\* That holds for a session of this trace and one of another, such as the
\* background traffic of "a second router ... or another tenant" (replay).
OtherTracesShareTheHead ==
  \A i, j \in DOMAIN traces : i # j =>
    \A p \in ToSet(traces[i]), q \in ToSet(traces[j]) : ShareTheHead(p, q)
=============================================================================
