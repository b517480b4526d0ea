---------------------------- MODULE PrefixCache ----------------------------
(***************************************************************************)
(* What the prefix tree promises, without a tree: each replica holds a     *)
(* prefix-closed set of prefixes, each with the time of its last use, and  *)
(* loses the least recently used of them, only while over its capacity.    *)
(***************************************************************************)
EXTENDS Integers, FiniteSets, SequencesExt

CONSTANTS Replicas, Prompts, capacity_tokens, MaxNow

VARIABLES
  recency,  \* for each replica, a function from held prefixes to times
  now

cacheVars == <<recency, now>>

PrefixesOf(p) == {SubSeq(p, 1, i) : i \in 1 .. Len(p)}
PrefixClosed(S) == \A q \in S : PrefixesOf(q) \subseteq S

Over(r) ==
  r \in DOMAIN capacity_tokens /\ Cardinality(DOMAIN recency[r]) > capacity_tokens[r]
Settled == \A r \in Replicas : ~Over(r)

Init == recency = [r \in Replicas |-> [q \in {} |-> 0]] /\ now = 0

\* r holds p and all its prefixes from now on.
Store(p, r) ==
  /\ Settled
  /\ now' \in now .. MaxNow
  /\ recency' = [recency EXCEPT ![r] =
       [q \in DOMAIN @ \cup PrefixesOf(p) |-> IF q \in PrefixesOf(p) THEN now' ELSE @[q]]]

\* r has used what it holds of p, up to some length of it.
Use(p, r) ==
  /\ Settled
  /\ now' \in now .. MaxNow
  /\ \E i \in 0 .. Len(p) :
       recency' = [recency EXCEPT ![r] =
         [q \in DOMAIN @ |-> IF q \in PrefixesOf(SubSeq(p, 1, i)) THEN now' ELSE @[q]]]

\* Some of r's oldest prefixes go, with none left longer than what stays.
Evict(r) ==
  /\ Over(r)
  /\ UNCHANGED now
  /\ LET held   == DOMAIN recency[r]
         oldest == {q \in held : \A s \in held : recency[r][q] <= recency[r][s]}
     IN  \E gone \in (SUBSET oldest) \ {{}} :
           /\ PrefixClosed(held \ gone)
           /\ recency' = [recency EXCEPT ![r] = [q \in held \ gone |-> @[q]]]

Forget(r) ==
  /\ Settled
  /\ recency' = [recency EXCEPT ![r] = [q \in {} |-> 0]]
  /\ UNCHANGED now

Next ==
  \/ \E p \in Prompts, r \in Replicas : Store(p, r) \/ Use(p, r)
  \/ \E r \in Replicas : Evict(r) \/ Forget(r)

Spec == Init /\ [][Next]_cacheVars
=============================================================================
