----------------------------- MODULE MCSimulate -----------------------------
\* One replica at the start and another to join, whose caches hold three
\* tokens; the router takes them to hold a quarter, which is one token for the
\* first and none for the other; three churn events, so that either may leave
\* and come back, or both leave.
EXTENDS Simulate

MCPrompts == {<<1, 2, 3>>, <<4>>}
MCRatio   == <<1, 4>>
=============================================================================
