---------------------------- MODULE MCWorkload ----------------------------
\* Three sessions of one to three turns, no time or one unit apart, so that turns
\* of one session, and of several, arrive together; or two calls of one session.
EXTENDS Workload
=============================================================================
