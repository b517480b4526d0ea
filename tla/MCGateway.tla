----------------------------- MODULE MCGateway -----------------------------
\* Two backends, a conversation's first and second turn, of 7 and 12 bytes, and
\* a stranger's, at two bytes to a token.
EXTENDS Gateway

CONSTANTS a, b

MCMarker == [role \in {"system", "user", "assistant"} |->
               CASE role = "system" -> <<9>> [] role = "user" -> <<8>> [] OTHER -> <<7>>]

Says(role, text) == [role |-> role, content |-> <<text>>]
First    == <<Says("system", <<1, 2>>), [role |-> "user", content |-> <<<<3>>, <<4, 5>>>>]>>
Second   == First \o <<Says("assistant", <<6>>), Says("user", <<1, 2>>)>>
Stranger == <<Says("system", <<2, 2>>), Says("user", <<>>)>>

MCConversations == {First, Second, Stranger}

MCCapacity == [r \in {a, b} |-> 6]
MCBackends == <<a, b>>
MCLexical  == [r \in {a, b} |-> IF r = a THEN 1 ELSE 2]
=============================================================================
