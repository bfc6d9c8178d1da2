-------------------------- MODULE MCReadModelQueue --------------------------
EXTENDS ReadModelQueue

Good(r) == [role |-> r, version |-> 1, scope |-> "own", active |-> TRUE, grants |-> TRUE,
            sound |-> TRUE, signed |-> TRUE, until |-> IF r = "status" THEN 1 ELSE 2]

FullChain == [r \in Roles |-> Good(r)]

\* The issuer is suspended, and its status event revoked.
Withdrawals == {[Good("issuer") EXCEPT !.version = 2, !.active = FALSE],
                [Good("status") EXCEPT !.version = 2, !.active = FALSE]}

\* A status event nobody signed.
Unsigned == {[Good("status") EXCEPT !.version = 2, !.signed = FALSE]}

\* The second item's row may be one that does not decode.
TwoItems == <<0, 2>>
=============================================================================
