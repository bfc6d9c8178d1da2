----------------------- MODULE MCPublicationPipeline -----------------------
EXTENDS PublicationPipeline, TLC

CONSTANT a

Shop == <<"shop", "com">>
Pay == <<"pay", "shop", "com">>

Item(k, v, o, rs) ==
    [issuer |-> a, kind |-> k, version |-> v, occurred |-> o, sound |-> TRUE, rules |-> rs]

Destination(h) == [expected |-> h, hosts |-> {h}, subdomains |-> TRUE]

\* Two versions of a policy; the second adds a subdomain.
Queue == <<Item("policy", 2, 0, <<Destination(Shop)>>),
           Item("policy", 3, 0, <<Destination(Shop), Destination(Pay)>>)>>

\* Nothing in the queue: only bundles are published.
NoQueue == <<>>

\* The subdomain was proved, revoked and proved again; its parent is proved too.
SubdomainReproved ==
    [i \in Issuers |-> {[domain |-> Shop, status |-> "verified", expires |-> 1],
                        [domain |-> Pay, status |-> "revoked", expires |-> 1],
                        [domain |-> Pay, status |-> "verified", expires |-> 0]}]
=============================================================================
