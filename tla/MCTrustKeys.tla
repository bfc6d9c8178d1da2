----------------------------- MODULE MCTrustKeys -----------------------------
\* Two root programs; authorities a, whose key may be rotated, and b.
EXTENDS TrustKeys

MCKey(signer, root, authority, material, ref) ==
    [signer |-> signer, root |-> root, authority |-> authority,
     scope |-> IF signer = root THEN "root_program" ELSE "delegated_authority",
     algorithm |-> "ed25519", material |-> material, ref |-> ref]

\* 1 root, 2 and 3 the keys of a, 4 of b, 5 another root.
MCKeys ==
    <<MCKey("r", "r", NoAuthority, "mr", "managed"),
      MCKey("a", "r", "a", "ma1", "pem"),
      MCKey("a", "r", "a", "ma2", "env"),
      MCKey("b", "r", "b", "mb", "file"),
      MCKey("s", "s", NoAuthority, "ms", "pem")>>

MCEnrolled == {1, 2, 4, 5}
MCProviders ==
    <<[kind |-> "environment", keys |-> {3}],
      [kind |-> "filesystem", keys |-> {4}],
      [kind |-> "managed", keys |-> {1}],
      [kind |-> "static", keys |-> {2, 3, 5}]>>

MCRequest(signer, root, authority, key, target, status) ==
    [signer |-> signer, root |-> root, authority |-> authority,
     key |-> key, target |-> target, status |-> status]

MCRequests ==
    {MCRequest("r", "r", NoAuthority, 0, 2, "revoked"),
     MCRequest("r", "r", "b", 0, 4, "active"),
     MCRequest("a", "r", "a", 2, 2, "revoked"),
     MCRequest("a", "r", "a", 0, 4, "suspended"),
     MCRequest("a", "r", "a", 3, 1, "retired"),
     MCRequest("a", "r", "b", 0, 4, "revoked"),
     MCRequest("b", "r", "b", 0, 4, "expired"),
     MCRequest("b", "r", "b", 0, 2, "active"),
     MCRequest("s", "s", NoAuthority, 0, 1, "revoked")}

MCPlan(current, next, status, retires, cache, revoked, published) ==
    [current |-> current, next |-> next, nextStatus |-> status, activates |-> 1,
     retires |-> retires, cacheExpires |-> cache, revokedAt |-> revoked,
     publishedAt |-> published]

MCPlans ==
    {MCPlan(2, 3, "active", 3, 3, 0, 0),        \* accepted
     MCPlan(2, 3, "active", 9, 10, 2, 6),       \* emergency, with every warning
     MCPlan(2, 4, "active", 3, 0, 0, 0),        \* another authority's key
     MCPlan(2, 3, "suspended", 3, 0, 0, 0),
     MCPlan(2, 3, "active", 1, 0, 0, 0)}        \* too short

MCPolicy ==
    [root_program |-> [min |-> 3, max |-> 6, sla |-> 2],
     delegated_authority |-> [min |-> 1, max |-> 4, sla |-> 1]]
=============================================================================
