-------------------------- MODULE MCScannerDecision --------------------------
(***************************************************************************)
(* Small instances of the scanner decision and of the stores it is made    *)
(* from. ScannerDecision starts from the rows as the reader returns them,  *)
(* VerifierCacheStores is about how artifacts become such rows; a          *)
(* behaviour of one is that of the whole in which the other rests, and a   *)
(* run explores each of them in full and by itself.                        *)
(***************************************************************************)
EXTENDS ScannerDecision, VerifierCacheStores

VARIABLE part   \* the part at work

CacheInit ==
    /\ part \in {"scans", "stores"}
    /\ Init /\ StoresInit
    /\ part # "scans" => provider = CHOOSE p \in Providers : TRUE

CacheNext ==
    /\ UNCHANGED part
    /\ \/ part = "scans" /\ Next /\ UNCHANGED storesVars
       \/ part = "stores" /\ StoresNext /\ UNCHANGED vars

CacheSpec == CacheInit /\ [][CacheNext]_<<part, vars, storesVars>>

-----------------------------------------------------------------------------
\* The scans: a shop that redirects through a resolver, a second policy that
\* approves the shop's subdomains for another issuer, rows without context, of an
\* unknown root, expired and broken.
CONSTANTS p1, p2, s1

MCPolicies == {p1, p2}
OneScan == {s1}

Shop == <<"shop", "example">>
Pay == <<"pay", "shop", "example">>
Go == <<"go", "example">>
Final == [host |-> Pay, mode |-> "none"]
RiskyFinal == [host |-> Shop, mode |-> "risky"]

Url(host, path, keys, hops, final, nested, mode) ==
    [host |-> host, path |-> path, keys |-> keys, hops |-> hops, final |-> final,
     nested |-> nested, mode |-> mode]

MCUrls ==
    { Url(Shop, <<"/buy", "ing">>, {}, 0, NoUrl, FALSE, "none"),
      Url(Shop, <<"/buy">>, {"utm"}, 0, NoUrl, FALSE, "none"),
      Url(Pay, <<"/buy">>, {"runtime"}, 0, NoUrl, FALSE, "blocked"),
      Url(Shop, <<"/buy">>, {"risk"}, 0, NoUrl, FALSE, "unavailable"),
      Url(Go, <<"/r">>, {"final"}, 1, Final, FALSE, "none"),
      Url(Go, <<"/r">>, {"final", "hops"}, 2, Final, FALSE, "none"),
      Url(Go, <<"/r">>, {"final"}, 0, RiskyFinal, FALSE, "none"),
      Url(Go, <<"/r">>, {"final", "nested"}, BadHops, NoUrl, TRUE, "none"),
      Url(Go, <<"/other">>, {}, 0, NoUrl, FALSE, "none") }

MCHints == {NoHost, Shop}

Rule(hosts, subdomains, prefixes, query, keys) ==
    [hosts |-> hosts, subdomains |-> subdomains, prefixes |-> prefixes,
     query |-> query, allowedKeys |-> keys]

ToPay == [resolvers |-> {[host |-> Go, path |-> <<"/r">>]}, finals |-> {Final},
          maxHops |-> 2, nested |-> FALSE]
NoRedirect == [resolvers |-> {}, finals |-> {}, maxHops |-> 0, nested |-> FALSE]

ShopRow == [root |-> "root", rootGrants |-> TRUE, authorityGrants |-> TRUE,
            placeholder |-> FALSE, decodable |-> TRUE, redirect |-> ToPay,
            rules |-> <<Rule({Shop}, FALSE, {<<"/buy">>}, "none", {}),
                        Rule({Shop, Pay}, FALSE, {}, "allow_known_payment_query", {"utm"})>>,
            generated |-> 0, expires |-> 2]

MCRowValues ==
    { ShopRow,
      [ShopRow EXCEPT !.expires = 1],
      [ShopRow EXCEPT !.authorityGrants = FALSE],
      [ShopRow EXCEPT !.root = "elsewhere"],
      [ShopRow EXCEPT !.redirect = NoRedirect, !.generated = 1,
                      !.rules = <<Rule({Shop}, TRUE, {}, "allow_known_payment_query", {})>>],
      [ShopRow EXCEPT !.placeholder = TRUE, !.decodable = FALSE],
      [ShopRow EXCEPT !.decodable = FALSE] }

\* Pay collects every reason there is; its scores sum past the cap.
MCLists == [l \in HostLists |->
    IF l \in {"risky", "new", "resolverRisky"} THEN {Pay} ELSE {}]
MCTlds == {"example"}

-----------------------------------------------------------------------------
\* The stores.
Key(r, a, i, p) == [root |-> r, authority |-> a, issuer |-> i, policy |-> p]

\* An issuer with two policies, and an authority and an issuer of the same names
\* under another root.
SharedStore ==
    {Key("r1", "a", "i", "p1"), Key("r1", "a", "i", "p2"), Key("r2", "a", "i", "p1")}

\* The policy expires between the two issuer records.
ShortAndLong == {[tier |-> 1, until |-> 3], [tier |-> 2, until |-> 1]}
OneHost == {[hosts |-> {"h"}, until |-> 2]}
==============================================================================
