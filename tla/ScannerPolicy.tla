---------------------------- MODULE ScannerPolicy ----------------------------
(***************************************************************************)
(* What the scanner service computes for one scan: the verifier-cache row  *)
(* that answers for the scanned URL, whether the URL is bound to it, how   *)
(* fresh the row is, what the runtime safety providers say, and the        *)
(* decision. No state: the operators are used by ScannerDecision.          *)
(*                                                                         *)
(* A host is the sequence of its labels, a path the sequence of its pieces *)
(* (a prefix may end inside a segment), a URL a record of what the code    *)
(* reads of it: keys are the names of its query, hops and final the two    *)
(* parameters of a resolver URL. An issuer hint is a host, or NoHost.      *)
(***************************************************************************)
EXTENDS DomainProof

CONSTANTS
    NoHost, NoUrl,      \* an absent hint, an absent or unparsable final URL
    NoRow,              \* no cache row answers for the scan
    BadHops             \* a hops parameter that is no safe integer

\* What the provider says of hosts: the lists of the three deterministic
\* providers. resolver* are the redirect inspector's.
HostLists == {"blocked", "unavailable", "risky", "new",
              "resolverBlocked", "resolverUnavailable", "resolverRisky"}

RuntimeStatuses == {"clear", "risky", "blocked", "unavailable"}

-----------------------------------------------------------------------------
\* Rows of qr_trust.verifier_cache_entries.

\* authorityContextAllowsResolution
AuthorityContextAllows(row) == row.rootGrants /\ row.authorityGrants

\* decodeVerifierCacheEntryRow skips rows without authority context and rows
\* whose issuer is a placeholder, before it reads the rest.
Visible(row) == AuthorityContextAllows(row) /\ ~row.placeholder

\* decodeApprovedDestinations: destinations with https URLs, DNS hosts and
\* absolute path prefixes.
DestinationsDecode(row) ==
    \A n \in DOMAIN row.rules : \A h \in row.rules[n].hosts : IsDnsHostname(h)

\* decodeRedirectPolicy: a hop limit that is a non-negative integer.
RedirectPolicyDecodes(row) == row.redirect.maxHops \in Nat

\* The require* checks of a visible row. One row that fails fails the load.
Decodes(row) == DestinationsDecode(row) /\ RedirectPolicyDecodes(row) /\ row.decodable

\* order by cache_expires_at desc, created_at desc
Before(r, s) == r.expires > s.expires \/ (r.expires = s.expires /\ r.created > s.created)

\* loadCache, and the empty cache of loadCacheOrMiss.
LoadCache(rows) ==
    IF \A r \in rows : Visible(r) => Decodes(r) THEN {r \in rows : Visible(r)} ELSE {}

-----------------------------------------------------------------------------
\* Which row answers, and is the URL bound to it (verifier-cache.ts).

\* ruleAllowsHost
RuleAllowsHost(rule, host) ==
    \E allowed \in rule.hosts :
        host = allowed \/ (rule.subdomains /\ EndsWithDomain(host, allowed))

\* policyAllowsHost
PolicyAllowsHost(row, host) == \E n \in DOMAIN row.rules : RuleAllowsHost(row.rules[n], host)

\* policyAllowsLookupHost
PolicyAllowsLookupHost(row, host) ==
    PolicyAllowsHost(row, host) \/ \E r \in row.redirect.resolvers : r.host = host

\* makeAcceptedRootPolicy: an empty list accepts no root.
AcceptsRoot(acceptedRoots, row) == row.root \in acceptedRoots

\* Mutant: the rows are taken in the order they were created.
OldestMatch(cache, acceptedRoots, host) ==
    LET matching == {r \in cache : AcceptsRoot(acceptedRoots, r) /\ PolicyAllowsLookupHost(r, host)}
    IN  IF matching = {} THEN NoRow
        ELSE CHOOSE r \in matching : \A s \in matching \ {r} : r.created <= s.created

\* findPolicyMatch: the first row in the query's order that allows the host.
FindPolicyMatch(cache, acceptedRoots, host) ==
    LET matching == {r \in cache : AcceptsRoot(acceptedRoots, r) /\ PolicyAllowsLookupHost(r, host)}
    IN  IF matching = {} THEN NoRow
        ELSE CHOOSE r \in matching : \A s \in matching \ {r} : Before(r, s)

\* The host looked up: the issuer hint of the request, or the URL's own.
LookupHost(url, hint) == IF hint # NoHost THEN hint ELSE url.host

\* matchedResolverUrl: host and path of a resolver the policy names.
MatchedResolvers(row, url) ==
    {r \in row.redirect.resolvers : r.host = url.host /\ r.path = url.path}

\* parseRedirectHopCount, and the limit of the policy.
HopsAllowed(row, url) == url.hops # BadHops /\ url.hops <= row.redirect.maxHops

\* redirectFinalDestinationAllowed
FinalAllowed(row, url) == url.final # NoUrl /\ url.final \in row.redirect.finals

\* resolveRedirectDestination
RedirectBound(row, url) ==
    /\ HopsAllowed(row, url)
    /\ FinalAllowed(row, url)
    /\ row.redirect.nested \/ ~url.nested

\* pathname.startsWith(prefix)
StartsWith(path, prefix) == Len(prefix) <= Len(path) /\ SubSeq(path, 1, Len(prefix)) = prefix

\* Mutant: the query of the URL is not looked at.
PathApproved(rule, url) ==
    rule.prefixes = {} \/ \E p \in rule.prefixes : StartsWith(url.path, p)

\* directDestinationMismatchReasons: none. allowedKeys = {} restricts nothing.
DirectDestinationMatches(rule, url) ==
    /\ rule.prefixes = {} \/ \E p \in rule.prefixes : StartsWith(url.path, p)
    /\ rule.query = "none" => url.keys = {}
    /\ rule.allowedKeys # {} => url.keys \subseteq rule.allowedKeys

\* resolveDestination: only the first rule that allows the host is asked.
DirectBound(row, url) ==
    \E n \in DOMAIN row.rules :
        /\ RuleAllowsHost(row.rules[n], url.host)
        /\ \A m \in 1 .. n - 1 : ~RuleAllowsHost(row.rules[m], url.host)
        /\ DirectDestinationMatches(row.rules[n], url)

\* binding_status = "bound". A resolver URL is judged as a resolver URL only.
Bound(row, url) ==
    IF MatchedResolvers(row, url) # {} THEN RedirectBound(row, url) ELSE DirectBound(row, url)

\* cacheFreshnessStatus at the time the request says it observed the code.
CacheFreshnessStatus(row, observed) ==
    IF row.generated > observed THEN "stale"
    ELSE IF row.expires <= observed THEN "expired" ELSE "fresh"

-----------------------------------------------------------------------------
\* Runtime safety (runtime-safety.ts).

Signal(status, delta) == [status |-> status, delta |-> delta]

\* parseEffectiveUrl: the final URL when one is known. The final URL of a
\* directly bound destination is the destination.
EffectiveUrl(url, viaResolver) == IF viaResolver THEN url.final ELSE url

\* makeDeterministicRuntimeSafetyProvider: mode is the URL's runtime parameter.
DeterministicVerdict(lists, mode, host) ==
    IF mode = "blocked" \/ host \in lists["blocked"] THEN Signal("blocked", 70)
    ELSE IF mode = "unavailable" \/ host \in lists["unavailable"] THEN Signal("unavailable", 30)
    ELSE IF mode = "risky" \/ host \in lists["risky"] THEN Signal("risky", 45)
    ELSE Signal("clear", 0)

\* makeDeterministicRedirectInspector with its default limit of one hop. A bound
\* destination that took no resolver has its own host as the final one.
RedirectSignal(lists, url, viaResolver) ==
    LET hops == IF viaResolver THEN url.hops ELSE 0
    IN  IF url.host \in lists["resolverUnavailable"] THEN Signal("unavailable", 30)
        ELSE IF url.host \in lists["resolverBlocked"] THEN Signal("blocked", 70)
        ELSE IF hops > 1 \/ url.host \in lists["resolverRisky"] THEN Signal("risky", 35)
        ELSE Signal("clear", 0)

\* makeDeterministicReputationProvider: the scores of the reasons add up.
ReputationSignal(lists, tlds, host) ==
    LET score == (IF host \in lists["risky"] THEN 45 ELSE 0)
                 + (IF host \in lists["new"] THEN 35 ELSE 0)
                 + (IF host[Len(host)] \in tlds THEN 15 ELSE 0)
    IN  IF host \in lists["unavailable"] THEN Signal("unavailable", 30)
        ELSE IF host \in lists["blocked"] THEN Signal("blocked", 70)
        ELSE IF score > 0 THEN Signal("risky", score) ELSE Signal("clear", 0)

\* mergedStatus
MergedStatus(statuses) ==
    IF "blocked" \in statuses THEN "blocked"
    ELSE IF "risky" \in statuses THEN "risky"
    ELSE IF "unavailable" \in statuses THEN "unavailable" ELSE "clear"

\* mergeSignals of makeCompositeRuntimeSafetyProvider's two signals.
MergeSignals(a, b) ==
    Signal(MergedStatus({a.status, b.status}),
           IF a.delta + b.delta > 100 THEN 100 ELSE a.delta + b.delta)

\* The provider a deployment is built with: the HTTP runtime has the clear one.
Inspect(provider, lists, tlds, url, viaResolver) ==
    LET effective == EffectiveUrl(url, viaResolver)
    IN  CASE provider = "clear" -> Signal("clear", 0)
          [] provider = "deterministic" ->
                DeterministicVerdict(lists, effective.mode, effective.host)
          [] provider = "composite" ->
                MergeSignals(RedirectSignal(lists, url, viaResolver),
                             ReputationSignal(lists, tlds, effective.host))

-----------------------------------------------------------------------------
\* Decisions (scanner-decision.ts). policy is the governed policy, or NoRow.

AtLeast(low, n) == IF n < low THEN low ELSE n

Decision(color, state, risk, hold, policy) ==
    [color |-> color, state |-> state, risk |-> risk, hold |-> hold, policy |-> policy]

\* makeGreenDecision
GreenDecision(row, verdict) == Decision("green", "verified_issuer", verdict.delta, 0, row.policy)

\* makeOrangeRuntimeCautionDecision
OrangeRuntimeCautionDecision(row, verdict) ==
    Decision("orange",
             IF verdict.status = "unavailable" THEN "verified_issuer_runtime_unavailable"
             ELSE "verified_issuer_destination_risky",
             AtLeast(30, verdict.delta), 800, row.policy)

\* makeRedRuntimeBlockedDecision
RedRuntimeBlockedDecision(row, verdict) ==
    Decision("red", "verified_issuer_runtime_blocked", AtLeast(60, verdict.delta), 800, row.policy)

\* makeOrangeCacheRefreshDecision, with CACHE_OPERATIONAL_STATES
OrangeCacheRefreshDecision(row, freshness) ==
    Decision("orange",
             IF freshness = "stale" THEN "verified_issuer_cache_stale"
             ELSE "verified_issuer_cache_expired",
             40, 800, row.policy)

\* makeOrangeUnrecognizedDecision
OrangeUnrecognizedDecision == Decision("orange", "plain_url_unrecognized", 30, 800, NoRow)

\* makeRedDestinationMismatchDecision
RedDestinationMismatchDecision(row) ==
    Decision("red", "destination_policy_mismatch", 70, 800, row.policy)

\* makeRuntimeAwareBoundDecision
RuntimeAwareBoundDecision(row, verdict) ==
    CASE verdict.status = "blocked" -> RedRuntimeBlockedDecision(row, verdict)
      [] verdict.status \in {"risky", "unavailable"} -> OrangeRuntimeCautionDecision(row, verdict)
      [] OTHER -> GreenDecision(row, verdict)

\* makeDecisionFromResolution up to the runtime check: what is decided without it.
NeedsRuntime(row, url, observed) ==
    row # NoRow /\ Bound(row, url) /\ CacheFreshnessStatus(row, observed) = "fresh"

DecisionWithoutRuntime(row, url, observed) ==
    IF row = NoRow THEN OrangeUnrecognizedDecision
    ELSE IF ~Bound(row, url) THEN RedDestinationMismatchDecision(row)
    ELSE OrangeCacheRefreshDecision(row, CacheFreshnessStatus(row, observed))
=============================================================================
