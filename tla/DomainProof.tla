----------------------------- MODULE DomainProof -----------------------------
(***************************************************************************)
(* Domain control: which of an issuer's proofs answers for a destination   *)
(* host, and whether a destination policy may be published. A host is the  *)
(* sequence of its labels, normalized (case and final dot removed); the    *)
(* empty sequence stands for text that is no DNS name. expires = 0 stands  *)
(* for a proof without expires_at.                                         *)
(***************************************************************************)
EXTENDS Naturals, Sequences

ProofStatuses == {"pending", "verified", "failed", "expired", "revoked"}

\* destinationHost.endsWith("." + domain)
EndsWithDomain(host, domain) ==
    /\ Len(host) > Len(domain)
    /\ SubSeq(host, Len(host) - Len(domain) + 1, Len(host)) = domain

\* isDnsHostname
IsDnsHostname(host) == host # <<>>

\* hostMatchesAllowedHost
HostMatchesAllowedHost(rule, allowed, host) ==
    host = allowed \/ (rule.subdomains /\ EndsWithDomain(host, allowed))

\* matchingDestinationRule: the first rule of the policy that approves the host.
MatchesRule(rules, n, host) ==
    \E allowed \in rules[n].hosts : HostMatchesAllowedHost(rules[n], allowed, host)

MatchingDestinationRule(rules, host) ==
    {rules[n] : n \in {m \in DOMAIN rules :
        MatchesRule(rules, m, host) /\ \A k \in 1 .. m - 1 : ~MatchesRule(rules, k, host)}}

\* proofCoversDestination
ProofCoversDestination(rule, domain, host) ==
    host = domain \/ (rule.subdomains /\ EndsWithDomain(host, domain))

\* order by verification_status in issuerDomainProofsByIssuerCommand
StatusRank(s) ==
    CASE s = "verified" -> 1 [] s = "pending" -> 2 [] s = "failed" -> 3
      [] s = "expired" -> 4 [] s = "revoked" -> 5

CoveringProofs(proofs, rule, host) ==
    {p \in proofs : ProofCoversDestination(rule, p.domain, host)}

\* Mutant: the query's order is kept, the proofs are not sorted by length.
FirstProof(proofs, rule, host) ==
    {p \in CoveringProofs(proofs, rule, host) :
        \A q \in CoveringProofs(proofs, rule, host) :
            StatusRank(p.status) <= StatusRank(q.status)}

\* mostSpecificDomainProof: the longest covering domain; among proofs of one
\* domain the query's order decides.
MostSpecificDomainProof(proofs, rule, host) ==
    {p \in CoveringProofs(proofs, rule, host) :
        \A q \in CoveringProofs(proofs, rule, host) :
            \/ Len(p.domain) > Len(q.domain)
            \/ Len(p.domain) = Len(q.domain) /\ StatusRank(p.status) <= StatusRank(q.status)}

\* effectiveDomainControlStatus
EffectiveDomainControlStatus(proof, observed) ==
    IF proof.status = "verified" /\ proof.expires # 0 /\ proof.expires <= observed
      THEN "expired" ELSE proof.status

\* evaluateDomainProofBoundary for an active issuer, then evaluateHostPublication:
\* the binding is supported when the deciding proof is verified at that time.
EvaluateHostPublication(rules, proofs, host, observed) ==
    \E rule \in MatchingDestinationRule(rules, host) :
        \E p \in MostSpecificDomainProof(proofs, rule, host) :
            EffectiveDomainControlStatus(p, observed) = "verified"

\* destinationHostCandidates: the expected final URL's host and the allowed hosts.
DestinationHostCandidates(rule) == {rule.expected} \union rule.hosts

\* evaluateRulePublication; the URL of a host that is no DNS name is not evaluated.
EvaluateRulePublication(rules, proofs, rule, observed) ==
    \A host \in DestinationHostCandidates(rule) :
        IsDnsHostname(host) /\ EvaluateHostPublication(rules, proofs, host, observed)

\* evaluateDestinationPolicyPublicationGate, behind the issuer's enrollment.
EvaluatePublicationGate(issuerActive, rules, proofs, observed) ==
    /\ issuerActive
    /\ rules # <<>>
    /\ \A n \in DOMAIN rules : EvaluateRulePublication(rules, proofs, rules[n], observed)
=============================================================================
