-------------------------- MODULE VerifierCacheStores --------------------------
(***************************************************************************)
(* The two writers behind the VerifierCache port, fed the same artifacts.  *)
(* makeInMemoryVerifierCache keeps issuers, policies and the authority     *)
(* context in maps of their own; makePostgresVerifierCacheWriter merges    *)
(* them into one row of verifier_cache_entries per destination policy and  *)
(* reads the context of a new row from published_artifacts. The Postgres   *)
(* reader decodes the rows and answers through an in-memory cache again.   *)
(* VerifierSync follows one row through faults; here several issuers,      *)
(* policies, authorities and roots share the store.                        *)
(***************************************************************************)
EXTENDS Naturals

CONSTANTS
    Keys,           \* DestinationPolicyKey: [root, authority, issuer, policy]
    Hosts,          \* host names that are looked up
    IssuerRecords,  \* what an issuer record projects: [tier, until]
    PolicyRecords,  \* what a destination policy projects: [hosts, until]
    Tiers,          \* tiers of assurance status events
    ReaderRoots,  \* root programs the verifier accepts
    None,
    MaxOps          \* bound: artifacts applied in one behaviour

NamespaceOf(k) == [root |-> k.root, authority |-> k.authority, issuer |-> k.issuer]
AuthorityOf(k) == [root |-> k.root, authority |-> k.authority]

Namespaces == {NamespaceOf(k) : k \in Keys}
Authorities == {AuthorityOf(k) : k \in Keys}
Roots == {k.root : k \in Keys}
AuthorityIds == {k.authority : k \in Keys}
IssuerIds == {k.issuer : k \in Keys}

\* What resolution reads of a projection: the hosts are those of all approved
\* destinations, until is cache_expires_at.
IssuerProjection == [tier : Tiers, until : Nat]
DestinationPolicyProjection == [hosts : SUBSET Hosts \ {{}}, until : Nat]

ASSUME RecordsAssumption ==
    /\ IssuerRecords \subseteq IssuerProjection
    /\ PolicyRecords \subseteq DestinationPolicyProjection
    /\ ReaderRoots \subseteq Roots /\ MaxOps \in Nat
    /\ None \notin IssuerProjection \union DestinationPolicyProjection

VARIABLES
    rootManifest,       \* published: the authorities a root lists as active
    authorityManifest,  \* published: the issuers an authority lists as active
    rootDue,            \* roots whose latest manifest is not synced yet
    authorityDue,       \* authorities whose latest manifest is not synced yet
    issuers,            \* in memory: issuersByPolicyKey
    policies,           \* in memory: policiesByKey
    policyOrder,        \* in memory: <<j, k>> when the Map iterates j before k
    activeAuthorities,  \* in memory: activeDelegatedAuthoritiesByRoot
    activeIssuers,      \* in memory: activeIssuersByAuthority
    rows,               \* Postgres: verifier_cache_entries
    rowOrder,           \* Postgres: <<j, k>> when j has the earlier created_at
    owed,               \* history: manifests a revoked authority must renew
    ops

published == <<rootManifest, authorityManifest, rootDue, authorityDue>>
policyMap == <<policies, policyOrder>>
memory == <<issuers, policies, policyOrder, activeAuthorities, activeIssuers>>
entries == <<rows, rowOrder>>
storesVars == <<rootManifest, authorityManifest, rootDue, authorityDue, issuers, policies,
          policyOrder, activeAuthorities, activeIssuers, rows, rowOrder, owed, ops>>

\* The first manifests are published and synced, no issuer is enrolled yet.
StoresInit ==
    /\ rootManifest = [r \in Roots |-> {a.authority : a \in {b \in Authorities : b.root = r}}]
    /\ authorityManifest =
           [a \in Authorities |-> {k.issuer : k \in {j \in Keys : AuthorityOf(j) = a}}]
    /\ rootDue = {} /\ authorityDue = {}
    /\ issuers = [k \in Keys |-> None]
    /\ policies = [k \in Keys |-> None] /\ policyOrder = {}
    /\ activeAuthorities = rootManifest /\ activeIssuers = Namespaces
    /\ rows = [k \in Keys |-> None] /\ rowOrder = {} /\ owed = {} /\ ops = 0

-----------------------------------------------------------------------------
\* A new key comes last, an existing one keeps its place.
Inserted(order, map, k) ==
    IF map[k] # None THEN order ELSE order \union {<<j, k>> : j \in {i \in Keys : map[i] # None}}

Removed(order, gone) == {pair \in order : pair[1] \notin gone /\ pair[2] \notin gone}

\* hasAuthorityContext, as the set of namespaces that have it.
MemoryContext ==
    {n \in Namespaces : n.authority \in activeAuthorities[n.root] /\ n \in activeIssuers}

\* durableAuthorityContextSql. It overrides what the writer remembers itself.
RootAuthorizes(k) == k.authority \in rootManifest[k.root]
AuthorityAuthorizes(k) == k.issuer \in authorityManifest[AuthorityOf(k)]

\* minIsoDate of two expiries.
FirstDate(d, e) == IF d < e THEN d ELSE e

\* The row a write finds, or one with a placeholder issuer (None) and no destination.
RowOf(k, until) ==
    IF rows[k] # None THEN rows[k]
    ELSE [tier |-> None, hosts |-> {}, rootOk |-> FALSE, authorityOk |-> FALSE, until |-> until]

\* insert ... on conflict do update: a conflicting row is updated where it is, its
\* context is that of the moment and it expires with the earlier of the two.
UpsertRow(k, tier, hosts, until) ==
    /\ rows' = [rows EXCEPT ![k] =
                   [tier |-> tier, hosts |-> hosts, rootOk |-> RootAuthorizes(k),
                    authorityOk |-> AuthorityAuthorizes(k),
                    until |-> FirstDate(until, RowOf(k, until).until)]]
    /\ rowOrder' = Inserted(rowOrder, rows, k)

\* delete ... returning 1
DeleteRows(gone) ==
    /\ rows' = [k \in Keys |-> IF k \in gone THEN None ELSE rows[k]]
    /\ rowOrder' = Removed(rowOrder, gone)

\* The same of the in-memory policies.
DeletePolicies(gone) ==
    /\ policies' = [k \in Keys |-> IF k \in gone THEN None ELSE policies[k]]
    /\ policyOrder' = Removed(policyOrder, gone)

Counted == ops < MaxOps /\ ops' = ops + 1

-----------------------------------------------------------------------------
\* upsertIssuer
UpsertIssuer(k, rec) ==
    /\ Counted
    /\ issuers' = [issuers EXCEPT ![k] = rec]
    /\ UpsertRow(k, rec.tier, RowOf(k, rec.until).hosts, rec.until)
    /\ UNCHANGED <<published, policyMap, activeAuthorities, activeIssuers, owed>>

\* upsertDestinationPolicy
UpsertDestinationPolicy(k, rec) ==
    /\ Counted
    /\ policies' = [policies EXCEPT ![k] = rec]
    /\ policyOrder' = Inserted(policyOrder, policies, k)
    /\ UpsertRow(k, RowOf(k, rec.until).tier, rec.hosts, rec.until)
    /\ UNCHANGED <<published, issuers, activeAuthorities, activeIssuers, owed>>

\* A root or an authority publishes a new manifest.
PublishRootManifest(r, ids) ==
    /\ Counted
    /\ rootManifest' = [rootManifest EXCEPT ![r] = ids] /\ rootDue' = rootDue \union {r}
    /\ UNCHANGED <<authorityManifest, authorityDue, memory, entries, owed>>

PublishAuthorityManifest(a, ids) ==
    /\ Counted
    /\ authorityManifest' = [authorityManifest EXCEPT ![a] = ids]
    /\ authorityDue' = authorityDue \union {a}
    /\ UNCHANGED <<rootManifest, rootDue, memory, entries, owed>>

\* upsertRootAuthorityContext: replaceRootAuthorityContextSync and an update of
\* every row of the root. A manifest is also synced again when it is replayed.
UpsertRootAuthorityContext(r) ==
    /\ Counted
    /\ activeAuthorities' = [activeAuthorities EXCEPT ![r] = rootManifest[r]]
    /\ rows' = [k \in Keys |->
                   IF k.root = r /\ rows[k] # None
                   THEN [rows[k] EXCEPT !.rootOk = RootAuthorizes(k)] ELSE rows[k]]
    /\ rootDue' = rootDue \ {r}
    /\ owed' = {d \in owed : d.manifest # "root" \/ d.authority.root # r}
    /\ UNCHANGED <<rootManifest, authorityManifest, authorityDue, issuers, policyMap,
                   activeIssuers, rowOrder>>

\* replaceDelegatedAuthorityIssuerContextSync
ReplaceIssuerContext(a) ==
    {n \in activeIssuers : AuthorityOf(n) # a}
        \union {n \in Namespaces : AuthorityOf(n) = a /\ n.issuer \in authorityManifest[a]}

\* upsertDelegatedAuthorityIssuerContext
UpsertDelegatedAuthorityIssuerContext(a) ==
    /\ Counted
    /\ activeIssuers' = ReplaceIssuerContext(a)
    /\ rows' = [k \in Keys |->
                   IF AuthorityOf(k) = a /\ rows[k] # None
                   THEN [rows[k] EXCEPT !.authorityOk = AuthorityAuthorizes(k)] ELSE rows[k]]
    /\ authorityDue' = authorityDue \ {a}
    /\ owed' = owed \ {[manifest |-> "authority", authority |-> a]}
    /\ UNCHANGED <<rootManifest, authorityManifest, rootDue, issuers, policyMap,
                   activeAuthorities, rowOrder>>

\* Mutant: the loop over the in-memory issuers stops at the first one.
RetierFirst(n, tier) ==
    LET hit == {k \in Keys : NamespaceOf(k) = n /\ issuers[k] # None}
    IN  IF hit = {} THEN issuers
        ELSE [issuers EXCEPT ![CHOOSE k \in hit : TRUE].tier = tier]

\* updateIssuerAssuranceTier, in memory: every policy of the issuer.
Retier(n, tier) ==
    [k \in Keys |-> IF NamespaceOf(k) = n /\ issuers[k] # None
                    THEN [issuers[k] EXCEPT !.tier = tier] ELSE issuers[k]]

\* updateIssuerAssuranceTier; the Postgres command skips placeholders.
UpdateIssuerAssuranceTier(n, tier) ==
    /\ Counted
    /\ issuers' = Retier(n, tier)
    /\ rows' = [k \in Keys |->
                   IF NamespaceOf(k) = n /\ rows[k] # None /\ rows[k].tier # None
                   THEN [rows[k] EXCEPT !.tier = tier] ELSE rows[k]]
    /\ UNCHANGED <<published, policyMap, activeAuthorities, activeIssuers, rowOrder, owed>>

\* deleteVerifierCacheIssuerCommand
DeleteIssuerRows(n) == DeleteRows({k \in Keys : NamespaceOf(k) = n})

\* The status event of an issuer: removeIssuer, then
\* removeDestinationPoliciesForIssuer. In Postgres both are the same delete.
RemoveIssuer(n) ==
    /\ Counted
    /\ issuers' = [k \in Keys |-> IF NamespaceOf(k) = n THEN None ELSE issuers[k]]
    /\ DeletePolicies({k \in Keys : NamespaceOf(k) = n})
    /\ DeleteIssuerRows(n)
    /\ UNCHANGED <<published, activeAuthorities, activeIssuers, owed>>

\* removeDestinationPolicy: the in-memory issuer stays, the row goes with both.
RemoveDestinationPolicy(k) ==
    /\ Counted
    /\ DeletePolicies({k}) /\ DeleteRows({k})
    /\ UNCHANGED <<published, issuers, activeAuthorities, activeIssuers, owed>>

\* Mutant: the authority's issuers keep their context.
KeepIssuerContext(a) == activeIssuers

\* removeDelegatedAuthority deletes every key that starts with root and authority.
DropIssuerContext(a) == {n \in activeIssuers : AuthorityOf(n) # a}

\* removeDelegatedAuthority
RemoveDelegatedAuthority(a) ==
    /\ Counted
    /\ issuers' = [k \in Keys |-> IF AuthorityOf(k) = a THEN None ELSE issuers[k]]
    /\ DeletePolicies({k \in Keys : AuthorityOf(k) = a})
    /\ activeAuthorities' = [activeAuthorities EXCEPT ![a.root] = @ \ {a.authority}]
    /\ activeIssuers' = DropIssuerContext(a)
    /\ DeleteRows({k \in Keys : AuthorityOf(k) = a})
    /\ owed' = owed \union {[manifest |-> m, authority |-> a] : m \in {"root", "authority"}}
    /\ UNCHANGED published

StoresNext ==
    \/ \E k \in Keys :
          \/ \E rec \in IssuerRecords : UpsertIssuer(k, rec)
          \/ \E rec \in PolicyRecords : UpsertDestinationPolicy(k, rec)
          \/ RemoveDestinationPolicy(k)
    \/ \E r \in Roots :
          \/ \E ids \in SUBSET AuthorityIds : PublishRootManifest(r, ids)
          \/ UpsertRootAuthorityContext(r)
    \/ \E a \in Authorities :
          \/ \E ids \in SUBSET IssuerIds : PublishAuthorityManifest(a, ids)
          \/ UpsertDelegatedAuthorityIssuerContext(a)
          \/ RemoveDelegatedAuthority(a)
    \/ \E n \in Namespaces :
          \/ RemoveIssuer(n)
          \/ \E tier \in Tiers : UpdateIssuerAssuranceTier(n, tier)

StoresSpec == StoresInit /\ [][StoresNext]_storesVars

-----------------------------------------------------------------------------
\* materializeIssuer
MaterializeIssuer(k, i, p) ==
    [key |-> k, tier |-> i.tier, until |-> FirstDate(i.until, p.until)]

\* What findPolicyMatch asks of a policy before it looks for the issuer.
Eligible(k, p, context, h) ==
    p # None /\ k.root \in ReaderRoots /\ NamespaceOf(k) \in context /\ h \in p.hosts

\* findPolicyMatch: the first eligible policy decides, also when its issuer is
\* missing. first holds its key, or nothing.
FirstPolicyMatch(ps, order, known, context, h) ==
    LET match == {k \in Keys : Eligible(k, ps[k], context, h)}
        first == {k \in match : \A j \in match \ {k} : <<k, j>> \in order}
        answer == {MaterializeIssuer(k, known[k], ps[k]) : k \in {j \in first : known[j] # None}}
    IN  IF answer = {} THEN None ELSE CHOOSE found \in answer : TRUE

\* resolveByHost of the in-memory cache.
MemoryResolve(h) == FirstPolicyMatch(policies, policyOrder, issuers, MemoryContext, h)

\* decodeVerifierCacheEntryRow: authority context and a real issuer.
RowDecodes(r) == r # None /\ r.rootOk /\ r.authorityOk /\ r.tier # None

\* order by cache_expires_at desc, created_at desc
Selected ==
    {pair \in Keys \X Keys :
        /\ rows[pair[1]] # None /\ rows[pair[2]] # None
        /\ \/ rows[pair[1]].until > rows[pair[2]].until
           \/ rows[pair[1]].until = rows[pair[2]].until /\ <<pair[2], pair[1]>> \in rowOrder}

\* loadCache: the decoded rows seed an in-memory cache, issuers and policies of it
\* and their context.
Loaded == [k \in Keys |-> IF RowDecodes(rows[k]) THEN rows[k] ELSE None]
SeededContext == {NamespaceOf(k) : k \in {j \in Keys : Loaded[j] # None}}

\* resolveByHost of the Postgres cache.
PostgresResolve(h) == FirstPolicyMatch(Loaded, Selected, Loaded, SeededContext, h)

-----------------------------------------------------------------------------
StoresTypeOK ==
    /\ rootManifest \in [Roots -> SUBSET AuthorityIds]
    /\ authorityManifest \in [Authorities -> SUBSET IssuerIds]
    /\ rootDue \subseteq Roots /\ authorityDue \subseteq Authorities
    /\ issuers \in [Keys -> IssuerProjection \union {None}]
    /\ policies \in [Keys -> DestinationPolicyProjection \union {None}]
    /\ policyOrder \subseteq Keys \X Keys /\ rowOrder \subseteq Keys \X Keys
    /\ rows \in [Keys -> [tier : Tiers \union {None}, hosts : SUBSET Hosts, rootOk : BOOLEAN,
                           authorityOk : BOOLEAN, until : Nat] \union {None}]
    /\ activeAuthorities \in [Roots -> SUBSET AuthorityIds]
    /\ activeIssuers \subseteq Namespaces
    /\ ops \in 0 .. MaxOps

\* The policies in memory that would answer for h if they came first.
MemoryCandidates(h) ==
    {MaterializeIssuer(k, issuers[k], policies[k]) :
        k \in {j \in Keys : Eligible(j, policies[j], MemoryContext, h) /\ issuers[j] # None}}

\* What memory holds for h, whether its context lets it answer or not.
HeldInMemory(h) ==
    {MaterializeIssuer(k, issuers[k], policies[k]) :
        k \in {j \in Keys : policies[j] # None /\ h \in policies[j].hosts /\ issuers[j] # None}}

\* A manifest above the namespace waits to be synced, or its authority was revoked
\* and has not renewed both manifests since.
Unsettled(n) ==
    \/ n.root \in rootDue \/ AuthorityOf(n) \in authorityDue
    \/ \E d \in owed : d.authority = AuthorityOf(n)

\* What the Postgres cache answers for a host, the in-memory cache fed the same
\* artifacts holds as well, with the same assurance tier and an expiry that is not
\* earlier: merging issuer and policy into one row and deleting whole rows never
\* make an answer of their own. The context is another matter: a row takes it from
\* the stored manifests. Postgres authorizes an issuer that memory does not only
\* while a manifest above it waits to be synced or its authority, revoked, owes one.
PostgresWithinMemory ==
    \A h \in Hosts :
        LET found == PostgresResolve(h)
        IN  found # None =>
                /\ \E m \in HeldInMemory(h) :
                      m.key = found.key /\ m.tier = found.tier /\ found.until <= m.until
                /\ NamespaceOf(found.key) \in MemoryContext \/ Unsettled(NamespaceOf(found.key))

\* A revoked delegated authority answers from memory for none of its issuers,
\* whatever is upserted for them, until its root's manifest and its own have
\* been synced again.
RevokedAuthorityStaysOut ==
    \A h \in Hosts : MemoryResolve(h) # None =>
        \A d \in owed : d.authority # AuthorityOf(MemoryResolve(h).key)

\* The same of the Postgres cache: not kept, the manifests that are still
\* published authorize a row written after the revocation.
RevokedAuthorityStaysOutOfPostgres ==
    \A h \in Hosts : PostgresResolve(h) # None =>
        \A d \in owed : d.authority # AuthorityOf(PostgresResolve(h).key)

\* The converse of PostgresWithinMemory: not kept, a policy that is removed and
\* published again finds its issuer in memory and a placeholder in Postgres.
MemoryWithinPostgres ==
    \A h \in Hosts :
        LET found == MemoryResolve(h)
        IN  found # None /\ ~Unsettled(NamespaceOf(found.key)) => PostgresResolve(h) # None

\* NoRowIsHidden of the in-memory cache: not kept, a policy that is synced
\* before its issuer hides a later policy for the same host.
MemoryHidesNothing ==
    \A h \in Hosts : MemoryCandidates(h) # {} => MemoryResolve(h) # None
=============================================================================
