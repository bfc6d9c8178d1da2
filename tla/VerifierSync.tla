---------------------------- MODULE VerifierSync ----------------------------
(***************************************************************************)
(* From a published artifact to the verifier's cache row. A publisher puts *)
(* a signed artifact into published_artifacts and then announces it; the   *)
(* outbox relay copies the announcement to the governance stream; the      *)
(* governance subscriber, one durable JetStream consumer, fetches the      *)
(* artifact an announcement names, checks it and folds it into the row of  *)
(* verifier_cache_entries, then acknowledges. The subscriber may fail or   *)
(* be killed anywhere, messages are redelivered, dropped after max_deliver *)
(* and, when the consumer is recreated, all replayed.                      *)
(*                                                                         *)
(* One issuer with one destination policy is followed, so the cache has    *)
(* one row. A projection in the row is the stream position of the message  *)
(* that wrote it, 0 for the placeholder that fills its place.              *)
(***************************************************************************)
EXTENDS Naturals, Sequences, FiniteSets

CONSTANTS
    Publications,   \* what is published during the run
    Genesis,        \* manifests published, announced and consumed at the start
    NoRow,          \* the cache has no row for the issuer
    NoArtifact,     \* published_artifacts has no row with the id
    Filters,        \* sets of kinds the subscriber may be authorized for
    MaxPublished,   \* bound: publications made in one behaviour
    MaxDeliver,     \* max_deliver of the consumer (5 in the code)
    MaxFaults       \* bound: failures, duplicates and replays

Kinds == {"root", "authority", "issuer", "policy", "revocation", "assurance"}

\* active: the body lists its subject as active. until: publication.valid_until,
\* of a policy without one occurred_at of its announcement.
\* defect: why the body or its announcement does not pass the checks. Two defects
\* only a policy has: a "partial" body leaves fields out that the projection takes
\* from the announcement, an "invalid" one has values the projection refuses.
PublicationRecord ==
    [kind : Kinds, seq : Nat, active : BOOLEAN, until : Nat,
     defect : {"none", "undecodable", "missing", "unsigned", "out_of_scope", "malformed",
               "partial", "invalid"}]

ASSUME PublicationsAssumption ==
    /\ Publications \subseteq PublicationRecord
    /\ \A p \in Publications : p.defect \in {"partial", "invalid"} => p.kind = "policy"
ASSUME GenesisAssumption ==
    /\ Genesis \in Seq(Publications)
    /\ \A i, j \in DOMAIN Genesis :
          /\ Genesis[i].kind \in {"root", "authority"} /\ Genesis[i].defect = "none"
          /\ Genesis[i].kind = Genesis[j].kind => i = j
ASSUME FiltersAssumption == Filters \subseteq SUBSET Kinds
ASSUME NoneAssumption == NoArtifact \notin Publications
ASSUME BoundsAssumption ==
    MaxPublished \in Nat /\ MaxDeliver \in Nat \ {0} /\ MaxFaults \in Nat

VARIABLES
    store,      \* published_artifacts, one publication per artifact id
    published,  \* history: publications made
    unannounced,\* stored, the event not yet enqueued
    outbox,     \* announcements enqueued for the relay
    stream,     \* QRTRUST_GOVERNANCE
    filter,     \* the consumer's filter subjects
    cursor,     \* the consumer's next message
    deliveries, \* how often it was delivered
    skipped,    \* messages given up after max_deliver in this pass
    pc,         \* the subscriber: idle, fetched, synced
    held,       \* the artifact it fetched
    accepted,   \* natsGovernanceSyncReportAcceptance
    row,        \* the row of verifier_cache_entries
    faults

pubVars == <<store, published, unannounced, outbox>>
consumerVars == <<stream, filter, cursor, deliveries, skipped>>
subVars == <<pc, held, accepted>>
vars == <<store, published, unannounced, outbox, stream, filter, cursor,
          deliveries, skipped, pc, held, accepted, row, faults>>

\* The worker refuses to start without governance subjects it may filter on.
KindsAccepted(f) == f # {} /\ f \subseteq Kinds

Init ==
    /\ store = {Genesis[i] : i \in DOMAIN Genesis} /\ published = store
    /\ unannounced = {} /\ outbox = {}
    /\ filter \in Filters /\ KindsAccepted(filter)
    /\ stream = Genesis /\ cursor = Len(Genesis) + 1 /\ deliveries = 0 /\ skipped = {}
    /\ pc = "idle" /\ held = NoArtifact /\ accepted = FALSE
    /\ row = NoRow
    /\ faults = 0

-----------------------------------------------------------------------------
\* Manifests and issuer records are rewritten in place under a fixed "_v1" id,
\* policies and status events have an id of their own.
ArtifactId(p) ==
    IF p.kind \in {"root", "authority", "issuer"} THEN <<p.kind>> ELSE <<p.kind, p.seq>>

\* The store's row with the artifact id that p's announcement names.
Get(p) ==
    LET found == {q \in store : ArtifactId(q) = ArtifactId(p)}
    IN  IF found = {} THEN NoArtifact ELSE CHOOSE q \in found : TRUE

\* publishArtifact, first half: the artifact is stored under its id.
PutArtifact(p) ==
    /\ p \notin published /\ Cardinality(published) < Len(Genesis) + MaxPublished
    /\ \A q \in published : ArtifactId(q) = ArtifactId(p) => q.seq < p.seq
    /\ published' = published \union {p}
    /\ unannounced' = unannounced \union {p}
    /\ store' = IF p.defect = "missing" THEN store
                ELSE {q \in store : ArtifactId(q) # ArtifactId(p)} \union {p}
    /\ UNCHANGED <<outbox, consumerVars, subVars, row, faults>>

\* publishArtifact, second half: the event is enqueued in the outbox.
EnqueueEvent(p) ==
    /\ p \in unannounced
    /\ unannounced' = unannounced \ {p}
    /\ outbox' = outbox \union {p}
    /\ UNCHANGED <<store, published, consumerVars, subVars, row, faults>>

\* The relay publishes an enqueued event, in any order (a failed one waits for
\* its retry), and publishes it again when the first acknowledgement was lost.
Relay(p) ==
    /\ p \in outbox
    /\ stream' = Append(stream, p)
    /\ \/ outbox' = outbox \ {p} /\ faults' = faults
       \/ outbox' = outbox /\ faults < MaxFaults /\ faults' = faults + 1
    /\ UNCHANGED <<store, published, unannounced, filter, cursor, deliveries, skipped,
                   subVars, row>>

-----------------------------------------------------------------------------
\* decodeNatsGovernancePayload: the envelope satisfies the event contract.
DecodeGovernancePayload(p) == p.defect # "undecodable"

\* syncRecent reports a missing artifact, or one that is not what was announced.
HashMatches(p, a) == a # NoArtifact /\ a = p

\* The body validators, one per kind of artifact.
IsManifestBody(a) == a.kind \in {"root", "authority"} /\ a.defect # "malformed"
IsIssuerRecordBody(a) == a.kind = "issuer" /\ a.defect # "malformed"
IsDestinationPolicyBody(a) == a.kind = "policy" /\ a.defect \notin {"malformed", "partial"}
IsStatusEventBody(a) == a.kind \in {"revocation", "assurance"} /\ a.defect # "malformed"

\* One of them knows the artifact.
RecognizedTrustArtifact(a) ==
    \/ IsManifestBody(a)
    \/ IsIssuerRecordBody(a)
    \/ IsDestinationPolicyBody(a)
    \/ IsStatusEventBody(a)

\* verifyTrustArtifact accepts the signature.
VerifyTrustArtifact(a) == a.defect # "unsigned"

\* The ids the signature covers are the ids the projection is written under.
TrustArtifactScopeMatchesBody(a) == a.defect # "out_of_scope"

\* syncRecent goes on to the writes: only a recognized artifact has its
\* signature and its scope checked, any other goes on unchecked.
Passes(p, a) ==
    /\ HashMatches(p, a)
    /\ RecognizedTrustArtifact(a) => VerifyTrustArtifact(a) /\ TrustArtifactScopeMatchesBody(a)

\* What syncRecent counts in validated_trust_artifacts.
Validated(p, a) == Passes(p, a) /\ RecognizedTrustArtifact(a)

\* durableAuthorityContextSql: a published manifest of the kind lists its
\* subject as active at the moment of the write.
DurableContext(kind) == \E q \in store : q.kind = kind /\ q.active

\* Mutant: a renewed publication extends the row.
LatestExpiry(r, until) == until

\* cache_expires_at = least(existing, excluded)
RowExpiry(r, until) == IF r = NoRow \/ until < r.exp THEN until ELSE r.exp

\* upsertVerifierCacheDestinationPolicyCommand: the issuer of an existing row is
\* kept, a new row gets a placeholder.
UpsertDestinationPolicy(r, at, until) ==
    [issuer |-> IF r = NoRow THEN 0 ELSE r.issuer, policy |-> at,
     tier |-> IF r = NoRow THEN 0 ELSE r.tier,
     rootOk |-> DurableContext("root"), authorityOk |-> DurableContext("authority"),
     exp |-> RowExpiry(r, until)]

\* upsertVerifierCacheIssuerCommand: the policy of an existing row is kept, a
\* new row gets an empty one.
UpsertIssuer(r, at, until) ==
    [issuer |-> at, policy |-> IF r = NoRow THEN 0 ELSE r.policy, tier |-> at,
     rootOk |-> DurableContext("root"), authorityOk |-> DurableContext("authority"),
     exp |-> RowExpiry(r, until)]

\* issuerProjectionFromArtifact: issuer, certificate and one of the policies
\* are active. A suspended record projects nothing and leaves the row alone.
ProjectsIssuer(a) == IsIssuerRecordBody(a) /\ a.active

\* destinationPolicyProjectionFromArtifact looks at artifact_type and not at the
\* body validator: what the body leaves out is filled in from the announcement.
ProjectsPolicy(a) == a.kind = "policy" /\ a.defect \notin {"malformed", "invalid"}

\* The ids a manifest lists as active contain the one the row is about.
ListsAsActive(a) == IsManifestBody(a) /\ a.active

\* The delete commands: all of them hit the one row.
RemoveIssuer(r) == NoRow

\* Mutant: a root manifest can only add its authorization.
UpsertRootContextOnlyGrants(r, a) ==
    IF r = NoRow \/ ~a.active THEN r ELSE [r EXCEPT !.rootOk = TRUE]

\* A manifest rewrites its own half of the existing rows' authority_context.
UpsertRootAuthorityContext(r, a) ==
    IF r = NoRow THEN r ELSE [r EXCEPT !.rootOk = ListsAsActive(a)]

UpsertDelegatedAuthorityIssuerContext(r, a) ==
    IF r = NoRow THEN r ELSE [r EXCEPT !.authorityOk = ListsAsActive(a)]

\* updateVerifierCacheIssuerAssuranceTierCommand skips placeholders.
UpdateIssuerAssuranceTier(r, at) ==
    IF r = NoRow \/ r.issuer = 0 THEN r ELSE [r EXCEPT !.tier = at]

\* Mutant: the revocation only drops the destination policy.
ApplyStatusEventToPolicy(r, a) ==
    IF a.active \/ r = NoRow THEN r ELSE [r EXCEPT !.policy = 0]

\* applyStatusEvent for an issuer target: the row goes, unless the status event
\* says active.
ApplyStatusEvent(r, a) == IF a.active THEN r ELSE RemoveIssuer(r)

\* The cache write of artifact a that message number at announced: each kind has
\* its own condition on the body, an artifact that meets none writes nothing.
SyncedRow(a, at) ==
    CASE a.kind = "root" /\ IsManifestBody(a) -> UpsertRootAuthorityContext(row, a)
      [] a.kind = "authority" /\ IsManifestBody(a) -> UpsertDelegatedAuthorityIssuerContext(row, a)
      [] ProjectsIssuer(a) -> UpsertIssuer(row, at, a.until)
      [] ProjectsPolicy(a) -> UpsertDestinationPolicy(row, at, a.until)
      [] a.kind = "assurance" /\ IsStatusEventBody(a) -> UpdateIssuerAssuranceTier(row, at)
      [] a.kind = "revocation" /\ IsStatusEventBody(a) -> ApplyStatusEvent(row, a)
      [] OTHER -> row

\* What syncRecent counts as projected or applied.
Materialized(a) ==
    CASE a.kind = "issuer"     -> ProjectsIssuer(a)
      [] a.kind = "policy"     -> ProjectsPolicy(a)
      [] a.kind = "assurance"  -> row # NoRow /\ row.issuer # 0
      [] a.kind = "revocation" -> ~a.active /\ row # NoRow
      [] OTHER                 -> FALSE

\* natsGovernanceSyncReportAcceptance: manifests need a valid signature, the
\* other events a change of the cache as well.
SyncReportAcceptance(p, a) ==
    /\ Validated(p, a)
    /\ p.kind \in {"root", "authority"} \/ Materialized(a)

-----------------------------------------------------------------------------
\* natsSubscriberMaterializationSubjectsForStream: the message's subject is one
\* of the consumer's.
Subscribed(i) == stream[i].kind \in filter

\* The consumer has a message to hand out: max_ack_pending is 1, so it is the
\* first one not settled.
Deliverable ==
    /\ pc = "idle" /\ cursor <= Len(stream)
    /\ Subscribed(cursor) /\ deliveries < MaxDeliver

\* JetStream passes over a message whose subject the filter does not match.
PassOver ==
    /\ pc = "idle" /\ cursor <= Len(stream) /\ ~Subscribed(cursor)
    /\ cursor' = cursor + 1
    /\ UNCHANGED <<pubVars, stream, filter, deliveries, skipped, subVars, row, faults>>

\* The consumer moves past its message.
Settled ==
    /\ cursor' = cursor + 1
    /\ deliveries' = 0
    /\ pc' = "idle" /\ held' = NoArtifact /\ accepted' = FALSE

\* A malformed payload is terminated without touching the cache.
Terminate ==
    /\ Deliverable
    /\ ~DecodeGovernancePayload(stream[cursor])
    /\ Settled
    /\ UNCHANGED <<pubVars, stream, filter, skipped, row, faults>>

\* consumer.next, decode, store.get.
Fetch ==
    /\ Deliverable
    /\ DecodeGovernancePayload(stream[cursor])
    /\ deliveries' = deliveries + 1
    /\ held' = Get(stream[cursor])
    /\ pc' = "fetched"
    /\ UNCHANGED <<pubVars, stream, filter, cursor, skipped, accepted, row, faults>>

\* syncRecent: check the fetched artifact against its announcement, write. The
\* write comes before the verdict: a policy the validator does not recognize is
\* written and its message then terminated as rejected.
SyncRecent ==
    /\ pc = "fetched"
    /\ accepted' = SyncReportAcceptance(stream[cursor], held)
    /\ row' = IF Passes(stream[cursor], held) THEN SyncedRow(held, cursor) ELSE row
    /\ pc' = "synced"
    /\ UNCHANGED <<pubVars, consumerVars, held, faults>>

\* ack for an accepted report, term for a rejected one.
AckOrTerm ==
    /\ pc = "synced"
    /\ Settled
    /\ UNCHANGED <<pubVars, stream, filter, skipped, row, faults>>

\* The sync throws and the message is naked; the worker is killed; the ack is
\* lost and ack_wait passes. The message comes again.
Interrupt ==
    /\ pc # "idle"
    /\ faults < MaxFaults /\ faults' = faults + 1
    /\ pc' = "idle" /\ held' = NoArtifact /\ accepted' = FALSE
    /\ UNCHANGED <<pubVars, consumerVars, row>>

\* Mutant: a consumer whose last delivery is never written off.
GiveUpNever ==
    /\ pc = "idle" /\ deliveries > MaxDeliver
    /\ skipped' = skipped \union {cursor}
    /\ cursor' = cursor + 1 /\ deliveries' = 0
    /\ UNCHANGED <<pubVars, stream, filter, subVars, row, faults>>

\* JetStream stops redelivering a message after max_deliver attempts.
GiveUp ==
    /\ pc = "idle" /\ deliveries = MaxDeliver
    /\ skipped' = skipped \union {cursor}
    /\ cursor' = cursor + 1 /\ deliveries' = 0
    /\ UNCHANGED <<pubVars, stream, filter, subVars, row, faults>>

\* The worker restarts, with the subjects it is authorized for now.
\* ensureDurableConsumer deletes a consumer whose configuration differs and adds
\* a missing one with DeliverPolicy.All.
RecreateConsumer(f) ==
    /\ pc = "idle" /\ cursor > 1
    /\ faults < MaxFaults /\ faults' = faults + 1
    /\ KindsAccepted(f) /\ filter' = f /\ cursor' = 1 /\ deliveries' = 0 /\ skipped' = {}
    /\ UNCHANGED <<pubVars, stream, subVars, row>>

Subscriber == PassOver \/ Terminate \/ Fetch \/ SyncRecent \/ AckOrTerm \/ GiveUp

Next ==
    \/ \E p \in Publications : PutArtifact(p) \/ EnqueueEvent(p) \/ Relay(p)
    \/ Subscriber
    \/ Interrupt
    \/ \E f \in Filters : RecreateConsumer(f)

Spec == Init /\ [][Next]_vars

\* The subscriber polls for ever; nothing is asked of the publishers.
FairSpec == Spec /\ WF_vars(Subscriber)

-----------------------------------------------------------------------------
Rows == [issuer : Nat, policy : Nat, tier : Nat,
         rootOk : BOOLEAN, authorityOk : BOOLEAN, exp : Nat]

TypeOK ==
    /\ store \subseteq published /\ published \subseteq Publications
    /\ unannounced \subseteq published /\ outbox \subseteq published
    /\ stream \in Seq(published)
    /\ filter \in Filters
    /\ cursor \in 1 .. Len(stream) + 1
    /\ deliveries \in 0 .. MaxDeliver
    /\ skipped \subseteq 1 .. cursor - 1
    /\ pc \in {"idle", "fetched", "synced"}
    /\ held \in Publications \union {NoArtifact}
    /\ accepted \in BOOLEAN
    /\ row = NoRow \/ row \in Rows
    /\ faults \in 0 .. MaxFaults

\* decodeVerifierCacheEntryRow: the reader sees the row's issuer.
Resolvable == row # NoRow /\ row.issuer # 0 /\ row.rootOk /\ row.authorityOk

\* Every announcement has been consumed and none was given up.
Drained ==
    /\ unannounced = {} /\ outbox = {}
    /\ pc = "idle" /\ cursor = Len(stream) + 1 /\ skipped = {}

Sound(p) == p.defect = "none"

\* Once the stream is drained, a row can only be resolved when the manifests in
\* published_artifacts authorize it: reordered announcements, replays of the
\* whole stream and manifests rewritten between fetch and write leave no
\* withdrawn authorization in the cache.
AuthorityConverges ==
    Drained /\ Resolvable =>
        \A kind \in {"root", "authority"} \intersect filter :
            \E q \in store : q.kind = kind /\ (Sound(q) => q.active)

\* An issuer in the cache was written after every revocation of it that the
\* consumer has settled in this pass: neither a redelivery nor a crash between
\* write and acknowledgement brings a revoked issuer back.
RevocationWins ==
    row # NoRow /\ row.issuer # 0 =>
        \A i \in (1 .. cursor - 1) \ skipped :
            i > row.issuer /\ Subscribed(i) =>
                ~(stream[i].kind = "revocation" /\ Sound(stream[i]) /\ ~stream[i].active)

\* The row never outlives what it was built from: it expires no later than the
\* issuer record and the policy whose projections it carries.
ExpiryCovered ==
    row # NoRow =>
        \A i \in {row.issuer, row.policy} \ {0} : row.exp <= stream[i].until

\* No message blocks the consumer: each one is acknowledged, terminated or given
\* up, through failures, crashes and replays.
EveryMessageSettles == []<>(pc = "idle" /\ cursor = Len(stream) + 1)

\* "Include artifact hash and version to prevent stale event replay from
\* overwriting newer verifier state" (docs/public/network-contracts/
\* nats-subjects.md): the policy in the row is never replaced by an older one.
NoStaleOverwrite ==
    [][row # NoRow /\ row' # NoRow /\ row.policy # 0 /\ row'.policy # 0 =>
          stream[row'.policy].seq >= stream[row.policy].seq]_vars

\* "consumers still fetch source artifacts from Postgres-backed stores and verify hash,
\* signature, scope, version, and freshness before writing verifier-cache state"
\* (docs/public/network-contracts/nats-subjects.md): the policy in the row was checked.
PolicyWasVerified == row # NoRow /\ row.policy # 0 => RecognizedTrustArtifact(stream[row.policy])
=============================================================================
