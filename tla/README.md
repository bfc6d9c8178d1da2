# Verification of the QR trust network

TLA+ models of the parts of this repository that decide whether a QR code is
trusted and that carry governance changes to the verifiers, with the TLC runs
that check them on small instances and TLAPS proofs for all instances.

## The system

Governance state (root programs, authorities, issuers, certificates, domain
proofs, policies) lives in Postgres, schema `qr_trust`. A backend (FastAPI)
changes it and answers scans; a network layer (TypeScript, Effect) publishes
what changed to NATS JetStream, applies it to verifier caches and decides
scans from them; a web client drives both.

    web client ──> management plane ──(one transaction)──> governance rows,
        │                                     trust_state token, audit, event_outbox
        │          governance rows ──> publication ──> published_artifacts, event_outbox
        │                                 └── domain proof gate, trust keys
        │          event_outbox ──> relay workers ──> JetStream
        │          JetStream ──> governance subscriber ──> verifier_cache_entries
        │                   └──> runtime subscriber ──> runtime_observations ──> report
        │          work items ──> read model workers ──> verifier_cache_entries
        ├─(scan)─> scanner decision ──> verifier_cache_entries, runtime providers
        └─(scan)─> backend verifier ──> rate limiter, trust projection, verdict cache
                                     └──> evidence rows, scan counters ──> spike monitor

| Component | State it keeps | Operations | Hard behaviour | Correct when |
|---|---|---|---|---|
| Governance mutation (`management_plane.py`) | rows, token, audit log, outbox, idempotency keys | `record_governance_mutation` | concurrent duplicates, aborts, lost replies, expired keys | a keyed mutation is applied once; every change is announced |
| Event outbox relay (`*-event-outbox-*.ts`), remediation (`management.py`) | row status, attempts, lease; batch of each worker | claim, publish, mark; idle stop, shutdown, restart; retry, quarantine | lease expiry during a pass, crash between publish and mark, lost acknowledgement | nothing is reported published that the broker does not hold; every event settles |
| Trust state, projection (`trust_state.py`, `trust_transitions.py`, `trust_projection.py`, `scanner_trust_store.py`) | token (epoch, version), issuer and key status; store, last success, lock | enroll, change status, bump; `ensure_fresh`, resolve, verify | scans interleave at awaits, database failures, token row lost | the token identifies the state, what is judged is recent enough, revocation is terminal |
| Rate limiter (`request_rate_limiter.py`) | a counter per window in Redis, a sliding window per process | count, expire, refuse, fall back | Redis failing between two calls, a window ending during a request | no window spends its budget twice; a refusal has a cause |
| Scan accounting (`scan_accounting.py`, `network_evidence_recorder.py`) | evidence rows, minute counters, events | record a scan, count a cached one, pass of the monitor | three reads of two stores while scans go on, failed writes | a flood is alerted; an alert has a burst |
| Verdict cache (`verdict_cache.py`, `verifier.py`) | Redis entries, per-process fallbacks | lookup, clamp, store | Redis failing for single calls, time truncated to seconds | no verdict outlives what it was computed from |
| Publication (`governance-publication.ts`, `artifact-publication*.ts`, `postgres-governance-publication-source.ts`) | artifacts, events, work items, leases | publish a bundle, claim, gate, put, announce, mark | two writes without a transaction, lapsing claims, publishers that overwrite each other | what is completed is announced; no policy passes against a revoked proof |
| Governance subscriber, verifier sync (`nats-governance-subscriber.ts`, `verifier-sync.ts`) | consumer position, cache row | deliver, fetch, check, apply, acknowledge, give up, recreate | redelivery, reordering, artifacts rewritten between announcement and fetch | the cache converges to what is authorized and never brings back a revoked issuer |
| Read model queue (`verifier-cache-read-model-*.ts`) | work items, claims, cache row | claim, authorize, materialize, mark | ten fetches that are ten queries, two workers on one item | a row is made of artifacts no older than its claim; items settle |
| Scanner decision (`scanner-decision*.ts`, `runtime-safety.ts`) | cache rows, decision rows, events | parse, read, match, inspect, record, answer | rows changing between read and answer, partial writes | green was authorized; what is answered was recorded |
| Runtime subscriber, report (`nats-runtime-subscriber.ts`, `postgres-runtime-safety-observation-report.ts`) | consumer, observation rows | start, receive, insert, ack, nak, term; report | insert without acknowledgement, changed allowlists | only authorized subjects are inserted, valid observations reach the report |
| Trust keys (`trust-key-registry.ts`, `signing-custody.ts`, `key-rotation-policy.ts`) | keys and status, signed events | look up, sign, verify, change status, rotate | status events late, twice, out of order; a second lookup | keys change only under their own signer; a rotation keeps the signer able to sign |
| Evidence and readiness (`production-evidence-*.ts`, `deployment-readiness*.ts`) | documents and reports on disk | derive, assert, bundle, hand off | inputs edited between two programs | a ready handoff speaks for production |
| Cache stores (`verifier-cache.ts`, `postgres-verifier-cache.ts`) | maps in memory, rows in Postgres | upsert, context, tier, removals; resolve | two layouts of the same trust, first match wins | the deployed store never trusts more than the one the tests use |
| Outbox health (`event-outbox-metrics.ts`) | last summary of each supervisor | snapshot after a pass | a query of its own beside the workers | what is stuck is reported |
| Scanner release (`verifier-profile-distribution.ts`, `*-evidence-artifacts-status.ts`, `deployed-scanner-readiness-report.ts`) | profile, packets, evidence files, reports | distribute, check status, report readiness | files rewritten between stat, read and report; copied rules | an active profile passes its controls; evidence speaks for its row |
| Migrations (`postgres-migrations-*.ts`, `postgres-reference-schema-apply.ts`) | tables, ledger | apply, record, verify | two appliers, lost commits, checkouts that differ | each migration runs once; no verdict accepts drift |
| Web client (`useLabController.ts`, `useOperatorController.ts`) | component state, local storage, camera, requests under way | generate, scan, decide, hold, open; workflows, keys | answers in any order, routes left while requests are under way | only allowed destinations open; nothing is reported that did not happen |

`PROJECT.json` lists every component with its sources and status, and under
`hazards` what is hard to test, at the line where it bites.

## Modules

| Module | What it is |
|---|---|
| `EventRelay` | what the outbox promises: record, deliver, report |
| `EventOutbox` | rows, leases, workers, supervisors, remediation |
| `ManagementPlane` | the governance transaction and its idempotency key |
| `TrustProjection` | trust state, token, projection manager, scans |
| `VerdictCache` | Redis, fallbacks and time to live of verdicts |
| `DomainProof` | which proof speaks for a host, the gate (operators) |
| `PublicationPipeline` | bundles and queue workers over artifacts and events; uses `DomainProof` |
| `VerifierSync` | publisher, relay, stream, subscriber and cache row composed |
| `ReadModelQueue` | read model workers, their fetches and the cache row |
| `ScannerPolicy` | matching, binding, freshness, runtime risk, decision (operators); uses `DomainProof` |
| `ScannerDecision` | the HTTP runtime over a changing cache; uses `ScannerPolicy` |
| `NatsRouting` | subjects, streams, wildcards, subscriber filters (operators) |
| `RuntimeObservations` | runtime subscriber, rows and report; uses `NatsRouting` |
| `TrustKeys` | registry, custody, status events, rotation |
| `ProductionEvidence`, `EvidencePackets` | documents, assertions and reports (operators) |
| `EvidenceReview` | the programs over files that are edited; uses the two above |
| `ScannerRelease` | profile distribution, evidence status and readiness over files; uses `EvidencePackets` |
| `VerifierCacheStores` | the in-memory and the Postgres cache fed the same artifacts |
| `OutboxHealth` | the supervisor's metrics over `EventOutbox`, which it extends |
| `Migrations` | appliers, direct apply and gate over one database |
| `RateLimiter` | the counter in Redis, the requests, the fallbacks |
| `ScanAccounting` | scans, their traces and the spike monitor |
| `BrowserTab`, `LabViews` | what the pages share; what they derive from answers |
| `LabController`, `OperatorController` | the two pages |
| `WebClient` | both pages in one tab |
| `MC*` | instances for TLC: the values of the constants, symmetry sets |
| `MCBackendRedis` | `VerdictCache`, `RateLimiter` and `ScanAccounting` side by side |
| `MCScannerDecision` | `ScannerDecision` and `VerifierCacheStores` side by side |
| `MCOperatorPrograms` | `EvidenceReview`, `ScannerRelease` and `Migrations` side by side |
| `GovernanceEventsProofs` | theorems about `EventOutbox` and `ManagementPlane` |
| `TrustProjectionProofs` | theorems about `TrustProjection` |
| `BackendRedisProofs` | theorems about `VerdictCache`, `RateLimiter` and `ScanAccounting` |
| `PublicationProofs` | theorems about `PublicationPipeline` and `TrustKeys` |
| `SubscribersProofs` | theorems about `VerifierSync` and `RuntimeObservations` |
| `VerifierCacheProofs` | theorems about `ScannerDecision`, `VerifierCacheStores` and `ReadModelQueue` |
| `OperatorProgramsProofs` | theorems about `EvidenceReview`, `ScannerRelease` and `Migrations` |
| `WebClientProofs` | theorems about `WebClient` |

Each module has its mutants (definitions marked *Mutant*) next to the
definition they change: small plausible bugs that show that a property can
fail. They take no part in a specification.

**EventOutbox.** Events are numbered in `created_at` order and enqueued in any
order. A worker runs `processOnce`: `Claim` is the one statement that selects
and updates under `for update skip locked`; each row of the batch is published
or fails, and two updates record the outcome. `lease` counts the ticks to
`claim_expires_at`. `Crash` stands for a process that dies and for a failed SQL
statement, which ends the supervisor's run; `Restart` is the container's restart
policy (`compose.nats.yml`). `PublishFailed` may leave the message stored: the
acknowledgement can be lost. `delivered` is the set of event ids in the stream,
which assumes that JetStream drops a message with a known `Nats-Msg-Id`.
`attempts` is counted up to `MaxAttempts`, beyond which the code does not tell
counts apart. `Prompt` restricts behaviours to those in which no lease runs out
during its own pass: the intention of `claim_ttl_ms`, which the code does not
enforce.

**TrustProjection.** One issuer, any number of certificates, scans as
coroutines: a step runs from one `await` to the next. A scan calls
`ensure_fresh` twice, first in `_run_scanner_decision` and then in
`_run_narrowed_verifier`; the record it judges is resolved in between.
`agreedAt` and `recordAsOf` are history variables. Left out: certificates
without usable key material, ephemeral demo entries, the governance cache
decision (which only refuses more scans), the time windows of key and record.
`asyncio.Lock` is first come, first served; the model grants it in any order,
which has more behaviours.

**ManagementPlane.** One governance row, requests that differ in key, request
id, value and `require_state_rows`. The transaction's writes take effect in
`Commit`; before it, other transactions see only the locks. `BeginFresh`,
`Replay` and `Conflict` are the outcomes of `_IDEMPOTENCY_BEGIN`. The
in-progress error cannot occur: a key's row with status `processing` is never
visible. `generation` is a history variable that counts a key's expiries.
`FreshIds` says that no request id is used twice; the server takes
`X-Request-ID` from the client, so only a client that generates its ids, or
sends none, satisfies it.

**VerdictCache.** One signed code, the successive versions of the issuer record
it is judged by, each with its boundary. The cache key contains the record and
the trust state token, so an entry belongs to a version. Time may pass between
the computation of the time to live (`Clamp`) and the write that starts it
(`Store`). Any call may be served by Redis or by the process's fallback. One
boundary stands for the record's and the matched proof's.

**PublicationPipeline.** A bundle publishes root manifest, authority manifest,
issuer record and policy one after the other, each as a put and an event. Queue
workers claim items under a lease, run the gate over the stored proofs
(policies only) and publish. Marks are by item id alone, as in the code, so a
worker whose claim lapsed still marks. A body stands for its hash.

**VerifierSync.** Artifacts are put, announced and relayed in any order; the
stream numbers what it stores. The subscriber takes the message at its cursor,
fetches the artifact an announcement names (which may have been rewritten since),
checks the hash and, of a body one of the validators recognizes, signature and
scope, and folds it into the row. A policy body with fields missing is not
recognized, yet it is projected with the announcement's fields and written before
its message is rejected (`"partial"`). `GiveUp` is
`max_deliver`, `Recreate` a consumer with another filter, which replays the whole
stream. The row carries for each projection the stream position that wrote it.

**ReadModelQueue.** The five artifacts of a chain are fetched twice, each fetch
an action, first to authorize and then to materialize. Claims lapse at any time,
failed items are marked, crashes leave claims. Rows are decoded after the claim has
committed: one that does not decode leaves its whole batch claimed, pass after pass. Scanner probes are part of the
write that may fail.

**ScannerDecision.** A request reads all rows, resolves the URL against them
(direct binding, resolver redirect, issuer hint), inspects it with the
provider, writes the event and then the decision row, and answers. A row that
does not decode empties the whole cache, as in the code. `PersistFails` also stands
for a decision that does not pass its contract (500 before anything is written); the
decision of a miss is made of constants and the URL and always passes. Reason texts
are left out.

**RuntimeObservations.** The worker loads its authorization at start and makes a
durable consumer of it; one message at a time is checked, inserted and then
acknowledged. `Nak` is a failed query, before or after its commit. The report's
window, ranking and health summary are operators over the rows.

**TrustKeys.** A signed artifact names its signer, never its key. Verification
looks up one key and compares its material with the one that signed. The sync
checks an event and asks again for its signer in a second lookup; registry
changes fall in between. Status events may be applied in any order and twice; a
trigger of the schema refuses every write that takes a key out of `revoked`.

**EvidenceReview.** Inputs on disk are edited between programs; each program
reads its inputs and writes a report or throws. Texts, dates and hashes of a
packet are one flag each.

**ScannerRelease.** A run is one program over the files of the moment: it judges
the profile or a packet, then stats, reads and asks git for one artifact after the
other, while imports and edits go on. A file is a kind, a size and what its text
states. Time is a few moments around the profile's dates.

**VerifierCacheStores.** Every command of the `VerifierCacheWriter` port is applied
to both stores in one step: two verifiers that have consumed the same prefix are
compared. A manifest is published in one step and synced in a later one; a row's
context is read from what is published (`durableAuthorityContextSql` overrides the
maps the Postgres writer keeps, which are therefore not modelled). A policy is its
hosts and its expiry. A map of the code is a function together with the order of its
keys, which is the order in which a lookup visits them. `owed` is a history
variable.

**OutboxHealth.** Extends `EventOutbox`: after a pass a supervisor owes a snapshot
and takes no other step before it. A failed snapshot ends the run like a crash. The
age of the oldest pending row is free.

**Migrations.** Each statement of an applier outside a transaction is a step; the
transaction holds the tables it creates and its ledger row until it ends. A commit
may be executed and its answer lost. Programs are started from checkouts that differ
in plan and checksums; `postgres-reference-schema-apply` runs the SQL without the
ledger.

**RateLimiter.** One identity. A request reads the clock once and names its window
by it; each Redis call is a step that may fail before or after it is executed.
The fallback's deque is the set of the requests whose stamps it holds.
`Delay` is how late the last call may come: the client has no socket timeout, so
that `Delay` is at most a second is an assumption of `BudgetHolds`, and a request
that stalls longer can bring a finished window's counter back. Redis keeps its keys
and its clock is the processes'.

**ScanAccounting.** Computed scans write a row some time after they are answered,
or fail to; cached scans increment a minute bucket in Redis or in the fallback. A
pass of the monitor reads rows, then per envelope the two counts, then emits.

**WebClient.** Each handler is cut at its awaits; answers come back in any order
and also after the page is left. Component state of a page that is gone does not
change; local storage, the camera and the server do. A decision is rated as the
backend rates it (`_scanner_ux_for_response`): the colour follows the score alone, so
a red decision may allow an opening and an amber one may not, and a hold is asked for
whenever an opening is allowed above green. Green and red decisions play a tone
before the handler goes on, and the page lives on meanwhile. Of the scanner events
the page posts, the previews and the starts of holds are kept; `open`, `cancel` and
`hold_complete` are telemetry. Handlers that only put up a flag around one request of
their own are left out: the status and trust-store loads, the list of client keys,
the copy buttons and the list of cameras.

## Runs

The numbers are distinct states. Three runs hold components that share neither
rows, keys nor files (`MCBackendRedis`, `MCScannerDecision`, `MCOperatorPrograms`):
an invariant or action property of one of them is not affected by steps of the
others, so the initial state chooses which of them is at work, and each is explored
in full.

| Run | Shows | States |
|---|---|---|
| `outbox_safety` | workers and health snapshots together: quarantined and exhausted rows are moved only by the operator or a worker that already held them; the outbox implements `EventRelay`; every event settles for good; a row out of attempts is reported for as long as it is left | 925k |
| `projection_safety` | the token identifies the state; records resolved after a confirmed refresh are recent; revocations stay | 1.1M |
| `mutation_safety` | a key applies once per period; every change has its event; no request waits for ever | 353k |
| `redis_safety` | verdicts: revoked is never allowed, overruns past a boundary are bounded; requests: no window is overspent, waiting as told is enough; scans: a settled flood is alerted | 1.7M |
| `sync_safety` | a drained stream leaves no withdrawn authorization; revocations win; a row expires with its sources; no message blocks the consumer | 1.5M |
| `publication_safety` | completed items are announced; at most one unannounced artifact per failure; no policy passes the gate against a revoked proof | 2.3M |
| `readmodel_safety` | a row is made of artifacts no older than its claim; every item that is not claimed with or queued behind an undecodable row settles | 464k |
| `decision_safety` | green was authorized by a row that was read; an expired row hides no fresh one; what Postgres answers memory holds too, and Postgres authorizes more only while a manifest is unsynced or owed after a revocation; a revoked authority stays out of memory until its manifests are renewed | 1.6M |
| `observations_safety` | only authorized subjects are inserted; valid observations land | 38k |
| `keys_safety` | keys change only under their signer; a rotation leaves its signer a key | 62k |
| `programs_safety` | a ready handoff speaks for production and rests on boundaries that operator-owned refs back; an accepted review is backed by distinct evidence; a complete trace is about its row; each migration runs once and is in the ledger as it ran; verdicts stay true | 443k |
| `webclient_safety` | only allowed destinations open, amber and red ones after a hold; recorded workflows are whole; no control of a modelled handler stays disabled, but for the camera start while its prompt is unanswered | 574k |

### Bounds

- Outbox: two workers make a takeover and a late mark; two events in batches of
  two, one of them malformed, make batches with both outcomes and batches that
  overlap; one crash or failed snapshot and one remediation; a lease of one tick
  expires at any point of a pass.
- Projection: two scans, one that loads and one that waits; four writes take an
  issuer to active, with a certificate, and revoke it; one loss of the token.
- Mutations: two clients, two keys, two commits, one expiry, one fault: a lost
  reply with a retry, a reuse after expiry, a duplicate in flight.
- Verdicts: two scans, two processes, a valid and a revoked record, a second of
  two ticks, so that times fall between whole seconds; boundary, claims expiry
  and skew apart from one another.
- Publication: two workers on two versions of one policy, a bundle of the same
  issuer, one fault; the second version adds a subdomain whose proof is revoked
  while its parent's is verified.
- Sync: any three of eight publications after the two manifests (a withdrawal, a
  record, a policy, a revocation, another tier, an unsigned, a partial and an
  undecodable artifact), two deliveries per message and two faults, so that a
  message is given up; two filters, one with root and issuer events only.
- Read model: two workers on an item and on one behind it whose row does not decode,
  two withdrawals between the ten fetches.
- Decision: one scan, two policies and seven row values, nine URLs that take
  each branch, three providers, two writes between read and answer, one fault.
- Observations: eight events (a wrong hash, a late artifact, a reserved root
  under another spelling, another stream); `MaxRuntimeDeliver` exceeds
  `MaxRuntimeFaults`, as `ObservationLands` requires; one change among three allowlists.
- Keys: two roots, two authorities, one with two keys; two signed events and two
  operator changes: enough for a status event applied after its signer's key
  changed.
- Evidence: two controls, two edits after any tool run.
- Stores: six artifacts for two policies of one issuer and a namesake under another
  root; the policy expires between the two issuer records. Six are a revocation with
  both projections and both manifests after it.
- Migrations: two appliers and a gate, two migrations, one of them in two versions,
  two faults: a lost commit and the failure of the applier after it.
- Rate limiter: three requests for a budget of two, a window of two seconds of two
  ticks each, a clock over more than one window. One process: processes meet in the
  counter only, which does not tell them apart.
- Spikes: three scans of one code by one replica; windows, baseline and verdict
  lifetime of a few ticks with minutes of two, so that every boundary is off the grid
  of another. Two replicas only repeat each other's passes.
- Scanner release: two program runs with one edit at any step of them.
- Web client: three clicks and two mounts: requests under way together, and a route
  left for another with them out. The page's link names a scenario to compare with,
  which the user may clear.

Deadlock is not checked where the bounds make clients, publishers or users stop;
that nothing is stuck is then a liveness property of the run or, for the
publication, keys, decision and programs runs, not claimed. Symmetry is used only in runs
without liveness, over sets whose members a specification does not tell apart.

### Fairness

- Outbox: weak fairness of each worker's steps, its supervisor's snapshots included,
  and of time. A worker is a loop in its own process, the container restarts it,
  leases end by the clock. Crashes and remediations are bounded, not fair.
- Mutations: strong fairness of each transaction: Postgres grants a row lock to
  its waiters in turn, and a waiter is not overtaken for ever.
- Sync: weak fairness of the subscriber's loop; publishers and relay owe nothing.
- Read model: weak fairness of each worker and of the clock that ends claims.
- Observations: weak fairness of the container's start and of the loop; operators
  owe nothing, so the property exempts a subscriber that stays deactivated.
- Web client: a request that is under way is answered or fails in the end, and so is
  what a handler awaits of the browser itself: decoding an image, starting the video,
  a tone (the browser lets a page play that the user has clicked on). The user and
  the timers owe nothing, and the camera prompt is the user's: while it is on screen
  the start of the camera may stay pending, and the property says so.

### What the code does not do

While modelling, these statements of the repository turned out not to describe
the code. Each is a definition in its module; no run lists it, since it does not
hold. With the constants given (the others as in the module's configuration) TLC
finds the counterexample.

| Statement | Definition | Constants | Behaviour |
|---|---|---|---|
| "published outbox events are immutable" (`management.py:2086`) | `EventOutbox!PublishedIsFinal` | as configured | rows are marked by `outbox_id` alone (`postgres-event-outbox-worker.ts:114`, `:140`): a worker whose lease ran out marks a row failed that another one has published. It is final when passes are prompt (`PromptPublishedFinal`) |
| a verifier that cannot confirm its token "stops answering rather than guessing" (`trust_projection.py:6`) | `TrustProjection!NeverGuesses` | `Scans = {s1}`, `MaxTime = 4`, `MaxTokenLosses = 0` | the outcome of the first refresh is discarded (`verifier.py:2651`); a record resolved after an unavailable one is judged when the second refresh succeeds |
| a retry after its key expired gets an event of its own (`ROADMAP.md:312`) | `ManagementPlane!EveryChangeAnnounced` | `FreshIds = FALSE`, `KeyRequired = TRUE` | a request repeated with its request id after its key expired is applied again under the same event id (`management_plane.py:433`) and has no event of its own |
| the time to live is the minimum over "each consulted trust boundary" (`verifier.py:658`) | `VerdictCache!BoundaryRespected` | as configured | a boundary in its last second, and one that passed between the verification and the clamp, is left out of the minimum (`verifier.py:686`); the docstring excepts only one the verdict already took into account |
| hash and version "prevent stale event replay from overwriting newer verifier state" (`nats-subjects.md:212`) | `VerifierSync!NoStaleOverwrite` | `Publications <- Versions`, `Filters <- AllKinds`, `MaxPublished = 2`, `MaxFaults = 1` | projections are upserted without comparing versions (`verifier-sync.ts:125-148`, `postgres-verifier-cache.ts:179-252`) |
| consumers "verify hash, signature, scope, version, and freshness before writing" (`nats-subjects.md:84`) | `VerifierSync!PolicyWasVerified` | as configured | a `destination_policy` body the validator does not recognize skips signature and scope (`verifier-sync.ts:85-106`), is completed from the announcement and upserted (`:129-148`, `:587-625`), and only then rejected |
| "Postgres remains the authority" over what publication carries (`network-contracts/README.md:317`) | `PublicationPipeline!PublishedIssuerStaysListed` | two issuers, `Items <- NoQueue`, `Workers = {}` | the authority manifest of a bundle lists that bundle's issuer only (`postgres-governance-publication-source.ts:407-434`, `:566-573`) and replaces the previous one |
| a persisted row makes the decision green (`scanner-decision-live-cache-drill.ts:190`) | `ReadModelQueue!CompletedRowIsVisible` | as configured | the row a work item writes lacks the authority context the cache reader requires (`postgres-persistence.ts:293-346`, `postgres-verifier-cache.ts:627`, `:678-695`) |
| status events are authorized "before queue workers can materialize cache state" (`network/README.md:118`) | `ReadModelQueue!MaterializedWasAuthorized` | `Artifacts <- Unsigned`, `Workers = {w1}`, `MaxPublications = 1`, `MaxQueueFaults = 0` | the materializer fetches the chain again (`verifier-cache-read-model-queue-worker.ts:104-112`) |
| "idempotent consumers keyed by `event_id`" (`nats-subjects.md:211`) | `RuntimeObservations!ObservedOnce` | as configured | the insert has no conflict clause (`postgres-persistence.ts:396-424`): a redelivery inserts again |
| "both old and new keys may verify signed artifacts during the accepted overlap" (`key-rotation-policy.md:52`) | `TrustKeys!BothKeysVerifyInOverlap` | as configured | a lookup returns one key of the signer (`trust-key-registry.ts:109-148`) and the signature is checked with that one only (`signature-verification.ts:55-141`) |
| "verifies the ledger, migration checksums, and expected table inventory" (`network-contracts/README.md:404`) | `Migrations!TablesAreOfTheLedger` | as configured | `create table if not exists` keeps a table an older reference schema made; the gate compares names only |
| "each flooded envelope has at least one recent evidence row" (`scan_accounting.py:157`) | `ScanAccounting!CachedFloodHasRow` | as configured | the evidence write of the computed verdict may fail, and `/verify` caches a verdict without one; the monitor then never looks at the envelope |
| "a brand-new reusable code being hammered is exactly the flood case" (`scan_accounting.py:150`) | `ScanAccounting!NewFloodIsAlerted` | as configured | scans between the two counter reads of a pass enter the baseline alone, and a read that fails over sees nothing; a later pass makes up for it |

These are stated for the reader; the repository does not claim them, and they do not
hold either:

| Definition | Behaviour |
|---|---|
| `VerifierCacheStores!RevokedAuthorityStaysOutOfPostgres` | a row written after the revocation of its authority is authorized by the manifests that are still published |
| `VerifierCacheStores!MemoryWithinPostgres` | a policy that is removed and published again finds its issuer in memory, but a placeholder in Postgres until the issuer record is announced again |
| `VerifierCacheStores!MemoryHidesNothing` | in memory a policy synced before its issuer hides a later policy for the same host |
| `ReadModelQueue!EveryQueuedItemSettles` | a row that does not decode (`postgres-verifier-cache-read-model-queue.ts:161-278`) fails the pass after its claim has committed, at every lapse again: it is never marked, nor is what is claimed with it |
| `OutboxHealth!HealthyHasNoParkedRow` | quarantined rows are in none of the counts |
| `RateLimiter!CountersExpire` | a failed `expire` leaves the counter of its window for good |
| `ScannerRelease!ReadyEvidenceIsRead` | the readiness report checks the size of a trace, not what it states |
| `ScannerRelease!ProviderTraceSpeaksForItsRow` | two provider rows may cite one trace |
| `ScannerRelease!BlockedShowsItsReason` | a profile may be blocked by a rule the controls do not repeat |
| `ScannerRelease!TraceStatesTheColor` | the colour is searched in the text, and `status: Expired` contains "red" |

Further observations, without a definition of their own:

- Publication and routing. `issuer_certificate.enrolled` and
  `issuer_certificate.status.changed` have no subject in
  `nats-propagation.ts:226`: these outbox rows exhaust their attempts
  (`Malformed` in `EventOutbox`). A row quarantined while a worker has it in its
  hands leaves quarantine, hence the last disjunct of `ParkedRowIsLeftAlone`.
- Rate limiter. A request whose increment was executed and lost is counted in Redis
  and again in the fallback. The fallback is called a fixed window and slides.
- Scanner release. The programs use a fixed observation date by default, which hides
  an expired profile, and an empty revocation list; the fleet packet's profile is not
  compared with the distributed one.
- Scanner decision. One row that does not decode empties the cache for every
  scan; only the first rule that matches a host is tried; a red mismatch reports
  the cache fresh when its row has expired.
- Observations. The report's SQL does not select `unknown_count`
  (`postgres-runtime-safety-observation-report.ts:115-124`), which its decoder
  reads (`:192`).
- Trust keys. Replaying an old "active" event makes a suspended or expired key active
  again, and an operator's upsert overwrites such a status (a revoked key stays
  revoked: a trigger refuses the write); the rotation assessment does not
  compare algorithms; the composite signer stops at the first provider that
  fails.
- Evidence. The closure bundle compares ids and statuses, not contents
  (`production-evidence-closure-bundle.ts:186-206`), although its document asks
  that the inputs "still match" (`production-evidence-closure-bundle.md:31`);
  the gap report counts a ref listed twice as two; the fleet packet declares its
  own matrix; a readiness bundle accepts reference packets; the handoff does not
  compare the readiness report with the bundle's.
- Lab page. A late decision overwrites a newer scan's; a 403 of a page that was
  left clears the key of its successor; `window.open` with `noopener` returns
  null, which is recorded as cancelled; generating during the camera's `play`
  leaves it shown as running.
- Operator page. Two workflows under way re-enable each other's buttons; revoking
  one key hides the plaintext of another that was just issued; a key revoked
  before its issue was answered is shown active; a blank delegated authority name
  leaves a half-applied setup; an evidence load under way erases a failure
  message.

## Proofs

Every theorem holds for all values of the constants that satisfy the modules'
assumptions; TLC evaluates those on every run. Every invariant was checked by TLC on
a small instance before it was proved. Sums over finite sets and other inductions
over numbers go through the least counterexample (`WFMin` of
`WellFoundedInduction`), since the induction rules take an operator.

`GovernanceEventsProofs`: `EventOutbox`, for all sets of events and workers and all
bounds, and `ManagementPlane`, for all sets of clients, keys, ids and values, without
the bounds:

- `PublishedDelivered` rests on `SafetyInv`: types, published rows delivered, and
  what makes this inductive: every row a pass has counted as a success is
  delivered, and every row in a worker's hands was inserted. Without the former, a
  mark could report what was never sent.
- `OutboxImplementsRelay` maps `recorded` to the inserted rows and `confirmed` to
  the published ones; under `SafetyInv` every step is a relay step or a stutter.
  A mark may both add to and remove from the published rows, hence the relay's
  `Report`.
- `PromptClaimsExclusive` and `PromptPublishedFinal` assume `Prompt` and
  `MaxRemediations = 0`. `LeaseInv` says that a row in a worker's hands is
  `publishing` with a running lease and in no other worker's hands; it is
  inductive because a claim takes only rows without a running lease.
- `ParkedAlwaysLeftAlone`: claims pass over a parked row, so that only a worker that
  had it before, or a remediation, changes its status.
- `KeyAppliedOnce` and `KeyStandsForItsMutation`: `ClaimHeld` says that a
  transaction past its claim holds the key's row and that the key is still fresh;
  a fresh key has nothing applied in its generation, so the commit adds the only
  one. `GenerationsPast` covers the expiry.
- `FreshIdsAnnounceAll` assumes `FreshIds`. `IdsApart` keeps the ids of requests
  in work distinct and out of the outbox, so that a commit always inserts.

`TrustProjectionProofs`, for all sets of certificates and scans and all bounds:

- `TokenSound`: the conjunct `TokensOrdered` (epochs are handed out in order, and
  no token the manager holds is ahead of the database's) makes
  `TokenIdentifiesState` inductive: a bump yields a token nobody has seen.
- `ConfirmedRecordsRecent`: `TimesOrdered` relates last success, call times,
  clock and the time of agreement; the store agreed with the database no earlier
  than the last success, although that may move backwards.
- `LockNeverLeaked`: the lock's holder is the scan between acquiring and
  releasing it, through failed probes and loads.
- `RevocationsTerminal`: a key revoked in the store is revoked in the database,
  whose transition table has no way back.

`BackendRedisProofs`, for all scans, processes, versions, boundaries, times to
live, clock rates, budgets, windows, replicas and envelopes:

- `RevokedNeverServed`, `OverrunBounded`, `ClaimsAlwaysHonoured`: what an entry of
  the verdict cache promises does not mention the clock; its end is bounded by the
  moments of its clamp and its write (`Within`), so time passing preserves it.
  `WriteTTLBounds` is the arithmetic of the two clamps (whole seconds, counted back
  in ticks, never exceed the ticks they came from); `ClampBounded` carries the bound
  to the write.
- `BudgetSpentOnce`, under `Delay <= Second`: a counter outlives its window by a
  second (`CountersLast`), so no request that may still increment it finds it gone;
  increments therefore hand out different numbers (`NumbersDiffer`), and at most
  `Limit` of them are small enough (`Pigeonhole`).
- `RetryAfterAlwaysSuffices`, without a bound on `Delay`: a refusal of Redis lasts
  to the end of its window; the fallback's deque holds at most `Limit` stamps, those
  of every recent request among them (`Bucketed`), and nobody is allowed at the
  moment of a refusal.
- `FloodAlwaysAlerted`: a bucket of Redis has the hits of its minute until a whole
  baseline after it (`RedisCounts`), so a read sees every hit of the minutes it
  overlaps (`RedisReadsHits`, by `SumByMinutes`). What is owed to a pass is in its
  first read, and what the second read adds to it is at most the hits before the
  window (`HitsBeforeWindow`), so the flood clears the ratio (`FloodIsSpike`). The
  ratio is a whole number in the model; the code's is a float.

`PublicationProofs`, for all issuers, workers, items, keys, requests, plans and
bounds:

- `CompletedAlwaysAnnounced`: `OkIsAnnounced` says that what a worker counts as
  published has its event already; events are never taken back, so that even the
  mark of a worker whose claim lapsed is true.
- `LossesAlwaysFaults`: what is stored and not announced is split into what a
  publisher between its two writes will announce (`Pending`) and the rest (`Lost`);
  only a fault adds to the rest, at most one artifact each.
- `GateAlwaysRespectsRevocation`: `OwnProofDecides` says that the issuer's own
  proof of a host decides the gate whenever there is one: no other covering proof is
  as specific.
- `KeysAreGoverned`: the second lookup alone grants the change (`LookupFinds`: it
  answers with an active key of the signer in the scope of what was signed;
  `UpdateIsScoped`: the update stays in its caller's namespace). The invariant
  only says that the registry is a function of the keys.
- `RotationsKeepSigners`: a plan that was not rejected has keys of the same signer,
  root, scope and authority (`Exchangeable`), and it stays so while the plan is under
  way (`PlanInv`); a lookup for what the old key spoke for then finds the new one.

`SubscribersProofs`, for all messages, artifacts, subjects and faults:

- `RevocationAlwaysWins`, `ExpiryAlwaysCovered`, `AuthorityAlwaysConverges` rest on
  `SyncTypes`, on `AtMessage` (a delivered message is in the stream and one of the
  consumer's), `HeldManifest` (a manifest rewritten while the subscriber held the old
  one is announced after the message in work) and `GrantBacked` (a granted
  authorization rests on the manifest in the store, or that one is still to be
  consumed).
- `ObservationsAlwaysAuthorized`: a configured filter passes only when the
  allowlist covers it (`FilterCovered`), and covering composes with matching
  (`WildcardsCompose`; by `SubjectsAssumption` a subject is a sequence of tokens);
  `ObserverInv` carries this from the configuration to the recorded observation.

`VerifierCacheProofs`, for all rows, manifests, providers, items and workers:

- `GreenAlwaysAuthorized`, `ExpiredNeverHidesFreshRow`: `ScanInv` says for every place
  of a scan which rows it has seen; the order of the query is total because
  creation times differ, so the first row is the newest.
- `RevokedAuthorityAlwaysStaysOut`, `PostgresAlwaysWithinMemory`: `StoresInv` is
  `RowsWithinMemory`, `RowsFollowManifests` and `OwedIsOut` (a manifest that a
  revoked authority still owes grants it nothing in memory). The second theorem also
  needs `MemoryFollowsManifests`: what a synced manifest grants that is not owed,
  memory grants as well. After a revocation Postgres does trust more than memory
  (`RevokedAuthorityStaysOutOfPostgres` below); the theorem says when that can be.
- `RowsNeverOlderThanClaim`: `QueueInv` says that what is in force is among what was
  in force since a worker's claim (`SeenInForce`), and so is all that it has fetched
  (`FetchedIsSeen`).

`OperatorProgramsProofs`, for all programs, checkouts, ids, evidence, releases and
faults:

- `MigrationsRunOnce` and `VerdictsAreCurrent`: an applier between its ledger insert
  and its commit owns a ledger row that is still free, because Postgres makes the
  second inserter wait; rows and tables are only added (`Grows`), so what a program
  has read stays true until its verdict. `IInv` therefore says for every place of a
  program which prefix of its plan the ledger already holds.
- `HandoffAlwaysProduction`: `ReviewInv` says that what the handoff is made from was
  made by its own program, however long ago: a ready drill is one of production, and
  the assertion every adoption claim ends in leaves a ready one only boundaries that
  pass on operator-owned refs (`ClaimIsBacked`, `TierOfRefs`).
- `AcceptedAlwaysBacked`: a review without findings counts distinct real references
  only (`NoFindingsIsBacked`, `NoDuplicates`).
- `CompleteAlwaysSpeaksForItsRow`: `FleetRunInv` says that every reference before the
  current one is settled and that the references come in threes, the last of each
  row's being its trace.

`WebClientProofs`, for all forms, submissions, scans and answers in any order:

- `OpenedAlwaysAllowed`: the decision on screen is what the endpoint answered to some
  request (`DecisionIsAnswer`), so it asks for a hold exactly when it allows an
  opening above green (`AnswerHolds`), and a running hold was started on a decision
  that allows to open (`HoldWasStarted`).
- `RecordedAlwaysWhole`: a submission has one continuation (`PostsAreApart`), which has
  posted what its counter says and none of the rest (`PostsAreCounted`), and what is
  reported is over (`ReportedIsOver`); a form posts to no path twice
  (`FormsPostApart`).

`PublishedIsDelivered` (which `ImplementsRelay` implies), `LockHeldByItsLoad`,
`CompletedIffApplied` and `ClaimsHonoured` are proved and in no run. Every safety
invariant and action property of the runs is proved. Only model-checked: the
liveness properties (`EventuallySettled`, `ExhaustedIsReported`,
`EveryRequestAnswered`, `EveryMessageSettles`, `EveryItemSettles`,
`ObservationLands`, `EveryBusyEnds`), which need fairness and are beyond this prover.

## Not modelled

- Signatures, canonicalisation and QR image analysis: byte-level algorithms; a
  signature is a comparison of key material or a flag.
- The issuer's daily scan report and the activity card: read-only queries.
- Management authentication and API keys: hashing and scope checks, lookups
  without state of their own.
- The backend's Python twins of the decision table and of the runtime providers,
  and the status read models: stateless, or aggregations of rows.
- Runtime status panels, trust store panels, translations, wording and layout of
  the web client; the iOS client.
- Smoke and drill programs: tests; their expectations are used as statements
  above.

## Plan

1. *(done)* `EventOutbox` over `EventRelay`, `TrustProjection`,
   `ManagementPlane`, `VerdictCache`: checked and proved.
2. *(done)* `NatsRouting`, `VerifierSync`, `PublicationPipeline` with
   `DomainProof`, `ReadModelQueue`, `ScannerDecision`, `RuntimeObservations`,
   `TrustKeys`, `EvidenceReview`, `WebClient`: checked.
3. *(done)* `VerifierCacheStores`, `OutboxHealth`, `Migrations`, `RateLimiter`,
   `ScanAccounting`, `ScannerRelease`: checked.
4. *(done)* The safety invariants and action properties of all runs: proved.
5. Left for later models: the retry of the network's HTTP clients.
