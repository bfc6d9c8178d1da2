--------------------------- MODULE ReadModelQueue ---------------------------
(***************************************************************************)
(* The verifier-cache read model workers. A work item names the five       *)
(* artifacts of one issuer's chain. A worker claims items under a lease,   *)
(* fetches the five to authorize the item, fetches them again to           *)
(* materialize the cache row, and writes the row. Each fetch is a query of *)
(* its own, so publishers and other workers move between any two of them.  *)
(*                                                                         *)
(* One verifier, one issuer and one policy are followed: one cache row.    *)
(***************************************************************************)
EXTENDS Naturals, Sequences, FiniteSets

CONSTANTS
    Artifacts,      \* artifacts that may be published
    Genesis,        \* the artifact of each role in the store at the start
    Items,          \* work items in created_at order: their materialized_at
    Undecodable,    \* items whose row does not decode (their scanner_probes, say)
    Workers,
    BatchSize,      \* batch_size of a worker (50 in the code)
    AuthorizationEnabled, \* the worker's authorization setting (on by default)
    NoArtifact, NoEntry,
    MaxPublications,   \* bound: publications
    MaxQueueFaults       \* bound: failed queries and crashes

\* The order the authorizer and the materializer fetch the chain in.
AuthorizerOrder == <<"issuer", "root", "authority", "policy", "status">>
MaterializerOrder == <<"root", "authority", "issuer", "policy", "status">>

Roles == {"root", "authority", "issuer", "policy", "status"}

\* scope: the namespace the body is written for. active: the record or event is
\* in force. grants: it lists the next link of the chain as active, by the id of
\* its artifact. sound: the body parses. signed: its signature is accepted.
ArtifactRecord ==
    [role : Roles, version : Nat, scope : {"own", "other"}, active : BOOLEAN,
     grants : BOOLEAN, sound : BOOLEAN, signed : BOOLEAN, until : Nat]

\* loadRuntimeConfig refuses to start a worker with anything else.
RuntimeConfig == BatchSize \in Nat \ {0} /\ AuthorizationEnabled \in BOOLEAN

ASSUME ChainAssumption ==
    /\ Artifacts \subseteq ArtifactRecord
    /\ Genesis \in [Roles -> ArtifactRecord \union {NoArtifact}]
    /\ NoArtifact \notin ArtifactRecord
    /\ Items \in Seq(Nat) /\ Undecodable \subseteq DOMAIN Items
ASSUME QueueAssumption == RuntimeConfig /\ MaxPublications \in Nat /\ MaxQueueFaults \in Nat

VARIABLES
    store,      \* published_artifacts, by role
    work,       \* work_status of every item, and whether its claim has run out
    worker,     \* what each worker is doing with its batch
    entryRow,        \* the verifier_cache_entries row
    verified,   \* history: the artifacts each item was authorized with
    publications,
    queueFaults

queueVars == <<store, work, worker, entryRow, verified, publications, queueFaults>>

ItemIds == DOMAIN Items

NoChain == [r \in Roles |-> NoArtifact]
IdleWorker == [pc |-> "idle", batch |-> <<>>, stage |-> 0, chain |-> NoChain, seen |-> {},
         ok |-> {}, bad |-> {}]

QueueInit ==
    /\ store = Genesis
    /\ work = [k \in ItemIds |-> [status |-> "pending", lapsed |-> FALSE]]
    /\ worker = [w \in Workers |-> IdleWorker]
    /\ entryRow = NoEntry
    /\ verified = [k \in ItemIds |-> {}]
    /\ publications = 0 /\ queueFaults = 0

-----------------------------------------------------------------------------
(* Authorization *)

\* issuerNamespaceFromArtifact: an issuer record with its three ids.
IssuerNamespaceParses(c) == c["issuer"].sound

\* statusEventBody and statusEventTarget
StatusEventParses(c) == c["status"].sound

\* verifyRequiredTrustSignature of the four source artifacts, and the status
\* event's own signature.
SignaturesAccepted(c) == \A r \in Roles : c[r].signed

\* The status event is scoped to the issuer record and targets it.
StatusEventInScope(c) == c["status"].scope = c["issuer"].scope /\ c["status"].grants

\* authorize: of the other bodies only the signed header is read.
Authorized(c) ==
    /\ IssuerNamespaceParses(c) /\ StatusEventParses(c)
    /\ SignaturesAccepted(c) /\ StatusEventInScope(c)

-----------------------------------------------------------------------------
(* Materialization *)

\* The require helpers accept every field of a body.
FieldsDecode(a) == a.sound

\* rootManifestBody, delegatedAuthorityBody
ManifestsParse(c) == FieldsDecode(c["root"]) /\ FieldsDecode(c["authority"])

\* destinationPolicyBody with its destination rules and redirect policy.
PolicyParses(c) == FieldsDecode(c["policy"])

\* Every body is of the expected type and decodes.
ChainParses(c) ==
    /\ ManifestsParse(c) /\ PolicyParses(c)
    /\ FieldsDecode(c["issuer"]) /\ FieldsDecode(c["status"])

\* The requireEqual calls on program, authority and issuer ids.
NamespacesMatch(c) == \A r \in Roles : c[r].scope = c["issuer"].scope

\* The root manifest delegates to this authority, and this authority's manifest
\* is the one it refers to.
AuthorityDelegated(c) == c["root"].grants

\* The authority's manifest enrolls the issuer and refers to its record.
IssuerEnrolled(c) == c["authority"].grants

\* issuer_status and certificate_status
IssuerActive(c) == c["issuer"].active

\* The record refers to the destination policy.
PolicyReferenced(c) == c["issuer"].grants

\* Mutant: the status event is not looked at.
AnyStatusEvent(c) == TRUE

\* The status event targets the issuer record and says active.
StatusEventActive(c) == c["status"].active /\ c["status"].grants

\* The certificate the status event names belongs to the record.
CertificateBelongs(c) == c["status"].scope = c["issuer"].scope

ChainMaterializes(c) ==
    /\ ChainParses(c) /\ NamespacesMatch(c)
    /\ AuthorityDelegated(c) /\ IssuerEnrolled(c) /\ IssuerActive(c)
    /\ PolicyReferenced(c) /\ StatusEventActive(c) /\ CertificateBelongs(c)

\* earliestIso of the five publications.
CacheExpiresAt(c) ==
    CHOOSE t \in {c[r].until : r \in Roles} : \A r \in Roles : t <= c[r].until

\* Freshness is judged at the materialized_at the item was queued with.
FreshnessStatus(k, c) == IF Items[k] > CacheExpiresAt(c) THEN "expired" ELSE "fresh"

\* materializeVerifierCacheEntry: what the chain is projected to.
MaterializedEntry(k, c) ==
    [sources |-> c, expires |-> CacheExpiresAt(c), freshness |-> FreshnessStatus(k, c)]

\* verifierCacheEntryCommand overwrites the row of this issuer and policy with a
\* projection that has no authority_context.
RowOfEntry(entry) ==
    [sources |-> entry.sources, expires |-> entry.expires, freshness |-> entry.freshness,
     context |-> FALSE]

-----------------------------------------------------------------------------
(* The worker *)

\* Mutant: an expired claim is not taken over.
ClaimableOnce(k) == work[k].status = "pending"

Claimable(k) ==
    \/ work[k].status = "pending"
    \/ work[k].status = "processing" /\ work[k].lapsed

\* order by created_at limit batch_size
NextRows ==
    {k \in ItemIds : Claimable(k) /\
        Cardinality({j \in ItemIds : j < k /\ Claimable(j)}) < BatchSize}

Current(w) == Head(worker[w].batch)

FirstPhase == IF AuthorizationEnabled THEN "authorize" ELSE "materialize"

\* decodePostgresVerifierCacheWorkItemRows: all rows of a claim, or none.
RowsDecode(ks) == ks \intersect Undecodable = {}

\* The claim commits before its rows are decoded: when one of them does not
\* decode the pass fails, with the whole batch claimed until the claims lapse.
Claim(w) ==
    /\ worker[w].pc = "idle" /\ NextRows # {}
    /\ work' = [k \in ItemIds |-> IF k \in NextRows
                  THEN [status |-> "processing", lapsed |-> FALSE] ELSE work[k]]
    /\ worker' = IF RowsDecode(NextRows)
                   THEN [worker EXCEPT ![w] = [IdleWorker EXCEPT !.pc = FirstPhase, !.stage = 1,
                           !.seen = {store[r] : r \in Roles},
                           !.batch = SelectSeq([k \in ItemIds |-> k], LAMBDA k : k \in NextRows)]]
                   ELSE worker
    /\ UNCHANGED <<store, entryRow, verified, publications, queueFaults>>

\* What the worker does next once an item has succeeded or failed.
Settled(w, ok) ==
    LET rest == Tail(worker[w].batch)
        done == [worker[w] EXCEPT !.batch = rest, !.stage = 1, !.chain = NoChain,
                    !.pc = IF rest = <<>> THEN "complete" ELSE FirstPhase]
    IN  IF ok THEN [done EXCEPT !.ok = @ \union {Current(w)}]
              ELSE [done EXCEPT !.bad = @ \union {Current(w)}]

\* artifactStore.get through fetchRequiredArtifact of the next artifact; a missing one fails the item.
Fetch(w, pc, order) ==
    LET r == order[worker[w].stage] IN
    /\ worker[w].pc = pc /\ worker[w].stage \in 1 .. 5
    /\ worker' = IF store[r] = NoArtifact
                   THEN [worker EXCEPT ![w] = Settled(w, FALSE)]
                   ELSE [worker EXCEPT ![w].chain[r] = store[r], ![w].stage = @ + 1]
    /\ UNCHANGED <<store, work, entryRow, verified, publications, queueFaults>>

FetchToAuthorize(w) == Fetch(w, "authorize", AuthorizerOrder)

FetchToMaterialize(w) == Fetch(w, "materialize", MaterializerOrder)

\* authorize decides on what it fetched; nothing of it is handed on.
Authorize(w) ==
    /\ worker[w].pc = "authorize" /\ worker[w].stage = 6
    /\ IF Authorized(worker[w].chain)
         THEN /\ worker' = [worker EXCEPT ![w].pc = "materialize", ![w].stage = 1,
                                          ![w].chain = NoChain]
              /\ verified' = [verified EXCEPT ![Current(w)] =
                                 @ \union {worker[w].chain[r] : r \in Roles}]
         ELSE worker' = [worker EXCEPT ![w] = Settled(w, FALSE)] /\ verified' = verified
    /\ UNCHANGED <<store, work, entryRow, publications, queueFaults>>

\* materialize, then persistBatch of the row and of the probes' decisions.
Materialize(w) ==
    /\ worker[w].pc = "materialize" /\ worker[w].stage = 6
    /\ IF ChainMaterializes(worker[w].chain)
         THEN /\ entryRow' = RowOfEntry(MaterializedEntry(Current(w), worker[w].chain))
              /\ worker' = [worker EXCEPT ![w] = Settled(w, TRUE)]
         ELSE /\ worker' = [worker EXCEPT ![w] = Settled(w, FALSE)]
              /\ UNCHANGED entryRow
    /\ UNCHANGED <<store, work, verified, publications, queueFaults>>

\* persistBatch is one command after the other: the row is written, a decision
\* of a scanner probe is not, and the item fails.
MaterializeThenFail(w) ==
    /\ worker[w].pc = "materialize" /\ worker[w].stage = 6
    /\ queueFaults < MaxQueueFaults /\ queueFaults' = queueFaults + 1
    /\ ChainMaterializes(worker[w].chain)
    /\ entryRow' = RowOfEntry(MaterializedEntry(Current(w), worker[w].chain))
    /\ worker' = [worker EXCEPT ![w] = Settled(w, FALSE)]
    /\ UNCHANGED <<store, work, verified, publications>>

\* A query of the item fails: Effect.either turns it into a failure.
FailItem(w) ==
    /\ worker[w].pc \in {"authorize", "materialize"}
    /\ queueFaults < MaxQueueFaults /\ queueFaults' = queueFaults + 1
    /\ worker' = [worker EXCEPT ![w] = Settled(w, FALSE)]
    /\ UNCHANGED <<store, work, entryRow, verified, publications>>

\* The marks find their rows by id, whoever holds the claim by then.
SetStatus(ks, s) ==
    work' = [k \in ItemIds |-> IF k \in ks THEN [status |-> s, lapsed |-> FALSE] ELSE work[k]]

MarkCompleted(w) ==
    /\ worker[w].pc = "complete"
    /\ SetStatus(worker[w].ok, "completed")
    /\ worker' = [worker EXCEPT ![w].pc = "fail"]
    /\ UNCHANGED <<store, entryRow, verified, publications, queueFaults>>

MarkFailed(w) ==
    /\ worker[w].pc = "fail"
    /\ SetStatus(worker[w].bad, "failed")
    /\ worker' = [worker EXCEPT ![w] = IdleWorker]
    /\ UNCHANGED <<store, entryRow, verified, publications, queueFaults>>

\* The process dies, or a mark fails and ends the supervisor; it is restarted.
WorkerCrash(w) ==
    /\ worker[w].pc # "idle"
    /\ queueFaults < MaxQueueFaults /\ queueFaults' = queueFaults + 1
    /\ worker' = [worker EXCEPT ![w] = IdleWorker]
    /\ UNCHANGED <<store, work, entryRow, verified, publications>>

-----------------------------------------------------------------------------
\* Another publication overwrites the artifact of its role.
Publish(a) ==
    /\ publications < MaxPublications /\ publications' = publications + 1
    /\ store[a.role] # a
    /\ store' = [store EXCEPT ![a.role] = a]
    /\ worker' = [w \in Workers |-> IF worker[w].pc = "idle" THEN worker[w]
                     ELSE [worker[w] EXCEPT !.seen = @ \union {a}]]
    /\ UNCHANGED <<work, entryRow, verified, queueFaults>>

\* The governance subscriber receives the manifests again: its two context
\* updates mark the rows there are.
GrantContext ==
    /\ entryRow # NoEntry /\ ~entryRow.context
    /\ entryRow' = [entryRow EXCEPT !.context = TRUE]
    /\ UNCHANGED <<store, work, worker, verified, publications, queueFaults>>

\* claim_expires_at passes, whether the claim's worker still runs or not.
Lapse(k) ==
    /\ work[k].status = "processing" /\ ~work[k].lapsed
    /\ work' = [work EXCEPT ![k].lapsed = TRUE]
    /\ UNCHANGED <<store, worker, entryRow, verified, publications, queueFaults>>

WorkerStep(w) ==
    \/ Claim(w) \/ FetchToAuthorize(w) \/ Authorize(w) \/ FetchToMaterialize(w)
    \/ Materialize(w) \/ MarkCompleted(w) \/ MarkFailed(w)

QueueNext ==
    \/ \E w \in Workers : WorkerStep(w) \/ MaterializeThenFail(w) \/ FailItem(w) \/ WorkerCrash(w)
    \/ \E a \in Artifacts : Publish(a)
    \/ GrantContext
    \/ \E k \in ItemIds : Lapse(k)

QueueSpec == QueueInit /\ [][QueueNext]_queueVars

\* The supervisor polls for ever and the clock advances.
FairQueueSpec ==
    /\ QueueSpec
    /\ \A k \in ItemIds : WF_queueVars(Lapse(k))
    /\ \A w \in Workers : WF_queueVars(WorkerStep(w))

-----------------------------------------------------------------------------
QueueTypeOK ==
    /\ store \in [Roles -> Artifacts \union {Genesis[r] : r \in Roles}]
    /\ work \in [ItemIds -> [status : {"pending", "processing", "completed", "failed"},
                             lapsed : BOOLEAN]]
    /\ \A w \in Workers :
          /\ worker[w].pc \in {"idle", "authorize", "materialize", "complete", "fail"}
          /\ worker[w].batch \in Seq(ItemIds)
          /\ worker[w].pc \in {"authorize", "materialize"} =>
                worker[w].batch # <<>> /\ worker[w].stage \in 1 .. 6
          /\ worker[w].ok \subseteq ItemIds /\ worker[w].bad \subseteq ItemIds
    /\ entryRow # NoEntry => entryRow.freshness \in {"fresh", "expired"}
    /\ publications \in 0 .. MaxPublications /\ queueFaults \in 0 .. MaxQueueFaults

\* A row is only ever written from a chain that was in force: nothing in it was
\* withdrawn before its item was claimed, and its status event said active. The
\* ten fetches of an item are ten queries, and another worker may write the row
\* of a newer chain meanwhile.
RowIsNoOlderThanClaim ==
    [][entryRow' # entryRow /\ ~entryRow'.context =>
          \E w \in Workers :
             /\ worker[w].pc = "materialize"
             /\ \A r \in Roles : entryRow'.sources[r] \in worker[w].seen
             /\ entryRow'.sources["status"].active /\ entryRow'.sources["issuer"].active]_queueVars

\* No claim of the item fails on a row that does not decode: there is none, or
\* items are claimed one at a time and the item comes before all such rows.
ClaimedWithDecodable(k) == \A j \in Undecodable : BatchSize = 1 /\ k < j

\* Every work item that is not claimed together with, or queued behind, a row that
\* does not decode is settled in the end: crashes leave claims that lapse, there is
\* always a worker that finishes its batch, and the claims of the undecodable rows,
\* which fail and lapse for ever, do not keep it from being claimed.
EveryItemSettles ==
    \A k \in ItemIds : ClaimedWithDecodable(k) => <>(work[k].status \in {"completed", "failed"})

\* Without that restriction: every item is settled in the end.
EveryQueuedItemSettles ==
    \A k \in ItemIds : <>(work[k].status \in {"completed", "failed"})

\* "a verifier-cache work-item authorization boundary that verifies externally
\* supplied status-event artifacts are [...] signed by the delegated authority,
\* and cryptographically accepted before queue workers can materialize cache
\* state" (network/README.md:118): what a row is made from was authorized.
MaterializedWasAuthorized ==
    entryRow # NoEntry => \A r \in Roles :
        \E k \in ItemIds : entryRow.sources[r] \in verified[k]

\* "scanner decision should be green from persisted verifier-cache state"
\* (network/src/programs/scanner-decision-live-cache-drill.ts:190): once an item
\* is completed, the cache reader uses its row, which needs the authority context.
CompletedRowIsVisible ==
    (\E k \in ItemIds : work[k].status = "completed") => entryRow.context
=============================================================================
