------------------------ MODULE PublicationPipeline ------------------------
(***************************************************************************)
(* How signed artifacts get into published_artifacts and the event outbox. *)
(* Two publishers write there. The authority publication service reads one *)
(* root/authority/issuer/policy bundle from the governance tables and      *)
(* publishes its four artifacts one after the other. The artifact queue's  *)
(* workers claim work items under a lease and publish them, policies only  *)
(* behind the domain-control gate. Publishing is two writes, the artifact  *)
(* and then its event; a publisher may die or lose the database between    *)
(* any two of its steps.                                                   *)
(*                                                                         *)
(* One root program and one delegated authority are followed, with several *)
(* issuers. A body stands for its hash.                                    *)
(***************************************************************************)
EXTENDS DomainProof, FiniteSets

CONSTANTS
    Issuers,        \* issuers enrolled under the delegated authority
    Decodable,      \* issuers whose governance rows pass the source's validators
    Workers,        \* artifact publication workers
    Items,          \* artifact_publication_work_items in created_at order
    Proofs,         \* the verified domain proofs of each issuer at the start
    BatchSize,      \* batch_size of a worker (50 in the code)
    MaxRuns,        \* bound: authority publications per issuer
    MaxFaults       \* bound: failed writes and crashes

\* occurred: occurred_at of the item. sound: its row can be decoded. rules: the
\* approved destinations of a policy.
Rule == [expected : Seq(STRING), hosts : SUBSET Seq(STRING), subdomains : BOOLEAN]

ProofRecord == [domain : Seq(STRING), status : ProofStatuses, expires : Nat]

ItemRecord ==
    [issuer : Issuers, kind : {"issuer", "policy"}, version : Nat,
     occurred : Nat, sound : BOOLEAN, rules : Seq(Rule)]

ASSUME ItemsAssumption == Items \in Seq(ItemRecord)
ASSUME IssuersAssumption ==
    /\ Decodable \subseteq Issuers
    /\ Issuers \intersect Workers = {}
    /\ Proofs \in [Issuers -> SUBSET ProofRecord]
\* loadRuntimeConfig refuses to start a worker with anything else.
RuntimeConfig == BatchSize \in Nat \ {0}

ASSUME BoundsAssumption == RuntimeConfig /\ MaxRuns \in Nat /\ MaxFaults \in Nat

VARIABLES
    active,    \* issuers whose enrollment, certificate and policy are active
    proofs,    \* issuer_domain_proofs of each issuer
    work,      \* work_status of every item, and whether its claim has run out
    store,     \* published_artifacts: a set of bodies, one per artifact id
    outbox,    \* bodies whose event is enqueued
    worker,    \* what each worker is doing with its batch
    bundle,    \* each authority publication in progress
    completed, \* history: bundles published to the end
    faults

envVars == <<active, proofs>>
vars == <<active, proofs, work, store, outbox, worker, bundle, completed, faults>>

ItemIds == DOMAIN Items

Idle == [pc |-> "idle", batch |-> <<>>, ok |-> {}, bad |-> {}]
NoBundle == [step |-> 0, put |-> FALSE, run |-> 0]

Init ==
    /\ active = Issuers /\ proofs = Proofs
    /\ work = [k \in ItemIds |-> [status |-> "pending", lapsed |-> FALSE]]
    /\ store = {} /\ outbox = {}
    /\ worker = [w \in Workers |-> Idle]
    /\ bundle = [i \in Issuers |-> NoBundle]
    /\ completed = {}
    /\ faults = 0

-----------------------------------------------------------------------------
(* Artifacts *)

\* governanceArtifactIds: the manifests of a program have one id each, whoever
\* they are published for; records and policies are per issuer.
ArtifactId(b) == IF b.kind \in {"root", "authority"} THEN <<b.kind>> ELSE <<b.kind, b.issuer>>

\* rootManifestBodyFromRow lists the bundle's authority.
RootManifestBody(i, n) ==
    [kind |-> "root", issuer |-> i, version |-> 1, at |-> n, lists |-> {"authority"}]

\* delegatedAuthorityManifestBodyFromRow lists the bundle's issuer.
DelegatedAuthorityManifestBody(i, n) ==
    [kind |-> "authority", issuer |-> i, version |-> 1, at |-> n, lists |-> {i}]

IssuerRecordBody(i, n) ==
    [kind |-> "issuer", issuer |-> i, version |-> 1, at |-> n, lists |-> {}]

DestinationPolicyBody(i, n) ==
    [kind |-> "policy", issuer |-> i, version |-> 1, at |-> n, lists |-> {}]

\* planGovernancePublicationFromPostgresRow: the four artifacts, in order.
Plan(i, n) ==
    <<RootManifestBody(i, n), DelegatedAuthorityManifestBody(i, n),
      IssuerRecordBody(i, n), DestinationPolicyBody(i, n)>>

\* decodePostgresArtifactPublicationWorkItemRows: the body a work item carries.
ItemBody(k) ==
    [kind |-> Items[k].kind, issuer |-> Items[k].issuer, version |-> Items[k].version,
     at |-> Items[k].occurred, lists |-> {}]

\* store.put: the row with the artifact's id is overwritten.
Put(b) == store' = {c \in store : ArtifactId(c) # ArtifactId(b)} \union {b}

\* eventBus.publish: the event id is a hash of the artifact, a second insert of
\* it does nothing.
Announce(b) == outbox' = outbox \union {b}

-----------------------------------------------------------------------------
(* The authority publication service *)

\* governancePublicationBundleByPolicyCommand: every row of the chain is active.
BundleActive(i) == i \in active

\* The row passes the decoders of the source.
BundleRowDecodes(i) == i \in Decodable

\* destinationRuleFromUnknown and its validators accept the policy's rules.
BundleRulesValid(i) == i \in Decodable

\* planGovernancePublication, then signing of the four bodies.
StartBundle(i) ==
    /\ bundle[i].step = 0 /\ bundle[i].run < MaxRuns
    /\ BundleActive(i) /\ BundleRowDecodes(i) /\ BundleRulesValid(i)
    /\ bundle' = [bundle EXCEPT ![i].step = 1, ![i].run = @ + 1]
    /\ UNCHANGED <<envVars, work, store, outbox, worker, completed, faults>>

\* publishArtifact of the bundle's current artifact, first the store ...
PutBundle(i) ==
    /\ bundle[i].step > 0 /\ ~bundle[i].put
    /\ Put(Plan(i, bundle[i].run)[bundle[i].step])
    /\ bundle' = [bundle EXCEPT ![i].put = TRUE]
    /\ UNCHANGED <<envVars, work, outbox, worker, completed, faults>>

\* Mutant: only the last artifact of the bundle is announced.
AnnounceBundleAtEnd(i) ==
    /\ bundle[i].put
    /\ IF bundle[i].step < 4
         THEN /\ bundle' = [bundle EXCEPT ![i].step = @ + 1, ![i].put = FALSE]
              /\ UNCHANGED <<outbox, completed>>
         ELSE /\ Announce(Plan(i, bundle[i].run)[bundle[i].step])
              /\ bundle' = [bundle EXCEPT ![i].step = 0, ![i].put = FALSE]
              /\ completed' = completed \union {i}
    /\ UNCHANGED <<envVars, work, store, worker, faults>>

\* ... then the event; after the fourth the report is returned.
AnnounceBundle(i) ==
    /\ bundle[i].put
    /\ Announce(Plan(i, bundle[i].run)[bundle[i].step])
    /\ IF bundle[i].step < 4
         THEN /\ bundle' = [bundle EXCEPT ![i].step = @ + 1, ![i].put = FALSE]
              /\ completed' = completed
         ELSE /\ bundle' = [bundle EXCEPT ![i].step = 0, ![i].put = FALSE]
              /\ completed' = completed \union {i}
    /\ UNCHANGED <<envVars, work, store, worker, faults>>

\* A step fails or the process dies: nothing is undone.
AbortBundle(i) ==
    /\ bundle[i].step > 0
    /\ faults < MaxFaults /\ faults' = faults + 1
    /\ bundle' = [bundle EXCEPT ![i].step = 0, ![i].put = FALSE]
    /\ UNCHANGED <<envVars, work, store, outbox, worker, completed>>

-----------------------------------------------------------------------------
(* The artifact publication queue *)

\* Pending, or claimed under a lease that has run out.
Claimable(k) ==
    \/ work[k].status = "pending"
    \/ work[k].status = "processing" /\ work[k].lapsed

\* order by created_at limit batch_size
NextRows ==
    {k \in ItemIds : Claimable(k) /\
        Cardinality({j \in ItemIds : j < k /\ Claimable(j)}) < BatchSize}

\* The claim commits. When one of its rows cannot be decoded the pass fails with
\* the whole batch claimed.
Claim(w) ==
    /\ worker[w].pc = "idle" /\ NextRows # {}
    /\ work' = [k \in ItemIds |-> IF k \in NextRows
                  THEN [status |-> "processing", lapsed |-> FALSE] ELSE work[k]]
    /\ worker' = IF \A k \in NextRows : Items[k].sound
                   THEN [worker EXCEPT ![w] = [Idle EXCEPT !.pc = "next",
                            !.batch = SelectSeq([k \in ItemIds |-> k], LAMBDA k : k \in NextRows)]]
                   ELSE worker
    /\ UNCHANGED <<envVars, store, outbox, bundle, completed, faults>>

\* requireSingleIssuerEnrollment: the issuer's row and its enrollment_status.
EnrollmentActive(i) == i \in active

\* destinationPolicyProjectionFromArtifactPublicationInput
PolicyProjection(k) == Items[k].rules

\* validateDestinationPolicyProjection: URLs and hosts are well formed.
PolicyProjectionValid(rules) ==
    \A n \in DOMAIN rules : \A h \in DestinationHostCandidates(rules[n]) : IsDnsHostname(h)

\* decodePostgresDomainProofRows: one row that does not decode fails the gate.
DomainProofRowsDecode(i) == i \in Decodable

\* resolveDestinationPolicyContext reads enrollment and proofs as they are now;
\* the gate judges them at the time the item occurred.
GatePublishable(k) ==
    /\ DomainProofRowsDecode(Items[k].issuer)
    /\ PolicyProjectionValid(PolicyProjection(k))
    /\ EvaluatePublicationGate(EnrollmentActive(Items[k].issuer), PolicyProjection(k),
                               proofs[Items[k].issuer], Items[k].occurred)

\* Items other than policies pass the gate unseen.
Publishable(k) == Items[k].kind = "policy" => GatePublishable(k)

Current(w) == Head(worker[w].batch)

\* publishArtifact of the next item of the batch: gate ...
PassGate(w) ==
    /\ worker[w].pc = "next" /\ worker[w].batch # <<>>
    /\ worker' = IF Publishable(Current(w))
                   THEN [worker EXCEPT ![w].pc = "put"]
                   ELSE [worker EXCEPT ![w].batch = Tail(@), ![w].bad = @ \union {Current(w)}]
    /\ UNCHANGED <<envVars, work, store, outbox, bundle, completed, faults>>

\* ... store ...
PutItem(w) ==
    /\ worker[w].pc = "put"
    /\ Put(ItemBody(Current(w)))
    /\ worker' = [worker EXCEPT ![w].pc = "announce"]
    /\ UNCHANGED <<envVars, work, outbox, bundle, completed, faults>>

\* ... and event.
AnnounceItem(w) ==
    /\ worker[w].pc = "announce"
    /\ Announce(ItemBody(Current(w)))
    /\ worker' = [worker EXCEPT ![w].pc = "next", ![w].batch = Tail(@),
                                ![w].ok = @ \union {Current(w)}]
    /\ UNCHANGED <<envVars, work, store, bundle, completed, faults>>

\* Mutant: a failed write is counted as a success.
FailItemSilently(w) ==
    /\ worker[w].pc \in {"put", "announce"}
    /\ faults < MaxFaults /\ faults' = faults + 1
    /\ worker' = [worker EXCEPT ![w].pc = "next", ![w].batch = Tail(@),
                                ![w].ok = @ \union {Current(w)}]
    /\ UNCHANGED <<envVars, work, store, outbox, bundle, completed>>

\* One of the two writes fails: Effect.either turns it into a failure.
FailItem(w) ==
    /\ worker[w].pc \in {"put", "announce"}
    /\ faults < MaxFaults /\ faults' = faults + 1
    /\ worker' = [worker EXCEPT ![w].pc = "next", ![w].batch = Tail(@),
                                ![w].bad = @ \union {Current(w)}]
    /\ UNCHANGED <<envVars, work, store, outbox, bundle, completed>>

\* The marks find their rows by id, whoever holds the claim by then.
SetStatus(ks, s) ==
    work' = [k \in ItemIds |-> IF k \in ks THEN [status |-> s, lapsed |-> FALSE] ELSE work[k]]

MarkCompleted(w) ==
    /\ worker[w].pc = "next" /\ worker[w].batch = <<>>
    /\ SetStatus(worker[w].ok, "completed")
    /\ worker' = [worker EXCEPT ![w].pc = "mark"]
    /\ UNCHANGED <<envVars, store, outbox, bundle, completed, faults>>

MarkFailed(w) ==
    /\ worker[w].pc = "mark"
    /\ SetStatus(worker[w].bad, "failed")
    /\ worker' = [worker EXCEPT ![w] = Idle]
    /\ UNCHANGED <<envVars, store, outbox, bundle, completed, faults>>

\* The process dies, or a mark fails and ends the supervisor; it is restarted.
Crash(w) ==
    /\ worker[w].pc # "idle"
    /\ faults < MaxFaults /\ faults' = faults + 1
    /\ worker' = [worker EXCEPT ![w] = Idle]
    /\ UNCHANGED <<envVars, work, store, outbox, bundle, completed>>

-----------------------------------------------------------------------------
\* Governance suspends an issuer or revokes one of its domain proofs.
Govern(i) ==
    /\ \/ i \in active /\ active' = active \ {i} /\ proofs' = proofs
       \/ \E p \in proofs[i] :
             /\ p.status # "revoked"
             /\ proofs' = [proofs EXCEPT ![i] = (@ \ {p}) \union {[p EXCEPT !.status = "revoked"]}]
             /\ active' = active
    /\ UNCHANGED <<work, store, outbox, worker, bundle, completed, faults>>

\* claim_expires_at passes, whether the claim's worker still runs or not.
Lapse(k) ==
    /\ work[k].status = "processing" /\ ~work[k].lapsed
    /\ work' = [work EXCEPT ![k].lapsed = TRUE]
    /\ UNCHANGED <<envVars, store, outbox, worker, bundle, completed, faults>>

WorkerStep(w) ==
    \/ Claim(w) \/ PassGate(w) \/ PutItem(w) \/ AnnounceItem(w)
    \/ MarkCompleted(w) \/ MarkFailed(w)

Next ==
    \/ \E i \in Issuers : StartBundle(i) \/ PutBundle(i) \/ AnnounceBundle(i)
                            \/ AbortBundle(i) \/ Govern(i)
    \/ \E w \in Workers : WorkerStep(w) \/ FailItem(w) \/ Crash(w)
    \/ \E k \in ItemIds : Lapse(k)

Spec == Init /\ [][Next]_vars

-----------------------------------------------------------------------------
Bodies == [kind : {"root", "authority", "issuer", "policy"}, issuer : Issuers,
           version : Nat, at : Nat, lists : SUBSET (Issuers \union {"authority"})]

TypeOK ==
    /\ faults \in 0 .. MaxFaults
    /\ active \subseteq Issuers /\ completed \subseteq Issuers
    /\ work \in [ItemIds -> [status : {"pending", "processing", "completed", "failed"},
                             lapsed : BOOLEAN]]
    /\ store \subseteq Bodies /\ outbox \subseteq Bodies
    /\ \A b, c \in store : ArtifactId(b) = ArtifactId(c) => b = c
    /\ \A w \in Workers :
          /\ worker[w].pc \in {"idle", "next", "put", "announce", "mark"}
          /\ worker[w].batch \in Seq(ItemIds)
          /\ worker[w].ok \subseteq ItemIds /\ worker[w].bad \subseteq ItemIds
          /\ worker[w].pc \in {"put", "announce"} => worker[w].batch # <<>>
    /\ bundle \in [Issuers -> [step : 0 .. 4, put : BOOLEAN, run : 0 .. MaxRuns]]
    /\ \A i \in Issuers : bundle[i].put => bundle[i].step > 0

\* A completed work item names an artifact whose event is in the outbox,
\* although its two writes are not one transaction, a claim may be processed by
\* two workers and marks are not fenced.
CompletedIsAnnounced ==
    \A k \in ItemIds : work[k].status = "completed" => ItemBody(k) \in outbox

\* Publishers between their two writes.
InFlight ==
    {i \in Issuers : bundle[i].put} \union {w \in Workers : worker[w].pc = "announce"}

\* store.put and eventBus.publish are two writes and nothing repairs a publisher
\* that stops between them: the artifact is served without ever being announced.
\* That happens at most once per failure, whatever the publishers overwrite of
\* each other's artifacts and however often an expired claim is processed again.
LossesAreFaults ==
    Cardinality(store \ outbox) <= Cardinality(InFlight) + faults

\* A policy passes the gate only while every host it lists is under its issuer's
\* control. A host whose own proofs are revoked, expired or pending is not carried
\* by the verified proof of a parent domain, whichever of the policy's rules the
\* host matches first: only a new proof of the host itself brings it back.
GateRespectsRevocation ==
    [][\A w \in Workers :
          worker[w].pc = "next" /\ worker'[w].pc = "put" /\ Items[Current(w)].kind = "policy" =>
             \A n \in DOMAIN Items[Current(w)].rules :
                \A h \in DestinationHostCandidates(Items[Current(w)].rules[n]) :
                   LET own == {p \in proofs[Items[Current(w)].issuer] : p.domain = h}
                   IN  own # {} => \E p \in own : p.status = "verified"]_vars

\* "Postgres remains the authority; publication workers and NATS still only
\* transport the resulting artifacts" (docs/public/network-contracts/README.md):
\* an issuer that is active in Postgres and was published to the end is listed by
\* the authority manifest verifiers read, once nothing is being published.
PublishedIssuerStaysListed ==
    \A i \in Issuers :
        i \in completed /\ i \in active /\ (\A j \in Issuers : bundle[j].step = 0) =>
            \E b \in store : b.kind = "authority" /\ i \in b.lists
=============================================================================
