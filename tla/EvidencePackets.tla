--------------------------- MODULE EvidencePackets ---------------------------
(***************************************************************************)
(* The evidence packets of a deployment readiness bundle, the readiness    *)
(* report and the adoption stage gate. Assert... operators say when the    *)
(* assertion of that name does not throw.                                  *)
(*                                                                         *)
(* The texts, dates, hashes and names a packet must carry are one flag     *)
(* each: guardrails (all of them are true), reviewed (a reviewer and a     *)
(* date), clean (no marker of private material), formed (the rest).        *)
(***************************************************************************)
EXTENDS Naturals, Sequences, FiniteSets

Envelope(p) ==
    /\ p.mode \in {"reference_drill", "production_candidate"}
    /\ p.guardrails /\ p.reviewed /\ p.clean /\ p.formed

\* assertPathRef, assertSafeRef and assertOpsRef of the packets
SafeRef(scheme, mode) ==
    /\ scheme \in {"repo", "ops"}
    /\ mode = "production_candidate" => scheme = "ops"

-----------------------------------------------------------------------------
\* Worker operations: for each worker its status and the boundary it claims, the
\* workers that have a replay drill and the component of each signal.
Workers ==
    {"artifact_publication_worker", "event_outbox_worker",
     "verifier_cache_read_model_worker", "scanner_decision_runtime"}

ExpectedBoundary ==
    [w \in Workers |->
        CASE w = "artifact_publication_worker" -> "postgres_source_of_truth"
          [] w = "event_outbox_worker" -> "nats_propagation_only"
          [] w = "verifier_cache_read_model_worker" -> "derived_read_model"
          [] w = "scanner_decision_runtime" -> "scanner_decision_runtime"]

\* assertComponent: every path ref of this packet stays in the repository.
AssertComponent(component, worker, mode) ==
    /\ component.boundary = ExpectedBoundary[worker]
    /\ component.ref = "repo"
    /\ IF mode = "production_candidate" THEN component.status = "production_ready"
       ELSE component.status # "blocked"

\* assertWorkerOperationsEvidencePacket
AssertWorkerOperations(p) ==
    /\ Envelope(p)
    /\ p.staleAfter >= 1 /\ p.maxLag >= 1
    /\ \A w \in Workers : AssertComponent(p.components[w], w, p.mode)
    /\ p.drilled = Workers
    /\ p.signals = Workers

\* Restore automation. assertDrill, assertBackupArtifact, assertRecoveryObjective
Drills ==
    {"scheduled_backup_created", "scratch_restore_completed",
     "migration_rollback_rehearsed", "operator_failover_handoff"}

AssertDrill(drill, mode) ==
    /\ drill.status = "passed"
    /\ drill.completed >= drill.started /\ drill.command \in {"repo", "ops"}
    /\ drill.refs # {} /\ \A ref \in drill.refs : SafeRef(ref, mode)

\* assertRestoreAutomationEvidencePacket
AssertRestoreAutomation(p) ==
    /\ Envelope(p)
    /\ SafeRef(p.storage, p.mode) /\ SafeRef(p.escalation, p.mode)
    /\ p.rpo >= 1 /\ p.rto >= 1
    /\ \A d \in Drills : AssertDrill(p.drills[d], p.mode)

\* assertPackagedDeploymentApprovalEvidencePacket: refs are those of the artifact,
\* the environment, the gates, the approvals and the rollback plan.
AssertPackagedDeployment(p) ==
    /\ Envelope(p)
    /\ \A ref \in p.refs : SafeRef(ref, p.mode)
    /\ p.stage \in {"reference_lab", "staging_candidate", "production_candidate"}
    /\ p.mode = "production_candidate" => p.stage = "production_candidate"
    /\ \A gate \in DOMAIN p.gates : p.gates[gate] = "passed"
    /\ \A role \in DOMAIN p.approvals : p.approvals[role] = "approved"

-----------------------------------------------------------------------------
\* Scanner fleet: what each fixture of the matrix expects, and a row for each scan.
Fixture(color, state) == [color |-> color, state |-> state]

\* SCANNER_FLEET_REQUIRED_FIXTURES
RequiredFixtures ==
    [green_verified_issuer |-> Fixture("green", "verified_issuer"),
     red_expired_qr |-> Fixture("red", "expired"),
     red_destination_mismatch |-> Fixture("red", "destination_policy_mismatch"),
     red_resolver_final_target_mismatch |-> Fixture("red", "resolver_final_target_mismatch"),
     orange_plain_url_unrecognized |-> Fixture("orange", "plain_url_unrecognized"),
     orange_verifier_unavailable_visible_destination |->
        Fixture("orange", "verifier_unavailable_visible_destination"),
     orange_stale_verifier_profile |-> Fixture("orange", "profile_stale"),
     red_revoked_verifier_profile |-> Fixture("red", "profile_revoked")]

DestinationNotEvaluated ==
    {"expired", "stale_trust_state", "profile_revoked", "plain_url_unrecognized",
     "verifier_unavailable_visible_destination"}

\* assertScannerFleetEvidencePacket: the hold and the opened links of a row
OpenedSafely(row) ==
    /\ row.color # "green" => row.hold
    /\ row.opened /\ row.hold => row.held
    /\ row.color = "red" => ~row.opened

\* ScannerFleetEvidenceArtifactKind, and the extension assertEvidenceRef asks for. A
\* path outside the evidence directory has no extension here.
ArtifactKinds == {"screenshot", "history_entry", "accessibility"}
Extension(kind) == IF kind = "accessibility" THEN "txt" ELSE "png"

\* Mutant: the set of paths is a new one for every row.
UniqueInRow(rows) ==
    \A i \in DOMAIN rows, k, l \in ArtifactKinds : rows[i].refs[k] = rows[i].refs[l] => k = l

\* assertUniqueArtifactRef: no path is named twice, in a row or in two of them.
UniqueArtifacts(rows) ==
    \A i, j \in DOMAIN rows, k, l \in ArtifactKinds :
        rows[i].refs[k] = rows[j].refs[l] => i = j /\ k = l

\* assertScannerFleetEvidencePacket. The matrix is the packet's own: only the names
\* of its fixtures are compared with the required ones.
AssertScannerFleet(p) ==
    /\ p.redacted /\ p.reviewed
    /\ \A f \in DOMAIN RequiredFixtures :
        f \in DOMAIN p.matrix /\ \E i \in DOMAIN p.rows : p.rows[i].fixture = f
    /\ \A i \in DOMAIN p.rows :
        LET row == p.rows[i]
        IN  /\ row.fixture \in DOMAIN p.matrix
            /\ row.reasons # {}
            /\ ~(row.state \in DestinationNotEvaluated /\ "destination_bound" \in row.reasons)
            /\ \A k \in ArtifactKinds : row.refs[k].ext = Extension(k)
            /\ row.profile = p.profile
            /\ row.color = p.matrix[row.fixture].color /\ row.state = p.matrix[row.fixture].state
            /\ OpenedSafely(row)
    /\ UniqueArtifacts(p.rows)

\* assertCrossSurfaceQrEvidencePacket: every surface shows the final decision of the
\* same artifact, each with a proof of its own.
AssertCrossSurface(p) ==
    /\ p.redacted /\ p.reviewed /\ p.reasons # {}
    /\ \A s \in DOMAIN p.surfaces :
        LET row == p.surfaces[s]
        IN  /\ row.artifact = p.artifact
            /\ row.color = p.color /\ row.state = p.state
            /\ row.reasons # {}
            /\ \A u \in DOMAIN p.surfaces : u # s => p.surfaces[u].proof # row.proof

-----------------------------------------------------------------------------
\* summarizeSigningCustodyAuditEntries
CustodySummary(entries) ==
    [result \in {"published", "rejected", "failed", "pending"} |->
        Cardinality({entry \in entries : entry.result = result})]

\* makeSigningCustodyPublicationAuditExport: one entry for each outcome of the
\* publication worker's report; a failure's reason becomes its reason code.
CustodyAuditExport(report, scope, provider) ==
    LET entries == {[item |-> o.item, root |-> o.root, result |-> o.result, provider |-> provider,
                     reasons |-> IF o.result = "failed" THEN {"publication_failed"} ELSE {}] :
                        o \in report}
    IN  [scope |-> scope, entries |-> entries, summary |-> CustodySummary(entries)]

\* assertSigningCustodyAuditExport
AssertCustodyAudit(x) ==
    /\ x.entries # {} /\ x.summary = CustodySummary(x.entries)
    /\ \A entry \in x.entries :
        /\ entry.root = x.scope
        /\ entry.provider \in {"managed", "managed-publication-worker"}
    /\ \A e1, e2 \in x.entries : e1.item = e2.item /\ e1.result = e2.result => e1 = e2

\* assertPublicationWorkerOutcomeEvidence
AssertWorkerOutcomes(x) ==
    LET failed == {entry \in x.entries : entry.result = "failed"}
    IN  /\ failed # {} /\ \A entry \in failed : entry.reasons # {}
        /\ \E entry \in x.entries : entry.provider = "managed-publication-worker"
-----------------------------------------------------------------------------
\* productionRequiredCheck: present and, in production, with evidence refs
ReadinessCheck(mode, present, refs) ==
    IF mode = "production" THEN IF present /\ refs > 0 THEN "pass" ELSE "block"
    ELSE IF present THEN "pass" ELSE "warn"

\* makeDeploymentReadinessReport, statusFor: present are the checks the environment
\* configures, refs the number of refs the evidence map has for a check. Scanner
\* decision persistence counts as present in reference mode unless it is turned off.
MakeReadiness(mode, present, refs) ==
    LET checks == [k \in DOMAIN refs |-> ReadinessCheck(mode, k \in present, refs[k])]
        blocking == {k \in DOMAIN refs : checks[k] = "block"}
    IN  [mode |-> mode, checks |-> checks, blocking |-> blocking,
         warning |-> {k \in DOMAIN refs : checks[k] = "warn"},
         status |-> CASE mode = "reference" -> "ready_for_reference_drill"
                      [] mode = "production" /\ blocking # {} -> "blocked_for_production"
                      [] OTHER -> "ready_for_production_drill"]

\* assertProductionEvidenceMapCoverage: the map at hand now. A check without refs is
\* not in the map; an empty list is malformed, which is the same to this assertion.
EvidenceMapCovers(report, refs) ==
    report.status = "ready_for_production_drill" =>
        \A k \in DOMAIN report.checks : report.checks[k] = "pass" => refs[k] > 0

\* The bundle's report part (makeDeploymentReadinessBundle)
BundledReport(report) ==
    [mode |-> report.mode, status |-> report.status, blocking |-> report.blocking,
     warning |-> report.warning]

-----------------------------------------------------------------------------
\* evidenceTierFor
EvidenceTier(refs) ==
    CASE refs = {} -> "unattached"
      [] refs # {} /\ \A ref \in refs : ref.scheme = "ops" -> "operator_backed"
      [] OTHER -> "reference_backed"

\* makeBoundary: refs are attached to a boundary that passes.
MakeBoundary(present, required, production, refs) ==
    LET status == IF present THEN "pass" ELSE IF required \/ production THEN "block" ELSE "warn"
        attached == IF status = "pass" THEN refs ELSE {}
    IN  [status |-> status, refs |-> attached, tier |-> EvidenceTier(attached)]

\* statusFor of the adoption stage gate
AdoptionStatus(mode, blocking) ==
    IF mode = "production_candidate"
    THEN IF blocking # {} THEN "blocked_for_production_candidate" ELSE "ready_for_production_candidate"
    ELSE IF blocking # {} THEN "blocked_for_stage_claim" ELSE "ready_for_stage"

\* makeReferenceNetworkAdoptionStageGate
MakeAdoption(mode, required, present, refs) ==
    LET boundaries == [b \in DOMAIN refs |->
            MakeBoundary(b \in present, b \in required, mode = "production_candidate", refs[b])]
        blocking == {b \in DOMAIN refs : boundaries[b].status = "block"}
    IN  [mode |-> mode, required |-> required, boundaries |-> boundaries, blocking |-> blocking,
         warning |-> {b \in DOMAIN refs : boundaries[b].status = "warn"},
         status |-> AdoptionStatus(mode, blocking)]

\* Mutant: a production boundary passes with refs of any kind.
AssertSomeRefs(gate) ==
    /\ \A b \in DOMAIN gate.boundaries :
        LET boundary == gate.boundaries[b]
        IN  /\ boundary.status # "pass" => boundary.tier = "unattached"
            /\ gate.mode = "production_candidate" /\ boundary.status = "pass" => boundary.refs # {}
    /\ \A b \in gate.required : gate.boundaries[b].status # "warn"
    /\ gate.mode = "production_candidate" => gate.warning = {}
    /\ gate.status = AdoptionStatus(gate.mode, gate.blocking)

\* assertReferenceNetworkAdoptionStageGate: assertBoundary, assertStageStatus
AssertAdoption(gate) ==
    /\ \A b \in DOMAIN gate.boundaries :
        LET boundary == gate.boundaries[b]
        IN  /\ boundary.status # "pass" => boundary.tier = "unattached"
            /\ boundary.tier = "operator_backed" => \A ref \in boundary.refs : ref.scheme = "ops"
            /\ gate.mode = "production_candidate" /\ boundary.status = "pass" =>
                    boundary.tier = "operator_backed"
    /\ \A b \in gate.required : gate.boundaries[b].status # "warn"
    /\ gate.mode = "production_candidate" => gate.warning = {}
    /\ gate.status = AdoptionStatus(gate.mode, gate.blocking)

\* collectReferenceNetworkAdoptionEvidenceRefs,
\* assertReferenceNetworkAdoptionEvidenceCoverage
AdoptionCovered(gate, covered) ==
    gate.mode = "production_candidate" =>
        \A b \in DOMAIN gate.boundaries : \A ref \in gate.boundaries[b].refs : ref.uri \in covered

=============================================================================
