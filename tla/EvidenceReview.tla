---------------------------- MODULE EvidenceReview ----------------------------
(***************************************************************************)
(* The evidence programs: each reads its input files, derives a report and *)
(* writes it, or throws and writes nothing. Operators edit the inputs and  *)
(* run the programs in any order, so a report on disk may be older than    *)
(* the inputs of the program that reads it next.                           *)
(***************************************************************************)
EXTENDS ProductionEvidence, EvidencePackets

CONSTANTS
    RequirementDocs, IndexDocs,     \* what operators may put in those two files
    PacketDocs,                     \* packets of a readiness bundle: a record of the six
    SettingDocs,                    \* the readiness environment: mode, present, refs
    ClaimDocs,                      \* the adoption environment: mode, required, present, refs
    ReviewStart,                          \* the inputs operators start from
    MaxReviewEdits                        \* bound: edits of the inputs

ASSUME DocsAssumption ==
    /\ RequirementDocs \subseteq Requirements /\ RequirementDocs # {}
    /\ IndexDocs \subseteq Index /\ IndexDocs # {}
    /\ \A s \in SettingDocs : s.mode \in {"reference", "production"}
    /\ ReviewStart # {} /\ ReviewStart \subseteq
            [requirements : RequirementDocs, index : IndexDocs, packets : PacketDocs,
             settings : SettingDocs, claim : ClaimDocs]
ASSUME BoundAssumption == MaxReviewEdits \in Nat

VARIABLES
    inputs,     \* the files operators edit
    template, gap, intake, closure, validation,     \* production evidence reports
    report, bundle, adoption, handoff,              \* readiness, adoption, handoff
    reviewEdits

reviewVars == <<inputs, template, gap, intake, closure, validation, report, bundle, adoption,
          handoff, reviewEdits>>

NotWritten == [status |-> "no file"]
OnDisk(doc) == doc # NotWritten

ReviewInit ==
    /\ inputs \in ReviewStart
    /\ template = NotWritten /\ gap = NotWritten /\ intake = NotWritten /\ closure = NotWritten /\ validation = NotWritten
    /\ report = NotWritten /\ bundle = NotWritten /\ adoption = NotWritten /\ handoff = NotWritten
    /\ reviewEdits = 0

EditTo(docs) ==
    /\ reviewEdits < MaxReviewEdits /\ reviewEdits' = reviewEdits + 1
    /\ inputs' \in docs /\ inputs' # inputs
    /\ UNCHANGED <<template, gap, intake, closure, validation, report, bundle, adoption,
                   handoff>>

\* An operator edits one of the input files, or the environment a program reads.
EditInputs ==
    EditTo({[inputs EXCEPT !.requirements = r] : r \in RequirementDocs}
           \union {[inputs EXCEPT !.index = i] : i \in IndexDocs}
           \union {[inputs EXCEPT !.packets = p] : p \in PacketDocs}
           \union {[inputs EXCEPT !.settings = s] : s \in SettingDocs}
           \union {[inputs EXCEPT !.claim = c] : c \in ClaimDocs})

-----------------------------------------------------------------------------
\* production-evidence-collection-template
WriteTemplate ==
    /\ CanMakeTemplate(inputs.requirements)
    /\ template' = MakeTemplate("collection", inputs.requirements)
    /\ UNCHANGED <<inputs, gap, intake, closure, validation, report, bundle, adoption, handoff,
                   reviewEdits>>

\* production-evidence-gap-report
WriteGap ==
    /\ CanMakeGap(inputs.requirements, inputs.index)
    /\ gap' = MakeGap(inputs.requirements, inputs.index)
    /\ UNCHANGED <<inputs, template, intake, closure, validation, report, bundle, adoption,
                   handoff, reviewEdits>>

\* production-evidence-intake
WriteIntake ==
    /\ OnDisk(template) /\ OnDisk(gap)
    /\ CanMakeIntake(inputs.requirements, inputs.index, template, gap)
    /\ intake' = MakeIntake(inputs.requirements, inputs.index, template, gap)
    /\ UNCHANGED <<inputs, template, gap, closure, validation, report, bundle, adoption, handoff,
                   reviewEdits>>

\* production-evidence-closure-bundle
WriteClosure ==
    /\ OnDisk(template) /\ OnDisk(gap) /\ OnDisk(intake)
    /\ CanMakeClosure(inputs.requirements, template, gap, intake)
    /\ closure' = MakeClosure(inputs.requirements, template, gap, intake)
    /\ UNCHANGED <<inputs, template, gap, intake, validation, report, bundle, adoption, handoff,
                   reviewEdits>>

\* production-evidence-private-index-check
WriteValidation ==
    /\ CanMakeTemplate(inputs.requirements) /\ CanMakeGap(inputs.requirements, inputs.index)
    /\ validation' = MakePrivateValidation(inputs.requirements, inputs.index)
    /\ UNCHANGED <<inputs, template, gap, intake, closure, report, bundle, adoption, handoff,
                   reviewEdits>>

-----------------------------------------------------------------------------
\* deployment-readiness-report, readConfigFromEnv
WriteReport ==
    /\ report' = MakeReadiness(inputs.settings.mode, inputs.settings.present, inputs.settings.refs)
    /\ UNCHANGED <<inputs, template, gap, intake, closure, validation, bundle, adoption, handoff,
                   reviewEdits>>

\* assertRoleSpecificContent of every file of the bundle
PacketsHold(packets, idx) ==
    /\ AssertScannerFleet(packets.fleet) /\ AssertCrossSurface(packets.surfaces)
    /\ AssertWorkerOperations(packets.workers) /\ AssertRestoreAutomation(packets.restore)
    /\ AssertPackagedDeployment(packets.deployment)
    /\ AssertIndex(idx)
    /\ AssertCustodyAudit(packets.audit) /\ AssertWorkerOutcomes(packets.audit)

\* deployment-readiness-bundle: the report is the file on disk; the packets and the
\* evidence map are the ones of now.
WriteBundle ==
    /\ OnDisk(report)
    /\ PacketsHold(inputs.packets, inputs.index)
    /\ EvidenceMapCovers(report, inputs.settings.refs)
    /\ bundle' = BundledReport(report)
    /\ UNCHANGED <<inputs, template, gap, intake, closure, validation, report, adoption, handoff,
                   reviewEdits>>

\* reference-network-adoption-stage, readConfigFromEnv: the index is read when the
\* environment names it.
WriteAdoption ==
    LET claim == inputs.claim
        gate == MakeAdoption(claim.mode, claim.required, claim.present, claim.refs)
    IN  /\ AssertAdoption(gate)
        /\ claim.withIndex => /\ AssertIndex(inputs.index)
                              /\ AdoptionCovered(gate, CollectRefs(inputs.index))
        /\ adoption' = gate
        /\ UNCHANGED <<inputs, template, gap, intake, closure, validation, report, bundle,
                       handoff, reviewEdits>>

\* assertCompatibleClaims
CompatibleClaims(gate, ready) ==
    /\ gate.mode = "production_candidate" => ready.mode = "production"
    /\ gate.status = "ready_for_production_candidate" => ready.status = "ready_for_production_drill"

\* validateHandoffFileContent
HandoffFilesHold ==
    /\ AssertIndex(inputs.index) /\ inputs.index.mode = "production_candidate"
    /\ AssertRequirements(inputs.requirements) /\ AssertTemplate(template) /\ AssertGap(gap)

\* assertProductionEvidenceHandoffConsistency
HandoffConsistent ==
    /\ TemplateMatches(template, inputs.requirements)
    /\ GapMatches(gap, inputs.requirements, inputs.index)

\* reference-network-handoff-bundle. The boundaries are in the adoption report, which
\* the bundle names by its fingerprint.
WriteHandoff ==
    /\ OnDisk(adoption) /\ OnDisk(bundle) /\ OnDisk(report) /\ OnDisk(template) /\ OnDisk(gap)
    /\ CompatibleClaims(adoption, bundle)
    /\ HandoffFilesHold /\ HandoffConsistent
    /\ handoff' = [status |-> adoption.status, mode |-> adoption.mode,
                   blocking |-> adoption.blocking, warning |-> adoption.warning,
                   boundaries |-> adoption.boundaries, readiness |-> bundle,
                   gapStatus |-> gap.status]
    /\ UNCHANGED <<inputs, template, gap, intake, closure, validation, report, bundle, adoption,
                   reviewEdits>>

ReviewNext ==
    \/ EditInputs
    \/ WriteTemplate \/ WriteGap \/ WriteIntake \/ WriteClosure \/ WriteValidation
    \/ WriteReport \/ WriteBundle \/ WriteAdoption \/ WriteHandoff

ReviewSpec == ReviewInit /\ [][ReviewNext]_reviewVars

-----------------------------------------------------------------------------
\* What the index really offers for a control: distinct refs under ops://qrtrust/ that
\* the required role reviewed and that are not copied from the template.
Backing(req, idx, c) ==
    LET refs == idx.controls[c].refs
    IN  {refs[i].uri : i \in {j \in DOMAIN refs :
            /\ refs[j].scheme = "ops" /\ ~refs[j].placeholder
            /\ refs[j].role = req.controls[c].role}}

\* Every requirement is backed, and no ref backs two controls.
Backed(req, idx) ==
    /\ \A c \in Controls : Cardinality(Backing(req, idx, c)) >= req.controls[c].min
    /\ \A c, d \in Controls : c # d => Backing(req, idx, c) \cap Backing(req, idx, d) = {}

\* An intake or a private validation that is accepted for review was made from
\* requirements that the index of that moment meets with distinct, reviewed, real refs
\* of its own for every control, however old the reports on disk are. The gap report
\* counts a ref that is listed twice as two; the duplicate findings make up for it.
AcceptedIsBacked ==
    [][/\ intake' # intake /\ intake'.status = "accepted_for_review" =>
            Backed(inputs.requirements, inputs.index)
       /\ validation' # validation /\ validation'.status = "ready_for_human_review" =>
            Backed(inputs.requirements, inputs.index)]_reviewVars

\* The boundary holds and only refs of the operator's own store back it.
OperatorBacked(boundary) ==
    /\ boundary.status = "pass"
    /\ boundary.refs # {} /\ \A ref \in boundary.refs : ref.scheme = "ops"

\* A handoff that calls the network ready for a production candidate rests on a bundle
\* that is ready for the production drill with no check blocked or warned about, and
\* on a claim in which every boundary is present and backed by operator refs alone:
\* none is listed as blocking or as a warning, and none passes without evidence or on
\* evidence of the reference network. The claim and the bundle are files that were
\* written earlier, in either order, and the handoff reads neither the claim's
\* boundaries nor the bundle's checks again.
ReadyHandoffIsProduction ==
    handoff.status = "ready_for_production_candidate" =>
        /\ handoff.mode = "production_candidate"
        /\ handoff.blocking = {} /\ handoff.warning = {}
        /\ \A b \in DOMAIN handoff.boundaries : OperatorBacked(handoff.boundaries[b])
        /\ handoff.readiness.status = "ready_for_production_drill"
        /\ handoff.readiness.blocking = {} /\ handoff.readiness.warning = {}

=============================================================================
