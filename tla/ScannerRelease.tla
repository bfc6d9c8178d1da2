---------------------------- MODULE ScannerRelease ----------------------------
(***************************************************************************)
(* What is collected before a scanner build is released: the verifier      *)
(* profile it is distributed, and the screenshots and accessibility traces *)
(* captured on a device. Four programs judge them: the distribution        *)
(* report, the two artifact status programs (fleet and provider) and the   *)
(* deployed scanner readiness report. The last three look at one artifact  *)
(* after another, in separate calls for its size, its content and the git  *)
(* index, while an operator imports, edits and tracks files.               *)
(*                                                                         *)
(* The programs only read the files, so one of them runs at a time.        *)
(***************************************************************************)
EXTENDS EvidencePackets

CONSTANTS
    ProfileDocs, FleetDocs, ProviderDocs,   \* what operators may put in those files
    ReleaseStart,              \* the three they start from
    FileDocs,           \* [path, file]: what an import may put at a path
    FirstFiles,         \* the evidence directory to begin with: path -> file
    Policy,             \* DEFAULT_POLICY
    Times,              \* when a profile may be observed
    MaxReleaseEdits, MaxRuns   \* bounds: edits, programs started

VARIABLES
    profile, fleet, provider,   \* the three documents
    files,          \* path -> what is there now
    tracked,        \* the paths in the git index
    run,            \* the program that looks at the artifacts, and how far it is
    distribution, fleetStatus, providerStatus, readiness,   \* the last reports
    releaseEdits, releaseRuns

docs == <<profile, fleet, provider, files, tracked>>
reports == <<distribution, fleetStatus, providerStatus, readiness>>
releaseVars == <<docs, run, reports, releaseEdits, releaseRuns>>

NoFile == [kind |-> "none"]
NoReport == [status |-> "no report"]
Idle == [program |-> "none"]

\* A date that does not parse; the others are positive.
NoDate == 0

ASSUME ReleaseAssumption ==
    /\ MaxReleaseEdits \in Nat /\ MaxRuns \in Nat
    /\ Policy.minimumHold \in Nat
    /\ ReleaseStart \in [profile : ProfileDocs, fleet : FleetDocs, provider : ProviderDocs]
    /\ \A doc \in FileDocs : doc.path \in DOMAIN FirstFiles
    /\ \A p \in FleetDocs :
        /\ Len(p.rows) \in Nat /\ DOMAIN p.rows = 1 .. Len(p.rows)
        /\ \A i \in DOMAIN p.rows : DOMAIN p.rows[i].refs = ArtifactKinds

-----------------------------------------------------------------------------
(* Verifier profile distribution *)

\* profileDistributionStatus
ProfileStatus(p, policy, now) ==
    CASE p.fingerprint \in policy.revoked -> "revoked"
      [] p.fingerprint \notin policy.revoked /\ now < p.from -> "not_yet_valid"
      [] p.fingerprint \notin policy.revoked /\ now > p.until -> "expired"
      [] OTHER -> "active"

\* assertDateTime
Dated(p, now) == NoDate \notin {now, p.from, p.until}

\* assertColorPolicy. VERIFIER_PROFILE_GREEN_CONTROLS
GreenControls == {"issuer_recognized", "destination_bound", "runtime_clear", "cache_fresh"}
AssertColorPolicy(colors) ==
    GreenControls \subseteq colors.green /\ colors.orange # {} /\ colors.red # {}

\* assertHoldPolicy. VERIFIER_PROFILE_HOLD_TRIGGERS
HoldTriggers ==
    {"decision_color_orange", "decision_color_red", "caption_domain_mismatch", "risk_score_gte_30"}
AssertHoldPolicy(hold, minimum) ==
    hold.enabled /\ hold.duration >= minimum /\ HoldTriggers \subseteq hold.triggers

\* VERIFIER_PROFILE_DISTRIBUTION_CHANNELS
Channels ==
    {"mdm", "enterprise_app_configuration", "signed_app_bundle", "signed_remote_profile",
     "browser_managed_profile", "scanner_sdk_configuration"}

\* assertBasicShape: the texts that must not be empty are one flag.
AssertBasicShape(p) == p.formed /\ p.version >= 1 /\ p.authorities # {}

\* assertVerifierProfile. An endpoint the policy does not pin is any endpoint.
AssertVerifierProfile(p, policy, now) ==
    /\ AssertBasicShape(p)
    /\ Dated(p, now)
    /\ p.sha256
    /\ p.https /\ (policy.endpoint = "any" \/ p.endpoint = policy.endpoint)
    /\ p.root \in policy.roots
    /\ p.authorities \cap policy.authorities # {}
    /\ p.key \in policy.keys /\ p.ed25519
    /\ p.budget >= 1
    /\ AssertColorPolicy(p.colors)
    /\ AssertHoldPolicy(p.hold, policy.minimumHold)
    /\ p.channel \in Channels
    /\ ProfileStatus(p, policy, now) = "active"

\* makeVerifierProfileDistributionReceipt: what a scanner logs with its decisions
MakeReceipt(p, policy, now) ==
    [at |-> now, status |-> ProfileStatus(p, policy, now), fingerprint |-> p.fingerprint,
     version |-> p.version, root |-> p.root, endpoint |-> p.endpoint, key |-> p.key,
     channel |-> p.channel]

\* The seven controls a reviewer reads. Each is computed anew from the profile, apart
\* from the last, which says that the receipt was made.
ProfileScopeCheck(p, policy) ==
    p.root \in policy.roots /\ p.authorities \cap policy.authorities # {}
EndpointBindingCheck(p, policy) ==
    p.https /\ (policy.endpoint = "any" \/ p.endpoint = policy.endpoint)
SignatureBindingCheck(p, policy) == p.sha256 /\ p.key \in policy.keys /\ p.ed25519
ValidityWindowCheck(p, policy, now) ==
    Dated(p, now) /\ ProfileStatus(p, policy, now) = "active"
ColorPolicyCheck(p) ==
    GreenControls \subseteq p.colors.green /\ p.colors.orange # {} /\ p.colors.red # {}

HoldToOpenPolicyCheck(p, policy) ==
    /\ p.hold.enabled /\ p.hold.duration >= policy.minimumHold
    /\ HoldTriggers \subseteq p.hold.triggers

\* makeDistributionControlChecks
ControlChecks(p, policy, now, received) ==
    [profile_scope |-> ProfileScopeCheck(p, policy),
     endpoint_binding |-> EndpointBindingCheck(p, policy),
     signature_binding |-> SignatureBindingCheck(p, policy),
     validity_window |-> ValidityWindowCheck(p, policy, now),
     color_policy |-> ColorPolicyCheck(p),
     hold_to_open_policy |-> HoldToOpenPolicyCheck(p, policy),
     scanner_receipt_logging |-> received]

\* makeVerifierProfileDistributionReport
MakeDistributionReport(p, policy, now) ==
    LET received == AssertVerifierProfile(p, policy, now)
    IN  [status |-> IF received THEN "active" ELSE "blocked_by_profile",
         receipt |-> IF received THEN MakeReceipt(p, policy, now) ELSE NoReport,
         checks |-> ControlChecks(p, policy, now, received)]

-----------------------------------------------------------------------------
(* One artifact. A path names nothing, a directory or a file with its size, whether
   it begins with the PNG signature, and what it says when it is read as a trace. *)

\* collectScannerFleetEvidenceArtifactRefs: three refs of a row, in this order
FleetKinds == <<"screenshot", "history_entry", "accessibility">>

\* collectArtifactRefs, collectProviderProfileArtifactRefs: two of them
ProviderKinds == <<"screenshot", "accessibility">>

\* The flat list of the refs of the rows
RefsOf(rows, kinds) ==
    [n \in 1..(Len(rows) * Len(kinds)) |->
        LET kind == kinds[((n - 1) % Len(kinds)) + 1]
        IN  [kind |-> kind, path |-> rows[((n - 1) \div Len(kinds)) + 1].refs[kind]]]

\* minimumBytesFor, the same in both status programs
MinimumBytesFor(kind) == IF kind = "accessibility" THEN 20 ELSE 1000

\* validateEvidenceArtifacts has a copy of the limits.
ReadinessMinimumBytes(kind) == IF kind = "accessibility" THEN 20 ELSE 1000

\* rowsByEvidenceArtifactPath: of the rows that name a path, the map keeps the last.
RowByPath(rows, path) ==
    LET naming == {i \in DOMAIN rows : \E k \in DOMAIN rows[i].refs : rows[i].refs[k] = path}
    IN  rows[CHOOSE i \in naming : \A j \in naming : j <= i]

\* fieldValue, fieldEquals: the first line of that name
FieldEquals(trace, field, value) ==
    field \in DOMAIN trace.fields /\ trace.fields[field] = value

\* validateAccessibilityTrace of the fleet. mentions: the colours whose letters occur in
\* the status line, which the letters of "expired" do for red.
FleetTraceHolds(trace, row) ==
    /\ ~trace.placeholder
    /\ FieldEquals(trace, "fixture_id", row.fixture)
    /\ FieldEquals(trace, "decision_state", row.state)
    /\ FieldEquals(trace, "decision_color", row.color) \/ row.color \in trace.mentions
    /\ {"title", "message"} \subseteq DOMAIN trace.fields

\* validateAccessibilityTrace of the provider profile. labels: those the text contains.
ProviderTraceHolds(trace, row) ==
    /\ ~trace.placeholder
    /\ FieldEquals(trace, "fixture_id", row.fixture)
    /\ FieldEquals(trace, "profile_state", row.state)
    /\ FieldEquals(trace, "expected_status", row.status)
    /\ {"title", "message"} \subseteq DOMAIN trace.fields
    /\ row.labels \subseteq trace.labels

\* validateArtifactContent
ContentHolds(program, ref, file, row) ==
    CASE ref.kind = "accessibility" /\ program = "fleet" -> FleetTraceHolds(file.trace, row)
      [] ref.kind = "accessibility" /\ program = "provider" -> ProviderTraceHolds(file.trace, row)
      [] OTHER -> file.png
-----------------------------------------------------------------------------
ReleaseInit ==
    /\ profile = ReleaseStart.profile /\ fleet = ReleaseStart.fleet /\ provider = ReleaseStart.provider
    /\ files = FirstFiles /\ tracked = DOMAIN FirstFiles
    /\ run = Idle
    /\ distribution = NoReport /\ fleetStatus = NoReport
    /\ providerStatus = NoReport /\ readiness = NoReport
    /\ releaseEdits = 0 /\ releaseRuns = 0

\* An operator replaces a document.
EditDocument ==
    /\ releaseEdits < MaxReleaseEdits /\ releaseEdits' = releaseEdits + 1
    /\ \/ profile' \in ProfileDocs \ {profile} /\ UNCHANGED <<fleet, provider>>
       \/ fleet' \in FleetDocs \ {fleet} /\ UNCHANGED <<profile, provider>>
       \/ provider' \in ProviderDocs \ {provider} /\ UNCHANGED <<profile, fleet>>
    /\ UNCHANGED <<files, tracked, run, reports, releaseRuns>>

\* An import puts a file at a path, or a file is removed from it. The index keeps it.
EditFile ==
    /\ releaseEdits < MaxReleaseEdits /\ releaseEdits' = releaseEdits + 1
    /\ \E doc \in FileDocs :
        /\ files[doc.path] # doc.file
        /\ files' = [files EXCEPT ![doc.path] = doc.file]
    /\ UNCHANGED <<profile, fleet, provider, tracked, run, reports, releaseRuns>>

\* git add, git rm --cached
EditIndex ==
    /\ releaseEdits < MaxReleaseEdits /\ releaseEdits' = releaseEdits + 1
    /\ \E doc \in FileDocs :
        tracked' = IF doc.path \in tracked THEN tracked \ {doc.path} ELSE tracked \union {doc.path}
    /\ UNCHANGED <<profile, fleet, provider, files, run, reports, releaseRuns>>

\* verifier-profile-distribution-report: the profile is read once.
WriteDistribution ==
    /\ run = Idle /\ releaseRuns < MaxRuns /\ releaseRuns' = releaseRuns + 1
    /\ \E now \in Times : distribution' = MakeDistributionReport(profile, Policy, now)
    /\ UNCHANGED <<docs, run, fleetStatus, providerStatus, readiness, releaseEdits>>

-----------------------------------------------------------------------------
\* A program reads its packets and goes through their artifacts. since and seen are
\* history: the edits made before it, and the trace it read at each path.
Started(program, rows, refs, active) ==
    [program |-> program, rows |-> rows, refs |-> refs, active |-> active,
     at |-> 1, stage |-> "stat", issues |-> {}, since |-> releaseEdits, seen |-> <<>>]

\* scanner-fleet-evidence-artifacts-status: a packet that breaks its contract throws.
StartFleetStatus ==
    /\ run = Idle /\ releaseRuns < MaxRuns /\ releaseRuns' = releaseRuns + 1
    /\ AssertScannerFleet(fleet)
    /\ run' = Started("fleet", fleet.rows, RefsOf(fleet.rows, FleetKinds), TRUE)
    /\ UNCHANGED <<docs, reports, releaseEdits>>

\* ios-provider-profile-evidence-artifacts-status: this packet has no contract.
StartProviderStatus ==
    /\ run = Idle /\ releaseRuns < MaxRuns /\ releaseRuns' = releaseRuns + 1
    /\ run' = Started("provider", provider.rows, RefsOf(provider.rows, ProviderKinds), TRUE)
    /\ UNCHANGED <<docs, reports, releaseEdits>>

\* deployed-scanner-readiness-report: the profile is judged first (validateVerifierProfile).
\* The profile of the fleet packet is not compared with it.
StartReadiness ==
    /\ run = Idle /\ releaseRuns < MaxRuns /\ releaseRuns' = releaseRuns + 1
    /\ AssertScannerFleet(fleet)
    /\ \E now \in Times :
        run' = Started("readiness", <<>>,
                       RefsOf(fleet.rows, FleetKinds) \o RefsOf(provider.rows, ProviderKinds),
                       AssertVerifierProfile(profile, Policy, now))
    /\ UNCHANGED <<docs, reports, releaseEdits>>

Working(stage) == run # Idle /\ run.at <= Len(run.refs) /\ run.stage = stage
ArtifactRef == run.refs[run.at]

\* The next artifact, this one being counted or not
Present == [run EXCEPT !.at = @ + 1, !.stage = "stat"]
Issue(reason) ==
    [run EXCEPT !.at = @ + 1, !.stage = "stat", !.issues = @ \union {[at |-> run.at, reason |-> reason]}]

\* stat, isFile, the size. Only the status programs read the content.
Stat ==
    /\ Working("stat")
    /\ LET file == files[ArtifactRef.path]
           minimum == IF run.program = "readiness" THEN ReadinessMinimumBytes(ArtifactRef.kind)
                      ELSE MinimumBytesFor(ArtifactRef.kind)
       IN  run' = CASE file.kind = "none" -> Issue("missing")
                    [] file.kind = "directory" -> Issue("not a file")
                    [] file.kind = "file" /\ file.bytes < minimum -> Issue("too small")
                    [] OTHER -> [run EXCEPT !.stage =
                                    IF run.program = "readiness" THEN "track" ELSE "read"]
    /\ UNCHANGED <<docs, reports, releaseEdits, releaseRuns>>

\* readFile and validateArtifactContent. The path may have changed since the stat: a
\* readFile that throws makes the artifact a missing one.
Read ==
    /\ Working("read")
    /\ LET file == files[ArtifactRef.path]
       IN  run' = CASE file.kind # "file" -> Issue("missing")
                    [] file.kind = "file" /\ ~ContentHolds(run.program, ArtifactRef, file, RowByPath(run.rows, ArtifactRef.path)) ->
                            Issue("content")
                    [] OTHER -> [run EXCEPT !.stage = "track",
                                    !.seen = IF ArtifactRef.kind = "accessibility"
                                             THEN Append(@, [path |-> ArtifactRef.path, trace |-> file.trace])
                                             ELSE @]
    /\ UNCHANGED <<docs, reports, releaseEdits, releaseRuns>>

\* isGitTracked
Track ==
    /\ Working("track")
    /\ run' = IF ArtifactRef.path \in tracked THEN Present ELSE Issue("untracked")
    /\ UNCHANGED <<docs, reports, releaseEdits, releaseRuns>>

\* The report of a status program
MakeStatus ==
    [status |-> IF run.issues = {} THEN "complete" ELSE "incomplete",
     present |-> Len(run.refs) - Cardinality(run.issues), issues |-> run.issues,
     rows |-> run.rows, seen |-> run.seen, since |-> run.since, until |-> releaseEdits]

\* makeChecks, readinessStatus
MakeReadinessStatus ==
    CASE ~run.active -> "blocked_by_profile"
      [] run.active /\ run.issues # {} -> "native_evidence_incomplete"
      [] OTHER -> "ready_for_deployed_scanner_review"

Finish ==
    /\ run # Idle /\ run.at > Len(run.refs)
    /\ fleetStatus' = IF run.program = "fleet" THEN MakeStatus ELSE fleetStatus
    /\ providerStatus' = IF run.program = "provider" THEN MakeStatus ELSE providerStatus
    /\ readiness' = IF run.program = "readiness"
                    THEN [status |-> MakeReadinessStatus, issues |-> run.issues,
                          since |-> run.since, until |-> releaseEdits]
                    ELSE readiness
    /\ run' = Idle
    /\ UNCHANGED <<docs, distribution, releaseEdits, releaseRuns>>

ReleaseNext ==
    \/ EditDocument \/ EditFile \/ EditIndex
    \/ WriteDistribution
    \/ StartFleetStatus \/ StartProviderStatus \/ StartReadiness
    \/ Stat \/ Read \/ Track \/ Finish

ReleaseSpec == ReleaseInit /\ [][ReleaseNext]_releaseVars

-----------------------------------------------------------------------------

\* A complete fleet status rests, for every row of the packet, on a trace that stated
\* that row's own fixture and decision state, whatever was imported or removed while
\* the program ran. The content is checked against the last row that names the path,
\* so this needs the packet to name no path twice.
CompleteTraceSpeaksForItsRow ==
    fleetStatus # NoReport /\ fleetStatus.status = "complete" =>
        \A i \in DOMAIN fleetStatus.rows :
            LET row == fleetStatus.rows[i]
            IN  \E n \in DOMAIN fleetStatus.seen :
                    /\ fleetStatus.seen[n].path = row.refs["accessibility"]
                    /\ ~fleetStatus.seen[n].trace.placeholder
                    /\ FieldEquals(fleetStatus.seen[n].trace, "fixture_id", row.fixture)
                    /\ FieldEquals(fleetStatus.seen[n].trace, "decision_state", row.state)

-----------------------------------------------------------------------------
(* What a reader may expect and the programs do not promise; see the README. *)

\* A readiness report without issues saw traces that state what they should.
ReadyEvidenceIsRead ==
    readiness # NoReport /\ readiness.issues = {} /\ readiness.since = releaseEdits =>
        \A i \in DOMAIN fleet.rows :
            LET file == files[fleet.rows[i].refs["accessibility"]]
            IN  file.kind = "file" => ~file.trace.placeholder

\* A complete provider status rests on a trace of its own for every row.
ProviderTraceSpeaksForItsRow ==
    providerStatus # NoReport /\ providerStatus.status = "complete" =>
        \A i \in DOMAIN providerStatus.rows : \E n \in DOMAIN providerStatus.seen :
            /\ providerStatus.seen[n].path = providerStatus.rows[i].refs["accessibility"]
            /\ FieldEquals(providerStatus.seen[n].trace, "fixture_id", providerStatus.rows[i].fixture)

\* A blocked distribution report shows a control other than the receipt that is blocked.
BlockedShowsItsReason ==
    distribution # NoReport /\ distribution.status # "active" =>
        \E c \in DOMAIN distribution.checks \ {"scanner_receipt_logging"} : ~distribution.checks[c]

\* The trace of a complete row does not state another colour than the row's.
TraceStatesTheColor ==
    fleetStatus # NoReport /\ fleetStatus.status = "complete" =>
        \A i \in DOMAIN fleetStatus.rows : \E n \in DOMAIN fleetStatus.seen :
            /\ fleetStatus.seen[n].path = fleetStatus.rows[i].refs["accessibility"]
            /\ "decision_color" \in DOMAIN fleetStatus.seen[n].trace.fields =>
                    fleetStatus.seen[n].trace.fields["decision_color"] = fleetStatus.rows[i].color
=============================================================================
