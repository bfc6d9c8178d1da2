------------------------- MODULE MCOperatorPrograms -------------------------
(***************************************************************************)
(* The programs an operator runs, on small instances: evidence review,     *)
(* scanner release and migrations. The three share no file and no table,   *)
(* so a behaviour of one of them is that of the whole in which the others  *)
(* rest: a run explores each family of programs in full and by itself.     *)
(***************************************************************************)
EXTENDS EvidenceReview, ScannerRelease, Migrations, TLC

VARIABLE family     \* the programs that run

\* No program of the other families is started. Which checkouts the appliers would
\* have been started from is then of no account.
ProgramsInit ==
    /\ family \in {"review", "release", "migrations"}
    /\ ReviewInit /\ ReleaseInit /\ Init
    /\ family # "migrations" => release = [p \in DOMAIN release |-> CHOOSE r \in Releases : TRUE]

ProgramsNext ==
    /\ UNCHANGED family
    /\ \/ family = "review" /\ ReviewNext /\ UNCHANGED <<releaseVars, vars>>
       \/ family = "release" /\ ReleaseNext /\ UNCHANGED <<reviewVars, vars>>
       \/ family = "migrations" /\ Next /\ UNCHANGED <<reviewVars, releaseVars>>

ProgramsSpec == ProgramsInit /\ [][ProgramsNext]_<<family, reviewVars, releaseVars, vars>>

-----------------------------------------------------------------------------
\* The fleet packet of both evidence programs: eight fixtures, only green is opened.
Fixtures ==
    <<"green_verified_issuer", "red_expired_qr", "red_destination_mismatch",
      "red_resolver_final_target_mismatch", "orange_plain_url_unrecognized",
      "orange_verifier_unavailable_visible_destination", "orange_stale_verifier_profile",
      "red_revoked_verifier_profile">>
Path(f, kind) == [name |-> <<f, kind>>, ext |-> Extension(kind)]
Row(f) ==
    [fixture |-> f, color |-> RequiredFixtures[f].color, state |-> RequiredFixtures[f].state,
     profile |-> "profile", reasons |-> {"seen"}, hold |-> RequiredFixtures[f].color # "green",
     held |-> FALSE, opened |-> RequiredFixtures[f].color = "green",
     refs |-> [k \in ArtifactKinds |-> Path(f, k)]]
Fleet ==
    [redacted |-> TRUE, reviewed |-> TRUE, profile |-> "profile", matrix |-> RequiredFixtures,
     rows |-> [i \in 1..Len(Fixtures) |-> Row(Fixtures[i])]]

-----------------------------------------------------------------------------
\* Evidence review: two controls. From a complete set of inputs, one input after
\* another is edited into something a reviewer must not be handed: a ref listed twice,
\* a ref shared by two controls, a placeholder, a stricter requirement under the same
\* id, a failed drill, an opened red scan, a withdrawn evidence map.
Ops(uri, role) ==
    [uri |-> uri, scheme |-> "ops", placeholder |-> FALSE, owner |-> "team", role |-> role]
Repo(uri) ==
    [uri |-> uri, scheme |-> "repo", placeholder |-> FALSE, owner |-> "team", role |-> "none"]

Need(min, role, artifacts) ==
    [min |-> min, role |-> role, owner |-> "team", artifacts |-> artifacts]
Required(second) ==
    [id |-> "requirements", mode |-> "production_candidate",
     controls |-> <<Need(2, "security", 2), second>>]
MCRequirements ==
    {Required(Need(1, "operations", 2)), Required(Need(2, "operations", 2)),
     Required(Need(2, "operations", 1))}

Control(refs) == [status |-> "operator_backed", owner |-> "team", refs |-> refs]
IndexOf(first, second) ==
    [id |-> "index", mode |-> "production_candidate",
     controls |-> <<Control(first), Control(second)>>]
Complete == IndexOf(<<Ops("a", "security"), Ops("b", "security")>>, <<Ops("c", "operations")>>)
ReferenceIndex ==
    [id |-> "index", mode |-> "reference_drill",
     controls |-> <<Control(<<Repo("doc")>>), [Control(<<Repo("doc")>>) EXCEPT !.status = "blocked"]>>]
MCIndexes ==
    {Complete, ReferenceIndex,
     IndexOf(<<Ops("a", "security"), Ops("a", "security")>>, <<Ops("c", "operations")>>),
     IndexOf(<<Ops("a", "security"), Ops("b", "security")>>, <<Ops("b", "operations")>>),
     IndexOf(<<Ops("a", "security"), [Ops("b", "security") EXCEPT !.placeholder = TRUE]>>,
             <<Ops("c", "operations")>>),
     IndexOf(<<Ops("a", "security"), Ops("b", "operations")>>, <<Ops("c", "operations")>>)}

OpenedRed ==
    [Fleet EXCEPT !.rows = [i \in DOMAIN @ |->
        IF @[i].fixture = "red_expired_qr" THEN [@[i] EXCEPT !.opened = TRUE, !.held = TRUE] ELSE @[i]]]

Surfaces ==
    [redacted |-> TRUE, reviewed |-> TRUE, reasons |-> {"seen"}, artifact |-> "qr",
     color |-> "green", state |-> "verified_issuer",
     surfaces |-> [s \in {"web_lab", "ios_scanner"} |->
        [artifact |-> "qr", color |-> "green", state |-> "verified_issuer",
         reasons |-> {"seen"}, proof |-> s]]]

Good == [guardrails |-> TRUE, reviewed |-> TRUE, clean |-> TRUE, formed |-> TRUE]
WorkerPacket ==
    [mode |-> "reference_drill", staleAfter |-> 1, maxLag |-> 1, drilled |-> Workers,
     signals |-> Workers,
     components |-> [w \in Workers |->
        [boundary |-> ExpectedBoundary[w], ref |-> "repo", status |-> "reference_ready"]]]
    @@ Good
Restore(status, ref) ==
    [mode |-> "production_candidate", storage |-> "ops", escalation |-> "ops", rpo |-> 1, rto |-> 1,
     drills |-> [d \in Drills |->
        [status |-> IF d = "scratch_restore_completed" THEN status ELSE "passed", command |-> "repo",
         started |-> 1, completed |-> 2, refs |-> {ref}]]]
    @@ Good
Deployment(decision) ==
    [mode |-> "production_candidate", refs |-> {"ops"}, stage |-> "production_candidate",
     gates |-> [g \in {"artifact_fingerprinted", "rollback_plan_accepted"} |-> "passed"],
     approvals |-> [r \in {"release_owner", "security_reviewer"} |->
                        IF r = "release_owner" THEN decision ELSE "approved"]]
    @@ Good
Audit(results) ==
    CustodyAuditExport({[item |-> r, root |-> "root", result |-> r] : r \in results}, "root",
                       "managed-publication-worker")

Packets(shown, restore, deployment, audit) ==
    [fleet |-> shown, surfaces |-> Surfaces, workers |-> WorkerPacket, restore |-> restore,
     deployment |-> deployment, audit |-> audit]
Sound == Packets(Fleet, Restore("passed", "ops"), Deployment("approved"), Audit({"published", "failed"}))
MCPackets ==
    {Sound, [Sound EXCEPT !.fleet = OpenedRed], [Sound EXCEPT !.restore = Restore("failed", "ops")],
     [Sound EXCEPT !.restore = Restore("passed", "repo")],
     [Sound EXCEPT !.deployment = Deployment("rejected")], [Sound EXCEPT !.audit = Audit({"published"})]}

Setting(mode, present, refs) ==
    [mode |-> mode, present |-> present, refs |-> [k \in {"postgres", "nats"} |-> refs]]
MCSettings ==
    {Setting("production", {"postgres", "nats"}, 1), Setting("production", {"postgres", "nats"}, 0),
     Setting("reference", {"postgres"}, 1)}

Claim(mode, present, uri) ==
    [mode |-> mode, required |-> {"cache"}, present |-> present, withIndex |-> TRUE,
     refs |-> [b \in {"cache", "audit"} |-> {Ops(uri, "security")}]]
MCClaims ==
    {Claim("production_candidate", {"cache", "audit"}, "a"), Claim("production_candidate", {"cache"}, "a"),
     [Claim("production_candidate", {"cache", "audit"}, "a") EXCEPT !.refs["audit"] = {}],
     [Claim("production_candidate", {"cache", "audit"}, "a") EXCEPT !.refs["audit"] = {Repo("a")}],
     [Claim("reference_only", {"cache"}, "z") EXCEPT !.withIndex = FALSE]}

MCReviewStart ==
    {[requirements |-> Required(Need(1, "operations", 2)), index |-> Complete, packets |-> Sound,
      settings |-> Setting("production", {"postgres", "nats"}, 1),
      claim |-> Claim("production_candidate", {"cache", "audit"}, "a")]}

-----------------------------------------------------------------------------
\* Scanner release: two states of the provider profile and profiles that fail one rule
\* each. Imports reach the traces and the screenshots of two fleet rows and of one
\* provider row: they put a placeholder, another row's trace, a short file, a directory
\* or nothing there.
\* The first row names the trace of the second.
SharedTrace == [Fleet EXCEPT !.rows[1].refs["accessibility"] = Path("red_expired_qr", "accessibility")]
MCFleets == {Fleet, SharedTrace}

ProviderRow(f) ==
    [fixture |-> f, state |-> f, status |-> "shown", labels |-> {"managed"},
     refs |-> [k \in {"screenshot", "accessibility"} |-> Path(f, k)]]
Provider == [rows |-> <<ProviderRow("imported"), ProviderRow("revoked")>>]
SharedProvider ==
    [Provider EXCEPT !.rows[1].refs["accessibility"] = Path("revoked", "accessibility")]
MCProviders == {Provider, SharedProvider}

File(bytes, png, trace) == [kind |-> "file", bytes |-> bytes, png |-> png, trace |-> trace]
Blank == [placeholder |-> TRUE, fields |-> [title |-> "t"], mentions |-> {}, labels |-> {}]
Png == File(2000, TRUE, Blank)
FleetTrace(f) ==
    [placeholder |-> FALSE, mentions |-> {RequiredFixtures[f].color}, labels |-> {},
     fields |-> [fixture_id |-> f, decision_state |-> RequiredFixtures[f].state,
                 title |-> "t", message |-> "m"]]
\* A trace that states green and whose status line is "Expired"
GreenExpired ==
    LET trace == FleetTrace("red_expired_qr")
    IN  [trace EXCEPT !.fields = [f \in DOMAIN @ \union {"decision_color"} |->
                                    IF f = "decision_color" THEN "green" ELSE @[f]]]
ProviderTrace(f) ==
    [placeholder |-> FALSE, mentions |-> {}, labels |-> {"managed"},
     fields |-> [fixture_id |-> f, profile_state |-> f, expected_status |-> "shown",
                 title |-> "t", message |-> "m"]]
ProviderFixtures == {"imported", "revoked"}
AllPaths ==
    {Path(f, k) : f \in DOMAIN RequiredFixtures, k \in ArtifactKinds}
    \union {Path(f, k) : f \in ProviderFixtures, k \in {"screenshot", "accessibility"}}
MCFiles ==
    [p \in AllPaths |->
        CASE p.ext = "png" -> Png
          [] p.ext = "txt" /\ p.name[1] \in ProviderFixtures -> File(100, FALSE, ProviderTrace(p.name[1]))
          [] OTHER -> File(100, FALSE, FleetTrace(p.name[1]))]
At(f, kind, file) == [path |-> Path(f, kind), file |-> file]
MCFileDocs ==
    {At("green_verified_issuer", "accessibility", File(100, FALSE, Blank)),
     At("green_verified_issuer", "accessibility", NoFile),
     At("green_verified_issuer", "accessibility", File(100, FALSE, FleetTrace("red_expired_qr"))),
     At("red_expired_qr", "accessibility", File(100, FALSE, GreenExpired)),
     At("red_expired_qr", "screenshot", File(500, TRUE, Blank)),
     At("red_expired_qr", "screenshot", [kind |-> "directory"]),
     At("revoked", "accessibility", File(100, FALSE, ProviderTrace("imported")))}

GoodProfile ==
    [fingerprint |-> "profile", formed |-> TRUE, version |-> 1, sha256 |-> TRUE, https |-> TRUE,
     endpoint |-> "scan", root |-> "root", authorities |-> {"authority"}, key |-> "key",
     ed25519 |-> TRUE, budget |-> 60, channel |-> "mdm", from |-> 2, until |-> 3,
     colors |-> [green |-> GreenControls, orange |-> {"stale"}, red |-> {"revoked"}],
     hold |-> [enabled |-> TRUE, duration |-> 800, triggers |-> HoldTriggers]]
MCProfiles ==
    {GoodProfile, [GoodProfile EXCEPT !.budget = 0], [GoodProfile EXCEPT !.until = NoDate],
     [GoodProfile EXCEPT !.colors.red = {}], [GoodProfile EXCEPT !.hold.duration = 799],
     [GoodProfile EXCEPT !.fingerprint = "withdrawn"], [GoodProfile EXCEPT !.root = "other"]}
MCReleaseStart == [profile |-> GoodProfile, fleet |-> Fleet, provider |-> Provider]
MCPolicy ==
    [endpoint |-> "scan", roots |-> {"root"}, authorities |-> {"authority"}, keys |-> {"key"},
     minimumHold |-> 800, revoked |-> {}]
MCTimes == {NoDate, 1, 3, 4}

-----------------------------------------------------------------------------
\* Migrations: the first migration alone, both migrations, both with the first file
\* edited after it may have been applied, and a plan out of order.
Step(id, checksum, creates) == [id |-> id, checksum |-> checksum, creates |-> creates]
First == Step(1, "c1", {"issuers"})
Edited == Step(1, "c1x", {"issuers", "keys"})
Second == Step(2, "c2", {"keys"})

MCReleases ==
    {[plan |-> <<First>>, expected |-> {"issuers"}],
     [plan |-> <<First, Second>>, expected |-> {"issuers", "keys"}],
     [plan |-> <<Edited, Second>>, expected |-> {"issuers", "keys"}],
     [plan |-> <<Second, First>>, expected |-> {"issuers", "keys"}]}
MCDirect == {[plan |-> <<First>>, expected |-> {"issuers"}]}
=============================================================================
