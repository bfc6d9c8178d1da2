------------------------------- MODULE LabViews -------------------------------
(***************************************************************************)
(* What the web client derives from a response before it draws it: the     *)
(* scenario table and the comparison of two scenarios, the expiry of an    *)
(* artifact, the tone of a verdict, the state of the scan feedback and the *)
(* advice of the operator's runtime page.  Everything here is a function   *)
(* of its arguments; LabController and OperatorController use it.          *)
(***************************************************************************)
EXTENDS Integers, Sequences, FiniteSets, SequencesExt

(***************************************************************************)
(* Scenarios.  A ScenarioMeta is the record of the settings that the       *)
(* comparison and the request read.  The URL of the payload is the record  *)
(* of its host and of the query parameters the fixtures carry.             *)
(***************************************************************************)
Valid ==
  [host |-> "acme", domains |-> {"acme"}, subdomains |-> FALSE,
   final |-> "acme/pay", hops |-> 1, nested |-> FALSE, runtime |-> "clean",
   revoked |-> FALSE, key |-> "active", registered |-> TRUE, rotate |-> FALSE,
   offset |-> 5, cache |-> "fresh", artifact |-> "clean", tone |-> "green"]

Redirecting(final, hops, nested) ==
  [Valid EXCEPT !.host = "qr.acme", !.domains = {"qr.acme"}, !.final = final,
                !.hops = hops, !.nested = nested, !.tone = "red"]

IssuerScenarios ==
  [valid       |-> Valid,
   expired     |-> [Valid EXCEPT !.offset = -2, !.tone = "red"],
   revoked     |-> [Valid EXCEPT !.revoked = TRUE, !.key = "revoked",
                                 !.tone = "red"],
   key_rotated |-> [Valid EXCEPT !.rotate = TRUE],
   key_revoked |-> [Valid EXCEPT !.key = "revoked", !.tone = "red"],
   subdomain_allowed |-> [Valid EXCEPT !.host = "checkout.acme",
                                       !.subdomains = TRUE],
   subdomain_blocked |-> [Valid EXCEPT !.host = "checkout.acme",
                                       !.tone = "red"],
   payload_mismatch  |-> [Valid EXCEPT !.host = "rogue", !.tone = "red"]]

DestinationScenarios ==
  [redirect_approved         |-> Redirecting("acme/pay", 1, FALSE),
   redirect_final_mismatch   |-> Redirecting("evil/pay", 1, FALSE),
   redirect_too_many_hops    |-> Redirecting("acme/pay", 3, FALSE),
   redirect_nested_shortener |-> Redirecting("acme/pay", 1, TRUE),
   runtime_risky       |-> [Valid EXCEPT !.runtime = "risky", !.tone = "amber"],
   runtime_blocked     |-> [Valid EXCEPT !.runtime = "blocked", !.tone = "red"],
   stale_cache         |-> [Valid EXCEPT !.cache = "stale", !.tone = "amber"],
   unknown_issuer      |-> [Valid EXCEPT !.registered = FALSE, !.tone = "amber"],
   artifact_quiet_zone |-> [Valid EXCEPT !.artifact = "lowQuietZone",
                                         !.tone = "amber"],
   artifact_mismatch   |-> [Valid EXCEPT !.artifact = "payloadMismatch",
                                         !.tone = "red"]]

ScenarioKeys == DOMAIN IssuerScenarios \cup DOMAIN DestinationScenarios

scenarioMeta ==
  [s \in ScenarioKeys |-> IF s \in DOMAIN IssuerScenarios
                          THEN IssuerScenarios[s] ELSE DestinationScenarios[s]]

issuerFor(meta) ==
  CASE meta.revoked           -> "revoked"
    [] meta.key = "revoked" /\ ~meta.revoked -> "keyRevoked"
    [] OTHER -> IF ~meta.registered THEN "unenrolled"
                ELSE IF meta.rotate THEN "rotated" ELSE "active"

\* The hosts that lie under a domain of the fixtures.
SubdomainsOf(domain) == IF domain = "acme" THEN {"checkout.acme", "qr.acme"} ELSE {}

destinationFor(meta) ==
  CASE meta.host \in meta.domains -> "exact"
    [] /\ meta.host \notin meta.domains
       /\ meta.subdomains
       /\ \E d \in meta.domains : meta.host \in SubdomainsOf(d) -> "subdomain"
    [] OTHER -> "outside"

redirectFor(meta) ==
  IF meta.host # "qr.acme" THEN "none"
  ELSE IF meta.nested THEN "nestedShortener"
  ELSE IF meta.hops > 1 THEN "tooManyHops"
  ELSE IF meta.final # "acme/pay" THEN "finalMismatch" ELSE "approved"

comparisonLayers ==
  <<"issuer", "destination", "redirect", "freshness", "runtime", "cache",
    "artifact", "decision">>

summariseScenario(meta) ==
  [issuer |-> issuerFor(meta), destination |-> destinationFor(meta),
   redirect |-> redirectFor(meta),
   freshness |-> IF meta.offset > 0 THEN "fresh" ELSE "expired",
   runtime |-> meta.runtime, cache |-> meta.cache, artifact |-> meta.artifact,
   decision |-> meta.tone]

\* The layers in which two scenarios differ, in verification order; the first
\* is the one the comparison card names.
compareScenarios(a, b) ==
  SelectSeq(comparisonLayers,
            LAMBDA layer : summariseScenario(scenarioMeta[a])[layer]
                             # summariseScenario(scenarioMeta[b])[layer])

(***************************************************************************)
(* comparison.ts promises that every scenario is the valid case with       *)
(* exactly one trust layer perturbed; TLC evaluates it on the table.       *)
(***************************************************************************)
ASSUME OneLayerPerScenario ==
  \A s \in ScenarioKeys \ {"valid"} :
     LET layers == ToSet(compareScenarios("valid", s)) \ {"decision"}
     IN  Cardinality(layers) = 1

(***************************************************************************)
(* The validity window.  A pick is what the date field holds: nothing,     *)
(* something that is no date, or an instant so many minutes from now.      *)
(***************************************************************************)
DefaultLifetime == 5
MaxLifetime == 30 * 24 * 60

NoPick == [kind |-> "none", minutes |-> 0]
PickedMinutes(n) == [kind |-> "minutes", minutes |-> n]
Unparsable == [kind |-> "unparsable", minutes |-> 0]

\* The window sealed into an artifact: an expired scenario wins over a pick.
lifetimeMinutesFor(meta, pick) ==
  IF meta.offset <= 0 THEN meta.offset
  ELSE IF pick.kind = "minutes" /\ pick.minutes > 0 THEN pick.minutes
  ELSE IF meta.offset > DefaultLifetime THEN meta.offset ELSE DefaultLifetime

expiryValidation(pick) ==
  CASE pick.kind = "none" -> "fine"
    [] pick.kind = "unparsable" -> "invalid"
    [] OTHER -> IF pick.minutes <= 0 THEN "past"
                ELSE IF pick.minutes > MaxLifetime THEN "tooFar" ELSE "fine"

(***************************************************************************)
(* Tones.                                                                  *)
(***************************************************************************)
GreenStatuses == {"recognized", "bound", "clear", "clean", "pass", "fresh",
                  "verified_issuer", "green"}
RedStatuses == {"red", "blocked", "block", "failed", "mismatch",
                "redirect_mismatch", "redirect_unobserved", "revoked",
                "profile_revoked", "expired"}

trustStatusTone(status) ==
  IF status \in GreenStatuses THEN "green"
  ELSE IF status \in RedStatuses THEN "red" ELSE "amber"

decisionStateTone(state) ==
  IF state = "verified_issuer" THEN "green"
  ELSE IF state \in {"unknown", "profile_revoked", "blocked"} THEN "red"
  ELSE "amber"

\* The tone of the verdict page: the contract's colour, or without a contract
\* the tone of the decision's state.
VerdictTone(d) ==
  IF d.contract THEN IF d.risk \in {"green", "red"} THEN d.risk ELSE "amber"
  ELSE decisionStateTone(d.state)

residualFamilyOrder ==
  <<"issuer_chain", "destination_policy", "redirect_flow", "runtime_safety",
    "freshness", "artifact_integrity">>

tierRank(tier) ==
  CASE tier \in {"pass", "not-applicable"} -> 0
    [] tier \in {"not-checked", "unknown", "unavailable"} -> 1
    [] tier = "stale" -> 2
    [] tier = "warn" -> 3
    [] tier \in {"invalid-managed-claim", "revoked-issuer", "block"} -> 5
    [] OTHER -> 4

\* The family that decided: the first of the highest rank, none at rank 0.
decidingFamily(vector) ==
  LET rank(i) == tierRank(vector[residualFamilyOrder[i]])
      worst == {i \in DOMAIN residualFamilyOrder :
                  /\ rank(i) > 0
                  /\ \A j \in DOMAIN residualFamilyOrder :
                       \/ rank(j) < rank(i)
                       \/ rank(j) = rank(i) /\ i <= j}
  IN  {residualFamilyOrder[i] : i \in worst}

residualTone(tier) ==
  CASE tier = "pass" -> "green"
    [] tier = "not-applicable" -> "muted"
    [] OTHER -> IF tierRank(tier) >= 4 THEN "red" ELSE "amber"

(***************************************************************************)
(* residuals.ts promises the highest ranked family, the first one on a tie *)
(* and none when nothing is left to fear: one family decides iff some tier *)
(* has a rank.                                                             *)
(***************************************************************************)
ASSUME OneFamilyDecides ==
  \A vector \in [ToSet(residualFamilyOrder) -> {"pass", "stale", "block"}] :
     Cardinality(decidingFamily(vector)) =
       IF \E f \in DOMAIN vector : tierRank(vector[f]) > 0 THEN 1 ELSE 0

(***************************************************************************)
(* Scan feedback of the QR frame.                                          *)
(***************************************************************************)
scanFeedbackStateFor(activity, error) ==
  CASE activity = "none" -> IF error THEN "offline" ELSE "checking"
    [] activity = "unobservable" -> "unavailable"
    [] activity = "unscanned" -> "waiting"
    [] OTHER -> activity

scanFeedbackPresentation(state) ==
  [tone |-> CASE state \in {"green", "red"} -> state
              [] state = "orange" -> "amber"
              [] OTHER -> "none",
   pill |-> state \notin {"waiting", "checking"}]

(***************************************************************************)
(* Advice of the operator's runtime page: the first rule that applies.     *)
(***************************************************************************)
networkOutboxActionNote(outbox) ==
  CASE outbox.status = "unavailable" -> "outboxUnavailable"
    [] OTHER ->
       IF outbox.quarantined > 0 THEN "outboxQuarantined"
       ELSE IF outbox.failed > 0 THEN "outboxFailed"
       ELSE IF outbox.lagging \/ (outbox.pending > 0 /\ outbox.published = 0)
            THEN "outboxPending"
       ELSE IF outbox.status = "healthy" THEN "outboxReady" ELSE "none"

scannerDecisionActionNote(decisions) ==
  CASE decisions.status = "unavailable" -> "decisionsUnavailable"
    [] OTHER -> IF decisions.total = 0 THEN "decisionsEmpty"
                ELSE IF decisions.status = "healthy" THEN "decisionsReady"
                ELSE "none"

runtimeObservationActionNote(observations) ==
  CASE observations.status = "unavailable" -> "observationsUnavailable"
    [] OTHER -> IF observations.total = 0 THEN "observationsEmpty"
                ELSE IF observations.status \in {"blocked", "healthy"}
                THEN observations.status ELSE "none"

(***************************************************************************)
(* The page never calls an outbox ready that holds quarantined or failed   *)
(* rows, nor an empty evidence store.                                      *)
(***************************************************************************)
ASSUME AdviceIsHonest ==
  /\ \A outbox \in [status : {"unavailable", "healthy", "degraded"},
                     quarantined : 0..1, failed : 0..1, pending : 0..1,
                     published : 0..1, lagging : BOOLEAN] :
        networkOutboxActionNote(outbox) = "outboxReady" =>
          outbox.quarantined = 0 /\ outbox.failed = 0 /\ ~outbox.lagging
  /\ \A e \in [status : {"unavailable", "healthy", "blocked"}, total : 0..1] :
        /\ scannerDecisionActionNote(e) = "decisionsReady" => e.total > 0
        /\ runtimeObservationActionNote(e) = "healthy" => e.total > 0
===============================================================================
