------------------------------ MODULE TrustKeys ------------------------------
(***************************************************************************)
(* Trust keys: the registry verifiers look signers up in, the custody      *)
(* providers publishers sign with, the status events that change keys, and *)
(* key rotation.                                                           *)
(*                                                                         *)
(* A signed artifact names its signer, never its key. A verifier looks up  *)
(* one key of the signer and checks the signature with that key only. The  *)
(* sync checks a status event and then, in a second lookup, asks again who *)
(* its signer is; operators and other syncs write the registry in between. *)
(***************************************************************************)
EXTENDS Naturals, Sequences, FiniteSets

CONSTANTS
    Keys,           \* the keys, in the order of created_at
    NoAuthority,    \* delegated_authority_id is not set
    Enrolled,       \* keys in the registry at the start
    Providers,      \* the custody providers, in the order they are asked
    Unloadable,     \* keys whose private or public material cannot be read
    Requests,       \* what publishers ask to be signed
    Plans,          \* rotation plans operators may assess
    Policy,         \* TrustKeyRotationPolicy of each scope
    MaxEvents, MaxChanges   \* bounds: signed artifacts, operator changes

KeyIds == DOMAIN Keys
Statuses == {"active", "suspended", "revoked", "expired"}

\* TrustKeyRecord and SigningKeyRecord of a key: they share everything but the
\* material, which is one pair, and the status, which each side keeps its own.
Key ==
    [signer : STRING, root : STRING, authority : STRING \union {NoAuthority},
     scope : {"root_program", "delegated_authority", "issuer"},
     algorithm : {"ed25519", "other"}, material : STRING,
     ref : {"env", "file", "managed", "pem"}]

\* Signing input: who signs, under which authority, with which key (0: any), and
\* the status event that is signed.
Request ==
    [signer : STRING, root : STRING, authority : STRING \union {NoAuthority},
     key : Nat, target : KeyIds, status : Statuses \union {"retired"}]

Provider == [kind : {"environment", "filesystem", "managed", "static"}, keys : SUBSET KeyIds]

\* Times are in units of the policies' windows; 0 is a date that is not given.
RotationPlan ==
    [current : KeyIds, next : KeyIds, nextStatus : Statuses, activates : Nat,
     retires : Nat, cacheExpires : Nat, revokedAt : Nat, publishedAt : Nat]

ASSUME KeysAssumption == Keys \in Seq(Key) /\ Enrolled \subseteq KeyIds
ASSUME ProvidersAssumption ==
    Providers \in Seq(Provider) /\ Unloadable \subseteq KeyIds
ASSUME InputsAssumption == Requests \subseteq Request /\ Plans \subseteq RotationPlan
ASSUME PolicyAssumption ==
    Policy \in [{"root_program", "delegated_authority"} -> [min : Nat, max : Nat, sla : Nat]]
ASSUME EventsAssumption == MaxEvents \in Nat /\ MaxChanges \in Nat

VARIABLES
    registry,   \* trust_keys: the status of each key, "absent" without a row
    custody,    \* the status the custody providers' key records have
    artifacts,  \* signed status events
    held,       \* the artifact the sync works on
    pc,         \* the sync: idle, verified
    plan,       \* the rotation under way
    stage,      \* none, planned, overlap, retired
    changes

keysVars == <<registry, custody, artifacts, held, pc, plan, stage, changes>>
syncVars == <<held, pc>>
planVars == <<plan, stage>>

NoArtifact == [signer |-> "none"]
NoPlan == [current |-> 0]

KeysInit ==
    /\ registry = [k \in KeyIds |-> IF k \in Enrolled THEN "active" ELSE "absent"]
    /\ custody = [k \in KeyIds |-> "active"]
    /\ artifacts = {} /\ held = NoArtifact /\ pc = "idle"
    /\ plan = NoPlan /\ stage = "none"
    /\ changes = 0

-----------------------------------------------------------------------------
First(S) == CHOOSE k \in S : \A j \in S : k <= j

\* keyMatchesScope: of a trust key, for the ids an artifact carries.
KeyMatchesScope(k, signed) ==
    IF Keys[k].scope = "root_program" THEN Keys[k].signer = signed.root
    ELSE /\ signed.authority # NoAuthority
         /\ Keys[k].authority = signed.authority
         /\ Keys[k].signer = signed.authority

Found(k) == [key |-> k, reason |-> "none"]
Unusable(k, why) == [key |-> k, reason |-> why]

\* The rows trustKeyLookupCommand selects.
LookupRows(reg, signed) ==
    {k \in KeyIds : /\ reg[k] # "absent"
                    /\ Keys[k].signer = signed.signer /\ Keys[k].root = signed.root}

\* selectTrustKeyForLookup: the oldest active key of the signer.
SelectTrustKeyForLookup(reg, signed, accepted) ==
    LET candidates == LookupRows(reg, signed)
        scoped == {k \in candidates : KeyMatchesScope(k, signed)}
        matches == {k \in scoped : Keys[k].algorithm \in accepted}
        active == {k \in matches : reg[k] = "active"}
    IN  CASE candidates = {} -> Unusable(0, "key_not_found")
          [] candidates # {} /\ scoped = {} -> Unusable(First(candidates), "scope_mismatch")
          [] scoped # {} /\ matches = {} -> Unusable(First(scoped), "algorithm_not_accepted")
          [] matches # {} /\ active = {} -> Unusable(First(matches), "key_not_active")
          [] active # {} -> Found(First(active))

\* loadPublicKeyMaterial: a provider without the material passes the key on,
\* but an unreadable file is an error.
LoadPublicKeyMaterial(k) ==
    CASE k \notin Unloadable -> Keys[k].material
      [] k \in Unloadable /\ Keys[k].ref = "file" -> "error"
      [] k \in Unloadable /\ Keys[k].ref # "file" -> "unavailable"

\* verifyTrustArtifact; accepted_algorithm_ids defaults to ed25519.
VerifyTrustArtifact(reg, a) ==
    LET lookup == SelectTrustKeyForLookup(reg, a, {"ed25519"})
        material == LoadPublicKeyMaterial(lookup.key)
    IN  CASE lookup.reason # "none" -> lookup.reason
          [] lookup.reason = "none" /\ a.algorithm # "ed25519" -> "unsupported_signature_algorithm"
          [] lookup.reason = "none" /\ a.algorithm = "ed25519" /\ material \in {"error", "unavailable"} -> material
          [] lookup.reason = "none" /\ a.algorithm = "ed25519" /\ material \notin {"error", "unavailable"} ->
                IF material = a.material THEN "signature_verified"
                ELSE "signature_verification_failed"

-----------------------------------------------------------------------------
\* signingKeyMatchesScope
SigningKeyMatchesScope(k, r) ==
    CASE Keys[k].scope = "root_program" ->
            Keys[k].signer = r.root /\ r.signer = r.root
      [] Keys[k].scope = "delegated_authority" ->
            /\ r.authority # NoAuthority
            /\ Keys[k].authority = r.authority
            /\ Keys[k].signer = r.authority /\ r.signer = r.authority
      [] Keys[k].scope = "issuer" ->
            /\ r.authority # NoAuthority
            /\ Keys[k].authority = r.authority
            /\ Keys[k].signer = r.signer

\* selectSigningKey: a key, "undefined" when the provider has none, or "error".
SelectSigningKey(keys, r) ==
    LET candidates == IF r.key # 0 THEN keys \intersect {r.key}
                      ELSE {k \in keys : Keys[k].signer = r.signer /\ Keys[k].root = r.root}
        usable == {k \in candidates :
                     SigningKeyMatchesScope(k, r) /\ Keys[k].algorithm = "ed25519"}
        active == {k \in usable : custody[k] = "active"}
    IN  CASE candidates = {} -> [outcome |-> "undefined"]
          [] candidates # {} /\ active = {} -> [outcome |-> "error"]
          [] active # {} -> [outcome |-> "key", key |-> First(active)]

\* The material a provider of the kind can use has a reference of its own kind;
\* the static one looks every reference up.
HandlesRef(kind, ref) ==
    CASE kind = "environment" -> ref = "env"
      [] kind = "filesystem" -> ref = "file"
      [] kind = "managed" -> ref = "managed"
      [] kind = "static" -> TRUE

\* signPayload of one provider.
SignPayload(p, r) ==
    LET selected == SelectSigningKey(p.keys, r)
    IN  IF selected.outcome # "key" THEN selected
        ELSE IF ~HandlesRef(p.kind, Keys[selected.key].ref) THEN [outcome |-> "undefined"]
        ELSE IF selected.key \in Unloadable THEN [outcome |-> "error"]
        ELSE selected

\* makeCompositeSigningCustodyProvider: the first provider that does not pass
\* the request on decides; an error ends the search.
CompositeSign(r) ==
    LET outcomes == [i \in DOMAIN Providers |-> SignPayload(Providers[i], r)]
        decided == {i \in DOMAIN Providers : outcomes[i].outcome # "undefined"}
    IN  IF decided = {} THEN [outcome |-> "error"] ELSE outcomes[First(decided)]

\* signTrustArtifact: the body, with its signature; not with the key's id.
SignedBody(r, k) ==
    [signer |-> r.signer, root |-> r.root, authority |-> r.authority,
     target |-> r.target, status |-> r.status,
     algorithm |-> Keys[k].algorithm, material |-> Keys[k].material]

SignTrustArtifact(r) ==
    /\ CompositeSign(r).outcome = "key"
    /\ LET body == SignedBody(r, CompositeSign(r).key)
       IN  /\ body \notin artifacts /\ Cardinality(artifacts) < MaxEvents
           /\ artifacts' = artifacts \union {body}
    /\ UNCHANGED <<registry, custody, syncVars, planVars, changes>>

-----------------------------------------------------------------------------
\* syncRecent, the gate: a published status event is fetched and its signature
\* verified. Artifacts come in any order and again.
Verify(a) ==
    /\ pc = "idle"
    /\ VerifyTrustArtifact(registry, a) = "signature_verified"
    /\ held' = a /\ pc' = "verified"
    /\ UNCHANGED <<registry, custody, artifacts, planVars, changes>>

\* enforce_terminal_key_status, the trigger of trust_keys: revocation is terminal.
LeavesRevoked(reg, k, status) == reg[k] = "revoked" /\ status # "revoked"

\* Mutant: root_program_id is the only guard of the update.
UpdateWithinRoot(reg, root, k, status, authority) ==
    IF reg[k] # "absent" /\ Keys[k].root = root /\ ~LeavesRevoked(reg, k, status)
    THEN [reg EXCEPT ![k] = status] ELSE reg

\* trustKeyStatusUpdateCommand; authority is NoAuthority for a root caller. A write the
\* trigger refuses raises and changes nothing.
UpdateTrustKeyStatus(reg, root, k, status, authority) ==
    IF /\ reg[k] # "absent" /\ Keys[k].root = root /\ ~LeavesRevoked(reg, k, status)
       /\ authority = NoAuthority \/ Keys[k].authority = authority
    THEN [reg EXCEPT ![k] = status]
    ELSE reg

\* applyKeyStatusEvent: look the signer up again and update in its namespace.
ApplyKeyStatusEvent(reg, a) ==
    LET signer == SelectTrustKeyForLookup(reg, a, {a.algorithm})
    IN  IF a.status \notin Statuses \/ signer.reason # "none" THEN reg
        ELSE UpdateTrustKeyStatus(reg, a.root, a.target, a.status,
                IF Keys[signer.key].scope = "root_program" THEN NoAuthority ELSE a.authority)

Apply ==
    /\ pc = "verified"
    /\ registry' = ApplyKeyStatusEvent(registry, held)
    /\ held' = NoArtifact /\ pc' = "idle"
    /\ UNCHANGED <<custody, artifacts, planVars, changes>>

\* The sync fails between the two; the message comes again.
SyncFails ==
    /\ pc = "verified"
    /\ held' = NoArtifact /\ pc' = "idle"
    /\ UNCHANGED <<registry, custody, artifacts, planVars, changes>>

\* upsertTrustKey: on conflict the row is overwritten, its status included.
UpsertTrustKey(k, status) ==
    /\ ~LeavesRevoked(registry, k, status)
    /\ changes < MaxChanges /\ changes' = changes + 1
    /\ registry' = [registry EXCEPT ![k] = status]
    /\ UNCHANGED <<custody, artifacts, syncVars, planVars>>

\* The signing process is configured with another status of a key.
ConfigureSigningKey(k, status) ==
    /\ custody[k] # status
    /\ changes < MaxChanges /\ changes' = changes + 1
    /\ custody' = [custody EXCEPT ![k] = status]
    /\ UNCHANGED <<registry, artifacts, syncVars, planVars>>

-----------------------------------------------------------------------------
\* There is a policy for either scope of a trust key; issuers have signing keys only.
PolicyScope(p) ==
    IF Keys[p.current].scope = "root_program" THEN "root_program" ELSE "delegated_authority"

\* assessTrustKeyRotation: the codes of rejectionCodes that apply to plan p.
RejectionCodes(reg, p) ==
    LET cur == Keys[p.current]  nxt == Keys[p.next]  st == reg[p.current]
        scope == PolicyScope(p)
    IN  {code \in {"same_key_id", "scope_mismatch", "root_program_mismatch", "signer_mismatch",
                   "delegated_authority_mismatch", "next_key_not_active",
                   "current_key_terminal_without_emergency", "overlap_too_short",
                   "emergency_revocation_not_applied"} :
           CASE code = "same_key_id" -> p.current = p.next
             [] code = "scope_mismatch" -> cur.scope # scope \/ nxt.scope # scope
             [] code = "root_program_mismatch" -> cur.root # nxt.root
             [] code = "signer_mismatch" -> cur.signer # nxt.signer
             [] code = "delegated_authority_mismatch" ->
                    cur.scope = "delegated_authority" /\ cur.authority # nxt.authority
             [] code = "next_key_not_active" -> p.nextStatus # "active"
             [] code = "current_key_terminal_without_emergency" ->
                    p.revokedAt = 0 /\ st \in {"revoked", "expired"}
             [] code = "overlap_too_short" -> p.retires < p.activates + Policy[scope].min
             [] code = "emergency_revocation_not_applied" ->
                    p.revokedAt # 0 /\ st \notin {"revoked", "suspended"}}

WarningCodes(p) ==
    LET policy == Policy[PolicyScope(p)]
    IN  {code \in {"overlap_too_long", "verifier_cache_outlives_rotation",
                   "emergency_revocation_sla_missed"} :
           CASE code = "overlap_too_long" -> p.retires > p.activates + policy.max
             [] code = "verifier_cache_outlives_rotation" -> p.cacheExpires > p.retires
             [] code = "emergency_revocation_sla_missed" ->
                    /\ p.revokedAt # 0 /\ p.publishedAt # 0
                    /\ p.publishedAt > p.revokedAt + policy.sla}

\* Mutant: the keys of a plan are not compared.
AssessDatesOnly(reg, p) ==
    IF RejectionCodes(reg, p) \ {"scope_mismatch", "root_program_mismatch", "signer_mismatch",
                                 "delegated_authority_mismatch"} # {}
    THEN "rejected" ELSE "accepted"

\* assessmentStatus
AssessTrustKeyRotation(reg, p) ==
    IF RejectionCodes(reg, p) # {} THEN "rejected"
    ELSE IF WarningCodes(p) # {} THEN "warning" ELSE "accepted"

\* An operator assesses a plan and keeps it unless it is rejected.
PlanRotation(p) ==
    /\ stage = "none" /\ registry[p.current] # "absent"
    /\ AssessTrustKeyRotation(registry, p) # "rejected"
    /\ plan' = p /\ stage' = "planned"
    /\ UNCHANGED <<registry, custody, artifacts, syncVars, changes>>

\* The new key is published, both keys verify, then the old one is retired.
ActivateNextKey ==
    /\ stage = "planned" /\ ~LeavesRevoked(registry, plan.next, plan.nextStatus)
    /\ registry' = [registry EXCEPT ![plan.next] = plan.nextStatus]
    /\ stage' = "overlap"
    /\ UNCHANGED <<custody, artifacts, syncVars, plan, changes>>

RetireCurrentKey(status) ==
    /\ stage = "overlap" /\ ~LeavesRevoked(registry, plan.current, status)
    /\ registry' = UpdateTrustKeyStatus(registry, Keys[plan.current].root, plan.current,
                                        status, NoAuthority)
    /\ stage' = "retired"
    /\ UNCHANGED <<custody, artifacts, syncVars, plan, changes>>

KeysNext ==
    \/ \E r \in Requests : SignTrustArtifact(r)
    \/ \E a \in artifacts : Verify(a)
    \/ Apply \/ SyncFails
    \/ \E k \in KeyIds : UpsertTrustKey(k, "active") \/ UpsertTrustKey(k, "suspended")
    \/ \E k \in KeyIds : ConfigureSigningKey(k, "revoked")
    \/ \E p \in Plans : PlanRotation(p)
    \/ ActivateNextKey
    \/ \E status \in Statuses \ {"active"} : RetireCurrentKey(status)

KeysSpec == KeysInit /\ [][KeysNext]_keysVars

-----------------------------------------------------------------------------
KeysTypeOK ==
    /\ registry \in [KeyIds -> Statuses \union {"absent"}]
    /\ custody \in [KeyIds -> Statuses]
    /\ \A a \in artifacts : a.target \in KeyIds
    /\ pc \in {"idle", "verified"} /\ (pc = "verified" => held \in artifacts)
    /\ stage \in {"none", "planned", "overlap", "retired"}
    /\ (stage # "none" => plan \in Plans)
    /\ changes \in 0 .. MaxChanges

\* k is a key in force for the signer an artifact names.
InForce(k, a) ==
    registry[k] = "active" /\ Keys[k].signer = a.signer /\ Keys[k].root = a.root

\* A status event changes a key only in its signer's namespace: the root
\* program's own signer, or the authority the key was issued under, with a key
\* in force when the change is made.
KeyChangesAreGoverned ==
    [][pc = "verified" /\ pc' = "idle" =>
         \A k \in KeyIds : registry'[k] # registry[k] =>
            \E j \in KeyIds :
               /\ InForce(j, held) /\ Keys[j].root = Keys[k].root
               /\ \/ Keys[j].scope = "root_program" /\ Keys[j].signer = Keys[k].root
                  \/ Keys[j].signer = Keys[k].authority]_keysVars

\* k is a key the lookup considers for what was signed.
SpeaksFor(k, signed) ==
    /\ Keys[k].signer = signed.signer /\ Keys[k].root = signed.root
    /\ KeyMatchesScope(k, signed)

\* A rotation that was not rejected leaves its signer able to sign: when the old
\* key is retired and the new one is still active, a lookup finds a key for
\* everything that the old one spoke for.
RotationKeepsSigner ==
    [][stage = "overlap" /\ stage' = "retired" /\ registry[plan.next] = "active" =>
         \A r \in Requests : SpeaksFor(plan.current, r) =>
            SelectTrustKeyForLookup(registry', r, {Keys[plan.next].algorithm}).reason = "none"]_keysVars

\* key-rotation-policy.md: "both old and new keys may verify signed artifacts
\* during the accepted overlap".
BothKeysVerifyInOverlap ==
    stage = "overlap" =>
        \A k \in {plan.current, plan.next} \ Unloadable : \A r \in Requests :
            /\ registry[plan.current] = "active" /\ registry[plan.next] = "active"
            /\ r.signer = Keys[k].signer /\ r.root = Keys[k].root /\ SigningKeyMatchesScope(k, r)
            => VerifyTrustArtifact(registry, SignedBody(r, k)) = "signature_verified"
=============================================================================
