-------------------------- MODULE TrustProjection --------------------------
(***************************************************************************)
(* The durable trust state of one issuer and its certificates, the         *)
(* governance version token that every trust-affecting write bumps in its  *)
(* own transaction, and the scanner process that answers scans from an     *)
(* in-memory projection of that state (TrustProjectionManager.ensure_fresh *)
(* and the scanner decision path around it).                               *)
(*                                                                         *)
(* Scans are coroutines of one event loop: a step runs from one await to   *)
(* the next. The database may fail at any probe or load.                   *)
(***************************************************************************)
EXTENDS Integers

CONSTANTS
    Certs,          \* certificate ids that may be enrolled
    Scans,          \* concurrent scanner requests
    NoScan,         \* nobody holds the manager's lock
    MaxStaleness,   \* TRUST_STATE_MAX_STALENESS_SECONDS, in clock ticks
    MaxTime,        \* bound: the clock
    MaxChanges,     \* bound: governance writes
    MaxTokenLosses  \* bound: deletions of the governance_versions row

ASSUME NoScanAssumption == NoScan \notin Scans
ASSUME BoundsAssumption ==
    /\ MaxStaleness \in Nat
    /\ MaxTime \in Nat
    /\ MaxChanges \in Nat
    /\ MaxTokenLosses \in Nat

VARIABLES
    issuerStatus,  \* issuers.enrollment_status, "absent" when there is no row
    keyStatus,     \* issuer_certificates.key_status, "absent" when no row
    token,         \* governance_versions row: epoch and version, or NoToken
    epochs,        \* epochs handed out so far: gen_random_uuid never repeats
    clock,
    store,         \* what ScannerTrustStore holds of the projection
    mgrToken,      \* TrustProjectionManager._token
    lastSuccess,   \* TrustProjectionManager._last_success, Never if None
    holder,        \* the scan inside the manager's lock
    pc,            \* where each scan is, "idle" between two requests
    cert,          \* the certificate_ref it presents
    began,         \* when it began
    calledAt,      \* the now it passed to its current ensure_fresh call
    confirmed,     \* its first ensure_fresh call was not "unavailable"
    record,        \* the store entry it resolved
    verdict,       \* the last answer given
    agreedAt,      \* history: when the store last agreed with the database
    recordAsOf,    \* history: agreedAt when the scan resolved its record
    changes,
    losses

dbVars == <<issuerStatus, keyStatus, token, epochs, changes, losses>>
mgrVars == <<store, mgrToken, lastSuccess, holder>>
localVars == <<began, calledAt, confirmed, record, recordAsOf>>
scanVars == <<pc, cert, verdict, localVars>>
vars == <<issuerStatus, keyStatus, token, epochs, clock, store, mgrToken,
          lastSuccess, holder, pc, cert, began, calledAt, confirmed, record,
          verdict, agreedAt, recordAsOf, changes, losses>>

-----------------------------------------------------------------------------
Never == -1
NoToken == [epoch |-> 0, version |-> 0]

IssuerStatuses == {"absent", "pending", "active", "suspended", "revoked", "expired"}
KeyStatuses == {"absent", "active", "rotated", "suspended", "revoked", "expired"}

\* CERTIFICATE_TRANSITIONS: the changes the management endpoint accepts.
CertificateTransitions(s) ==
    CASE s = "active"    -> {"rotated", "suspended", "revoked", "expired"}
      [] s = "rotated"   -> {"suspended", "revoked", "expired"}
      [] s = "suspended" -> {"active", "rotated", "revoked", "expired"}
      [] s = "expired"   -> {"revoked"}
      [] OTHER           -> {}

\* KEY_PROJECTION: how a durable key status reads in the scanner's store.
KeyProjection(s) ==
    CASE s = "active" -> "active"
      [] s \in {"rotated", "expired"} -> "retired"
      [] s = "suspended" -> "suspended"
      [] s = "revoked" -> "revoked"
      [] OTHER -> "none"

\* ISSUER_PROJECTION: a pending or missing issuer has no entry.
IssuerProjection(s) == IF s \in {"absent", "pending"} THEN "none" ELSE s

IssuerStates == {"none", "active", "suspended", "revoked", "expired"}
KeyStates == {"none", "active", "retired", "suspended", "revoked"}

\* load_trust_snapshot: rows and token of one repeatable-read snapshot.
Project(i, k) ==
    [issuer |-> IssuerProjection(i), key |-> [c \in Certs |-> KeyProjection(k[c])]]

\* ScannerTrustStore.resolve: a key without its issuer does not resolve.
Resolve(st, c) == [issuer |-> st.issuer, key |-> st.key[c]]
NoRecord == [issuer |-> "none", key |-> "none"]
Unknown(r) == r.issuer = "none" \/ r.key = "none"

\* evaluate_blocking_states.
InForce(r) == r.issuer = "active" /\ r.key \in {"active", "retired"}

Init ==
    /\ issuerStatus = "absent"
    /\ keyStatus = [c \in Certs |-> "absent"]
    /\ token = [epoch |-> 1, version |-> 1]
    /\ epochs = 1
    /\ clock = 0
    /\ store = [issuer |-> "none", key |-> [c \in Certs |-> "none"]]
    /\ mgrToken = NoToken
    /\ lastSuccess = Never
    /\ holder = NoScan
    /\ pc = [s \in Scans |-> "idle"]
    /\ cert \in [Scans -> Certs]
    /\ began = [s \in Scans |-> 0]
    /\ calledAt = [s \in Scans |-> 0]
    /\ confirmed = [s \in Scans |-> FALSE]
    /\ record = [s \in Scans |-> NoRecord]
    /\ verdict = [s \in Scans |-> "none"]
    /\ agreedAt = 0
    /\ recordAsOf = [s \in Scans |-> 0]
    /\ changes = 0
    /\ losses = 0

\* History: note the time while the store agrees with the database.
Agree ==
    agreedAt' = IF store' = Project(issuerStatus', keyStatus') THEN clock' ELSE agreedAt

-----------------------------------------------------------------------------
\* Mutant: a recreated row reuses its epoch.
BumpOldEpoch ==
    /\ token' = IF token = NoToken THEN [epoch |-> 1, version |-> 1]
                                   ELSE [token EXCEPT !.version = @ + 1]
    /\ epochs' = epochs

\* bump_trust_state: insert, or version + 1; a deleted row comes back with a
\* fresh epoch and version 1.
Bump ==
    /\ token' = IF token = NoToken THEN [epoch |-> epochs + 1, version |-> 1]
                                   ELSE [token EXCEPT !.version = @ + 1]
    /\ epochs' = IF token = NoToken THEN epochs + 1 ELSE epochs

\* A governance transaction: the write and the bump commit together.
GovernanceWrite ==
    /\ changes < MaxChanges
    /\ changes' = changes + 1
    /\ Bump
    /\ UNCHANGED <<losses, clock, mgrVars, scanVars>>
    /\ Agree

\* issuer.enroll: an upsert that sets a known issuer back to pending.
EnrollIssuer ==
    /\ issuerStatus' = "pending"
    /\ keyStatus' = keyStatus
    /\ GovernanceWrite

\* issuer.status.update: requires the row, knows no forbidden transition.
UpdateIssuerStatus(i) ==
    /\ issuerStatus # "absent"
    /\ issuerStatus' = i
    /\ keyStatus' = keyStatus
    /\ GovernanceWrite

\* issuer_certificate.enrolled: an insert, active with its key material.
EnrollCertificate(c) ==
    /\ issuerStatus # "absent"
    /\ keyStatus[c] = "absent"
    /\ keyStatus' = [keyStatus EXCEPT ![c] = "active"]
    /\ issuerStatus' = issuerStatus
    /\ GovernanceWrite

\* Mutant: the status endpoint skips check_transition and its trigger.
UpdateCertificateStatusUnchecked(c, s) ==
    /\ keyStatus[c] # "absent"
    /\ keyStatus' = [keyStatus EXCEPT ![c] = s]
    /\ issuerStatus' = issuerStatus
    /\ GovernanceWrite

\* issuer_certificate.status.changed: the row is locked, the transition
\* checked, and the trigger keeps "revoked" terminal.
UpdateCertificateStatus(c, s) ==
    /\ s \in CertificateTransitions(keyStatus[c])
    /\ keyStatus' = [keyStatus EXCEPT ![c] = s]
    /\ issuerStatus' = issuerStatus
    /\ GovernanceWrite

\* The governance_versions row is deleted (an operator, a partial restore).
LoseToken ==
    /\ token # NoToken
    /\ losses < MaxTokenLosses
    /\ losses' = losses + 1
    /\ token' = NoToken
    /\ UNCHANGED <<issuerStatus, keyStatus, epochs, changes, clock, mgrVars, scanVars>>
    /\ Agree

Tick ==
    /\ clock < MaxTime
    /\ clock' = clock + 1
    /\ UNCHANGED <<dbVars, mgrVars, scanVars>>
    /\ Agree

-----------------------------------------------------------------------------
\* A scan arrives and calls ensure_fresh for the first time.
Begin(s, c) ==
    /\ pc[s] = "idle"
    /\ pc' = [pc EXCEPT ![s] = "ensure1"]
    /\ cert' = [cert EXCEPT ![s] = c]
    /\ began' = [began EXCEPT ![s] = clock]
    /\ calledAt' = [calledAt EXCEPT ![s] = clock]
    /\ verdict' = [verdict EXCEPT ![s] = "none"]
    /\ UNCHANGED <<confirmed, record, recordAsOf, dbVars, clock, mgrVars>>
    /\ Agree

\* The request is answered with v; its locals are gone.
Answer(s, v) ==
    /\ verdict' = [verdict EXCEPT ![s] = v]
    /\ pc' = [pc EXCEPT ![s] = "idle"]
    /\ began' = [began EXCEPT ![s] = 0]
    /\ calledAt' = [calledAt EXCEPT ![s] = 0]
    /\ confirmed' = [confirmed EXCEPT ![s] = FALSE]
    /\ record' = [record EXCEPT ![s] = NoRecord]
    /\ recordAsOf' = [recordAsOf EXCEPT ![s] = 0]
    /\ UNCHANGED cert

\* The first call returned: the record is resolved at once, whatever the
\* outcome was, and the second call is made (_run_scanner_decision).
ReturnFirst(s, outcome) ==
    LET r == Resolve(store', cert[s]) IN
    \/ Unknown(r) /\ Answer(s, "unknown")
    \/ /\ ~Unknown(r)
       /\ confirmed' = [confirmed EXCEPT ![s] = outcome # "unavailable"]
       /\ record' = [record EXCEPT ![s] = r]
       /\ recordAsOf' = [recordAsOf EXCEPT ![s] = agreedAt']
       /\ pc' = [pc EXCEPT ![s] = "ensure2"]
       /\ calledAt' = [calledAt EXCEPT ![s] = clock]
       /\ UNCHANGED <<cert, began, verdict>>

\* The second call returned: "unavailable" stops the scan, anything else goes
\* on to verify the record resolved before (_run_narrowed_verifier).
ReturnSecond(s, outcome) ==
    \/ outcome = "unavailable" /\ Answer(s, "unavailable")
    \/ /\ outcome # "unavailable"
       /\ pc' = [pc EXCEPT ![s] = "verify"]
       /\ UNCHANGED <<cert, verdict, localVars>>

\* ensure_fresh gives back its outcome and the lock. Closing its connection
\* first takes time, but the store cannot change before the lock is free.
Return(s, outcome) ==
    \/ pc[s] \in {"ensure1", "load1"} /\ ReturnFirst(s, outcome)
    \/ pc[s] \in {"ensure2", "load2"} /\ ReturnSecond(s, outcome)

\* Mutant: the budget is measured with a fresh start at every failure.
DegradeAlways(now) == IF mgrToken = NoToken THEN "unavailable" ELSE "stale-served"

\* _degrade: the budget runs from the last confirmed token.
Degrade(now) ==
    IF mgrToken = NoToken \/ lastSuccess = Never \/ now - lastSuccess > MaxStaleness
    THEN "unavailable"
    ELSE "stale-served"

\* The probe finds the token the store was loaded under.
ProbeReused(s) ==
    /\ pc[s] \in {"ensure1", "ensure2"}
    /\ holder = NoScan
    /\ token # NoToken /\ token = mgrToken
    /\ lastSuccess' = calledAt[s]
    /\ UNCHANGED <<dbVars, clock, store, mgrToken, holder>>
    /\ Agree
    /\ Return(s, "reused")

\* The probe finds another token: the scan keeps the lock and loads.
ProbeChanged(s) ==
    /\ pc[s] \in {"ensure1", "ensure2"}
    /\ holder = NoScan
    /\ token # NoToken /\ token # mgrToken
    /\ holder' = s
    /\ pc' = [pc EXCEPT ![s] = IF @ = "ensure1" THEN "load1" ELSE "load2"]
    /\ UNCHANGED <<dbVars, clock, store, mgrToken, lastSuccess, cert, verdict, localVars>>
    /\ Agree

\* No connection, no row, or a failed query: nothing is refreshed.
ProbeFailed(s) ==
    /\ pc[s] \in {"ensure1", "ensure2"}
    /\ holder = NoScan
    /\ UNCHANGED <<dbVars, clock, mgrVars>>
    /\ Agree
    /\ Return(s, Degrade(calledAt[s]))

\* One snapshot gives the rows and the token; replace_projection swaps.
Load(s) ==
    /\ pc[s] \in {"load1", "load2"}
    /\ token # NoToken
    /\ store' = Project(issuerStatus, keyStatus)
    /\ mgrToken' = token
    /\ lastSuccess' = calledAt[s]
    /\ holder' = NoScan
    /\ UNCHANGED <<dbVars, clock>>
    /\ Agree
    /\ Return(s, "fresh")

\* The load raises: the lock is released, the old projection stays.
LoadFailed(s) ==
    /\ pc[s] \in {"load1", "load2"}
    /\ holder' = NoScan
    /\ UNCHANGED <<dbVars, clock, store, mgrToken, lastSuccess>>
    /\ Agree
    /\ Return(s, Degrade(calledAt[s]))

\* The verdict is computed from the record resolved after the first call.
Verify(s) ==
    /\ pc[s] = "verify"
    /\ Answer(s, IF InForce(record[s]) THEN "allowed" ELSE "blocked")
    /\ UNCHANGED <<dbVars, clock, mgrVars>>
    /\ Agree

ScanStep(s) ==
    \/ ProbeReused(s)
    \/ ProbeChanged(s)
    \/ ProbeFailed(s)
    \/ Load(s)
    \/ LoadFailed(s)
    \/ Verify(s)

Governance ==
    \/ EnrollIssuer
    \/ \E i \in IssuerStatuses \ {"absent"} : UpdateIssuerStatus(i)
    \/ \E c \in Certs : EnrollCertificate(c)
    \/ \E c \in Certs, k \in KeyStatuses \ {"absent"} : UpdateCertificateStatus(c, k)
    \/ LoseToken

Next ==
    \/ Governance
    \/ Tick
    \/ \E s \in Scans, c \in Certs : Begin(s, c)
    \/ \E s \in Scans : ScanStep(s)

Spec == Init /\ [][Next]_vars

-----------------------------------------------------------------------------
Locations == {"idle", "ensure1", "load1", "ensure2", "load2", "verify"}
Verdicts == {"none", "unknown", "unavailable", "allowed", "blocked"}
Times == 0..MaxTime
Snapshots == [issuer : IssuerStates, key : [Certs -> KeyStates]]

\* Types of the state.
TypeOK ==
    /\ issuerStatus \in IssuerStatuses
    /\ keyStatus \in [Certs -> KeyStatuses]
    /\ token \in [epoch : Nat, version : Nat]
    /\ epochs \in Nat
    /\ clock \in Times
    /\ store \in Snapshots
    /\ mgrToken \in [epoch : Nat, version : Nat]
    /\ lastSuccess \in Times \union {Never}
    /\ holder \in Scans \union {NoScan}
    /\ pc \in [Scans -> Locations]
    /\ cert \in [Scans -> Certs]
    /\ began \in [Scans -> Times]
    /\ calledAt \in [Scans -> Times]
    /\ confirmed \in [Scans -> BOOLEAN]
    /\ record \in [Scans -> [issuer : IssuerStates, key : KeyStates]]
    /\ verdict \in [Scans -> Verdicts]
    /\ agreedAt \in Times
    /\ recordAsOf \in [Scans -> Times]
    /\ changes \in Nat
    /\ losses \in Nat

\* The token identifies the trust state: a store loaded under the database's
\* current token is the database's current state. It is what lets ensure_fresh
\* answer "reused" without reading a row, and rests on every trust-affecting
\* write bumping the token in its own transaction and on fresh epochs.
TokenIdentifiesState ==
    token # NoToken /\ token = mgrToken => store = Project(issuerStatus, keyStatus)

\* A scan whose first ensure_fresh call did not report "unavailable" judges a
\* record the database held no longer than MaxStaleness before the scan began,
\* however many scans refresh, fail and wait for the lock around it.
ConfirmedRecordIsRecent ==
    \A s \in Scans :
        pc[s] \in {"ensure2", "load2", "verify"} /\ confirmed[s]
            => recordAsOf[s] >= began[s] - MaxStaleness

\* "a verifier that cannot confirm the governance version token within its
\* budget stops answering rather than guessing": no scan is allowed on a record
\* that left the database more than MaxStaleness before the scan began.
NeverGuesses ==
    [][\A s \in Scans : pc[s] = "verify" /\ verdict'[s] = "allowed"
                            => recordAsOf[s] >= began[s] - MaxStaleness]_vars

\* Revocation of a certificate is terminal for the scanner, too: once the
\* projection has shown a key revoked, no reload brings it back.
RevocationIsTerminal ==
    [][\A c \in Certs : store.key[c] = "revoked" => store'.key[c] = "revoked"]_vars

\* The manager's lock is held by the scan that is loading and by nobody else:
\* two loads never run at once, and no failed probe or load leaves it behind,
\* which would keep every later scan waiting.
LockHeldByItsLoad ==
    \A s \in Scans : holder = s <=> pc[s] \in {"load1", "load2"}
=============================================================================
