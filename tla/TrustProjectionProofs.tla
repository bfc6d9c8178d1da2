----------------------- MODULE TrustProjectionProofs -----------------------
(***************************************************************************)
(* Proofs about TrustProjection: its types, that the governance token      *)
(* identifies the trust state, that a confirmed record is recent, and that *)
(* a revocation stays visible, for every set of scans and certificates and *)
(* every budget and bound.                                                 *)
(***************************************************************************)
EXTENDS TrustProjection, TLAPS

\* The scanner's token never overtakes the database's; epochs are not reused.
TokensOrdered ==
    /\ token # NoToken => token.epoch = epochs
    /\ mgrToken.epoch <= epochs
    /\ token # NoToken /\ mgrToken.epoch = token.epoch
         => mgrToken.version <= token.version

\* The clock readings the staleness budget is computed from.
TimesOrdered ==
    /\ agreedAt <= clock
    /\ lastSuccess # Never => lastSuccess <= agreedAt
    /\ \A s \in Scans : began[s] <= calledAt[s] /\ calledAt[s] <= clock

\* A key the projection shows revoked is revoked in the database.
RevocationKnown ==
    \A c \in Certs : store.key[c] = "revoked" => keyStatus[c] = "revoked"

\* The inductive invariant.
IInv ==
    /\ TypeOK
    /\ TokensOrdered
    /\ TokenIdentifiesState
    /\ TimesOrdered
    /\ ConfirmedRecordIsRecent
    /\ RevocationKnown

-----------------------------------------------------------------------------
\* A projection is a snapshot of scanner states, whatever the rows say.
LEMMA ProjectType ==
    ASSUME NEW i \in IssuerStatuses, NEW k \in [Certs -> KeyStatuses]
    PROVE  Project(i, k) \in Snapshots
  <1>1. IssuerProjection(i) \in IssuerStates
    BY DEF IssuerProjection, IssuerStates, IssuerStatuses
  <1>2. ASSUME NEW c \in Certs PROVE KeyProjection(k[c]) \in KeyStates
    <2>1. k[c] \in KeyStatuses
      OBVIOUS
    <2> QED
      BY <2>1 DEF KeyProjection, KeyStates, KeyStatuses
  <1>3. [c \in Certs |-> KeyProjection(k[c])] \in [Certs -> KeyStates]
    BY <1>2
  <1> QED
    BY <1>1, <1>3 DEF Project, Snapshots

\* A projected key is "revoked" exactly when its row is.
LEMMA ProjectRevoked ==
    ASSUME NEW i, NEW k \in [Certs -> KeyStatuses], NEW c \in Certs
    PROVE  Project(i, k).key[c] = "revoked" <=> k[c] = "revoked"
  <1>1. Project(i, k).key[c] = KeyProjection(k[c])
    BY DEF Project
  <1>2. k[c] \in KeyStatuses
    OBVIOUS
  <1> QED
    BY <1>1, <1>2 DEF KeyProjection, KeyStatuses

\* The history variable agreedAt only moves to the current time.
LEMMA AgreeMoves ==
    ASSUME TypeOK, agreedAt <= clock, clock' \in Times, clock <= clock', Agree
    PROVE  /\ agreedAt' \in Times
           /\ agreedAt <= agreedAt'
           /\ agreedAt' <= clock'
           /\ store' = Project(issuerStatus', keyStatus') => agreedAt' = clock'
  BY BoundsAssumption DEF TypeOK, Agree, Times

\* A degraded answer is "stale-served" only inside the budget.
LEMMA DegradeInBudget ==
    ASSUME NEW now, Degrade(now) # "unavailable"
    PROVE  lastSuccess # Never /\ ~(now - lastSuccess > MaxStaleness)
  BY DEF Degrade

-----------------------------------------------------------------------------
\* Types of the scans' part of the state after Answer and Return.
ScanTypes ==
    /\ pc \in [Scans -> Locations]
    /\ cert \in [Scans -> Certs]
    /\ began \in [Scans -> Times]
    /\ calledAt \in [Scans -> Times]
    /\ confirmed \in [Scans -> BOOLEAN]
    /\ record \in [Scans -> [issuer : IssuerStates, key : KeyStates]]
    /\ verdict \in [Scans -> Verdicts]
    /\ recordAsOf \in [Scans -> Times]

\* An answered scan's locals are well typed.
LEMMA AnswerTypes ==
    ASSUME ScanTypes, NEW s \in Scans, NEW v \in Verdicts, Answer(s, v)
    PROVE  ScanTypes'
  <1>1. 0 \in Times /\ NoRecord \in [issuer : IssuerStates, key : KeyStates]
        /\ "idle" \in Locations
    BY BoundsAssumption DEF Times, NoRecord, IssuerStates, KeyStates, Locations
  <1> QED
    BY <1>1 DEF ScanTypes, Answer

\* So are those of a scan whose ensure_fresh call returned.
LEMMA ReturnTypes ==
    ASSUME ScanTypes, clock \in Times, store' \in Snapshots, agreedAt' \in Times,
           NEW s \in Scans, NEW outcome, Return(s, outcome)
    PROVE  ScanTypes'
  <1>1. "unknown" \in Verdicts /\ "unavailable" \in Verdicts
        /\ "ensure2" \in Locations /\ "verify" \in Locations
    BY DEF Verdicts, Locations
  <1>2. CASE ReturnFirst(s, outcome)
    <2>1. Resolve(store', cert[s]) \in [issuer : IssuerStates, key : KeyStates]
      BY DEF Resolve, Snapshots, ScanTypes
    <2>2. CASE Answer(s, "unknown")
      BY <1>1, <2>2, AnswerTypes
    <2>3. CASE ~Answer(s, "unknown")
      <3>1. (outcome # "unavailable") \in BOOLEAN
        OBVIOUS
      <3>2. confirmed' = [confirmed EXCEPT ![s] = (outcome # "unavailable")]
        BY <1>2, <2>3, Zenon DEF ReturnFirst
      <3>3. confirmed \in [Scans -> BOOLEAN]
        BY DEF ScanTypes
      <3>4. confirmed' \in [Scans -> BOOLEAN]
        <4> DEFINE b == (outcome # "unavailable")
        <4>1. b \in BOOLEAN /\ confirmed' = [confirmed EXCEPT ![s] = b]
          BY <3>1, <3>2
        <4> HIDE DEF b
        <4> QED
          BY <3>3, <4>1, Zenon
      <3>5. /\ record' = [record EXCEPT ![s] = Resolve(store', cert[s])]
            /\ recordAsOf' = [recordAsOf EXCEPT ![s] = agreedAt']
            /\ pc' = [pc EXCEPT ![s] = "ensure2"]
            /\ calledAt' = [calledAt EXCEPT ![s] = clock]
            /\ UNCHANGED <<cert, began, verdict>>
        BY <1>2, <2>3, Zenon DEF ReturnFirst
      <3> QED
        BY <1>1, <2>1, <3>4, <3>5 DEF ScanTypes
    <2> QED
      BY <2>2, <2>3
  <1>3. CASE ReturnSecond(s, outcome)
    <2>1. CASE Answer(s, "unavailable")
      BY <1>1, <2>1, AnswerTypes
    <2>2. CASE ~Answer(s, "unavailable")
      BY <1>1, <1>3, <2>2 DEF ReturnSecond, ScanTypes, localVars
    <2> QED
      BY <2>1, <2>2
  <1> QED
    BY <1>2, <1>3 DEF Return

-----------------------------------------------------------------------------
\* What a governance write does to the rows, whichever it is.
RowsTyped == issuerStatus \in IssuerStatuses /\ keyStatus \in [Certs -> KeyStatuses]

\* Types after the token was bumped.
LEMMA BumpTypes ==
    ASSUME TypeOK, Bump
    PROVE  token' \in [epoch : Nat, version : Nat] /\ epochs' \in Nat
  BY DEF TypeOK, Bump, NoToken

\* Each kind of governance write leaves well-typed rows, and a revoked
\* certificate revoked.
LEMMA GovernanceRows ==
    ASSUME TypeOK, Governance
    PROVE  /\ RowsTyped'
           /\ \A c \in Certs : keyStatus[c] = "revoked" => keyStatus'[c] = "revoked"
           /\ GovernanceWrite \/ LoseToken
  <1>1. CASE EnrollIssuer
    BY <1>1 DEF TypeOK, EnrollIssuer, RowsTyped, IssuerStatuses
  <1>2. ASSUME NEW i \in IssuerStatuses \ {"absent"}, UpdateIssuerStatus(i)
        PROVE  /\ RowsTyped' /\ GovernanceWrite
               /\ \A c \in Certs : keyStatus[c] = "revoked" => keyStatus'[c] = "revoked"
    BY <1>2 DEF TypeOK, UpdateIssuerStatus, RowsTyped
  <1>3. ASSUME NEW c \in Certs, EnrollCertificate(c)
        PROVE  /\ RowsTyped' /\ GovernanceWrite
               /\ \A d \in Certs : keyStatus[d] = "revoked" => keyStatus'[d] = "revoked"
    BY <1>3 DEF TypeOK, EnrollCertificate, RowsTyped, KeyStatuses
  <1>4. ASSUME NEW c \in Certs, NEW k \in KeyStatuses \ {"absent"}, UpdateCertificateStatus(c, k)
        PROVE  /\ RowsTyped' /\ GovernanceWrite
               /\ \A d \in Certs : keyStatus[d] = "revoked" => keyStatus'[d] = "revoked"
    <2>1. keyStatus[c] # "revoked"
      BY <1>4 DEF UpdateCertificateStatus, CertificateTransitions
    <2> QED
      BY <1>4, <2>1 DEF TypeOK, UpdateCertificateStatus, RowsTyped
  <1>5. CASE LoseToken
    BY <1>5 DEF TypeOK, LoseToken, RowsTyped
  <1> QED
    BY <1>1, <1>2, <1>3, <1>4, <1>5 DEF Governance, EnrollIssuer

\* Every step keeps the types.
LEMMA TypeStep ==
    ASSUME IInv, [Next]_vars
    PROVE  TypeOK'
  <1> USE DEF IInv
  <1>0. ScanTypes /\ TypeOK /\ agreedAt <= clock
    BY DEF TypeOK, ScanTypes, TimesOrdered
  <1>1. CASE Governance
    <2>1. RowsTyped' /\ (GovernanceWrite \/ LoseToken)
      BY <1>1, GovernanceRows
    <2>2. /\ token' \in [epoch : Nat, version : Nat] /\ epochs' \in Nat
          /\ changes' \in Nat /\ losses' \in Nat
          /\ UNCHANGED <<clock, mgrVars, scanVars>> /\ Agree
      <3>1. CASE GovernanceWrite
        BY <3>1, BumpTypes DEF TypeOK, GovernanceWrite
      <3>2. CASE LoseToken
        BY <3>2 DEF TypeOK, LoseToken, NoToken
      <3> QED
        BY <2>1, <3>1, <3>2
    <2>3. agreedAt' \in Times
      BY <1>0, <2>2 DEF TypeOK, Agree
    <2> QED
      BY <2>1, <2>2, <2>3 DEF TypeOK, RowsTyped, mgrVars, scanVars, localVars
  <1>2. CASE Tick
    <2>1. clock' \in Times
      BY <1>2, BoundsAssumption DEF Tick, TypeOK, Times
    <2>2. agreedAt' \in Times
      BY <1>2, <2>1 DEF Tick, Agree, TypeOK
    <2> QED
      BY <1>2, <2>1, <2>2 DEF Tick, TypeOK, dbVars, mgrVars, scanVars, localVars
  <1>3. ASSUME NEW s \in Scans, NEW c \in Certs, Begin(s, c)
        PROVE  TypeOK'
    <2>1. agreedAt' \in Times
      BY <1>3 DEF Begin, Agree, TypeOK
    <2>2. "ensure1" \in Locations /\ "none" \in Verdicts
      BY DEF Locations, Verdicts
    <2> QED
      BY <1>3, <2>1, <2>2 DEF Begin, TypeOK, dbVars, mgrVars
  <1>4. ASSUME NEW s \in Scans, ScanStep(s)
        PROVE  TypeOK'
    <2>1. UNCHANGED <<dbVars, clock>> /\ Agree
      BY <1>4 DEF ScanStep, ProbeReused, ProbeChanged, ProbeFailed, Load, LoadFailed, Verify
    <2>2. agreedAt' \in Times
      BY <2>1 DEF Agree, TypeOK
    <2>3. /\ store' \in Snapshots
          /\ mgrToken' \in [epoch : Nat, version : Nat]
          /\ lastSuccess' \in Times \union {Never}
          /\ holder' \in Scans \union {NoScan}
      <3>1. CASE Load(s)
        BY <3>1, ProjectType DEF Load, TypeOK
      <3>2. CASE ~Load(s)
        BY <1>4, <3>2 DEF ScanStep, ProbeReused, ProbeChanged, ProbeFailed,
                          LoadFailed, Verify, TypeOK, mgrVars
      <3> QED
        BY <3>1, <3>2
    <2>4. ScanTypes'
      <3>1. CASE \E outcome : Return(s, outcome)
        BY <1>0, <2>2, <2>3, <3>1, ReturnTypes DEF TypeOK
      <3>2. CASE ProbeChanged(s)
        BY <1>0, <3>2 DEF ProbeChanged, ScanTypes, localVars, Locations
      <3>3. CASE Verify(s)
        <4>1. (IF InForce(record[s]) THEN "allowed" ELSE "blocked") \in Verdicts
          BY DEF Verdicts
        <4> QED
          BY <1>0, <3>3, <4>1, AnswerTypes DEF Verify
      <3> QED
        BY <1>4, <3>1, <3>2, <3>3 DEF ScanStep, ProbeReused, ProbeFailed, Load, LoadFailed
    <2> QED
      BY <2>1, <2>2, <2>3, <2>4 DEF TypeOK, ScanTypes, dbVars
  <1>5. CASE UNCHANGED vars
    BY <1>5 DEF TypeOK, vars
  <1> QED
    BY <1>1, <1>2, <1>3, <1>4, <1>5 DEF Next

-----------------------------------------------------------------------------
\* What the scanner's steps leave alone.
LEMMA ScanStepFrame ==
    ASSUME NEW s \in Scans, ScanStep(s)
    PROVE  /\ UNCHANGED <<dbVars, clock>> /\ Agree
           /\ Load(s) \/ UNCHANGED <<store, mgrToken>>
  BY DEF ScanStep, ProbeReused, ProbeChanged, ProbeFailed, Load, LoadFailed, Verify, mgrVars

\* Every write moves the token past everything the scanner remembers, so the
\* token still identifies the state.
LEMMA TokenStep ==
    ASSUME IInv, [Next]_vars
    PROVE  TokensOrdered' /\ TokenIdentifiesState'
  <1> USE DEF IInv
  <1>1. CASE GovernanceWrite
    <2>1. UNCHANGED <<store, mgrToken>> /\ Bump
      BY <1>1 DEF GovernanceWrite, mgrVars
    <2>2. CASE token = NoToken
      <3>1. token' = [epoch |-> epochs + 1, version |-> 1] /\ epochs' = epochs + 1
        BY <2>1, <2>2 DEF Bump
      <3>2. token'.epoch = epochs + 1 /\ mgrToken'.epoch <= epochs /\ epochs \in Nat
            /\ mgrToken'.epoch \in Nat
        BY <2>1, <3>1 DEF TokensOrdered, TypeOK
      <3>3. token' # mgrToken' /\ mgrToken'.epoch # token'.epoch
        BY <3>2
      <3> QED
        BY <3>1, <3>2, <3>3 DEF TokensOrdered, TokenIdentifiesState
    <2>3. CASE token # NoToken
      <3>1. token' = [token EXCEPT !.version = @ + 1] /\ epochs' = epochs
        BY <2>1, <2>3 DEF Bump
      <3>2. token'.epoch = token.epoch /\ token'.version = token.version + 1
            /\ token.version \in Nat /\ mgrToken.version \in Nat
        BY <3>1 DEF TypeOK
      <3>3. mgrToken.epoch = token.epoch => mgrToken.version <= token.version
        BY <2>3 DEF TokensOrdered
      <3>4. token' # mgrToken'
        BY <2>1, <3>2, <3>3
      <3> QED
        BY <2>1, <2>3, <3>1, <3>2, <3>3, <3>4 DEF TokensOrdered, TokenIdentifiesState
    <2> QED
      BY <2>2, <2>3
  <1>2. CASE LoseToken
    BY <1>2 DEF LoseToken, mgrVars, TokensOrdered, TokenIdentifiesState
  <1>3. CASE Tick
    BY <1>3 DEF Tick, dbVars, mgrVars, TokensOrdered, TokenIdentifiesState
  <1>4. ASSUME NEW s \in Scans, NEW c \in Certs, Begin(s, c)
        PROVE  TokensOrdered' /\ TokenIdentifiesState'
    BY <1>4 DEF Begin, dbVars, mgrVars, TokensOrdered, TokenIdentifiesState
  <1>5. ASSUME NEW s \in Scans, ScanStep(s)
        PROVE  TokensOrdered' /\ TokenIdentifiesState'
    <2>1. CASE Load(s)
      <3>1. /\ UNCHANGED <<issuerStatus, keyStatus, token, epochs>>
            /\ mgrToken' = token /\ token # NoToken
            /\ store' = Project(issuerStatus, keyStatus)
        BY <2>1 DEF Load, dbVars
      <3> QED
        BY <3>1 DEF TokensOrdered, TokenIdentifiesState, TypeOK
    <2>2. CASE UNCHANGED <<store, mgrToken>>
      BY <1>5, <2>2, ScanStepFrame DEF dbVars, TokensOrdered, TokenIdentifiesState
    <2> QED
      BY <1>5, <2>1, <2>2, ScanStepFrame
  <1>6. CASE UNCHANGED vars
    BY <1>6 DEF vars, TokensOrdered, TokenIdentifiesState
  <1> QED
    BY <1>1, <1>2, <1>3, <1>4, <1>5, <1>6, GovernanceRows DEF Next

\* The projection only shows a key revoked once its row is, for good.
LEMMA RevocationStep ==
    ASSUME IInv, [Next]_vars
    PROVE  /\ RevocationKnown'
           /\ \A c \in Certs : store.key[c] = "revoked" => store'.key[c] = "revoked"
  <1> USE DEF IInv
  <1>1. CASE Governance
    <2>1. store' = store
      BY <1>1, GovernanceRows DEF GovernanceWrite, LoseToken, mgrVars
    <2> QED
      BY <1>1, <2>1, GovernanceRows DEF RevocationKnown
  <1>2. ASSUME UNCHANGED <<store, keyStatus>>
        PROVE  /\ RevocationKnown'
               /\ \A c \in Certs : store.key[c] = "revoked" => store'.key[c] = "revoked"
    BY <1>2 DEF RevocationKnown
  <1>3. ASSUME NEW s \in Scans, Load(s)
        PROVE  /\ RevocationKnown'
               /\ \A c \in Certs : store.key[c] = "revoked" => store'.key[c] = "revoked"
    <2>1. store' = Project(issuerStatus, keyStatus) /\ keyStatus' = keyStatus
      BY <1>3 DEF Load, dbVars
    <2>2. keyStatus \in [Certs -> KeyStatuses]
      BY DEF TypeOK
    <2> QED
      BY <2>1, <2>2, ProjectRevoked DEF RevocationKnown
  <1>4. CASE Tick
    BY <1>2, <1>4 DEF Tick, dbVars, mgrVars
  <1>5. CASE \E s \in Scans, c \in Certs : Begin(s, c)
    BY <1>2, <1>5 DEF Begin, dbVars, mgrVars
  <1>6. CASE \E s \in Scans : ScanStep(s)
    BY <1>2, <1>3, <1>6, ScanStepFrame DEF dbVars
  <1>7. CASE UNCHANGED vars
    BY <1>2, <1>7 DEF vars
  <1> QED
    BY <1>1, <1>4, <1>5, <1>6, <1>7 DEF Next

-----------------------------------------------------------------------------
\* A successful probe or load confirms the store at the current time; no step
\* confirms it later than that.
LEMMA ConfirmStep ==
    ASSUME IInv, NEW s \in Scans, ScanStep(s)
    PROVE  /\ agreedAt <= agreedAt' /\ agreedAt' <= clock /\ agreedAt' \in Times
           /\ lastSuccess' # Never => lastSuccess' <= agreedAt'
  <1> USE DEF IInv
  <1>1. UNCHANGED <<dbVars, clock>> /\ Agree /\ clock \in Nat /\ calledAt[s] \in Nat
        /\ calledAt[s] <= clock /\ agreedAt \in Nat
        /\ lastSuccess \in Times \union {Never}
    BY ScanStepFrame, BoundsAssumption DEF TypeOK, Times, TimesOrdered
  <1>2. /\ agreedAt' \in Times /\ agreedAt <= agreedAt' /\ agreedAt' <= clock
        /\ store' = Project(issuerStatus, keyStatus) => agreedAt' = clock
    BY <1>1, AgreeMoves DEF TypeOK, TimesOrdered, dbVars
  <1>3. CASE Load(s)
    <2>1. store' = Project(issuerStatus, keyStatus) /\ lastSuccess' = calledAt[s]
      BY <1>3 DEF Load
    <2> QED
      BY <1>1, <1>2, <2>1
  <1>4. CASE ProbeReused(s)
    <2>1. store' = Project(issuerStatus, keyStatus) /\ lastSuccess' = calledAt[s]
      BY <1>4 DEF ProbeReused, TokenIdentifiesState
    <2> QED
      BY <1>1, <1>2, <2>1
  <1>5. CASE lastSuccess' = lastSuccess
    BY <1>1, <1>2, <1>5, BoundsAssumption DEF TimesOrdered, Times, TypeOK
  <1> QED
    BY <1>2, <1>3, <1>4, <1>5 DEF ScanStep, ProbeChanged, ProbeFailed, LoadFailed, Verify, mgrVars

\* An outcome other than "unavailable" bounds the age of what was confirmed.
LEMMA OutcomeBoundsAge ==
    ASSUME IInv, NEW s \in Scans, ScanStep(s), NEW outcome, outcome # "unavailable",
           \/ (ProbeReused(s) \/ Load(s))
           \/ (ProbeFailed(s) \/ LoadFailed(s)) /\ outcome = Degrade(calledAt[s])
    PROVE  agreedAt' >= calledAt[s] - MaxStaleness
  <1> USE DEF IInv
  <1>1. /\ calledAt[s] \in Nat /\ MaxStaleness \in Nat /\ agreedAt' \in Nat
        /\ lastSuccess' # Never => lastSuccess' <= agreedAt'
        /\ lastSuccess \in Nat \union {Never}
    BY ConfirmStep, BoundsAssumption DEF TypeOK, Times
  <1>2. CASE ProbeReused(s) \/ Load(s)
    <2>1. lastSuccess' = calledAt[s]
      BY <1>2 DEF ProbeReused, Load
    <2> QED
      BY <1>1, <2>1 DEF Never
  <1>3. CASE (ProbeFailed(s) \/ LoadFailed(s)) /\ outcome = Degrade(calledAt[s])
    <2>1. lastSuccess' = lastSuccess
      BY <1>3 DEF ProbeFailed, LoadFailed, mgrVars
    <2>2. lastSuccess # Never /\ ~(calledAt[s] - lastSuccess > MaxStaleness)
      BY <1>3, DegradeInBudget
    <2> QED
      BY <1>1, <2>1, <2>2
  <1> QED
    BY <1>2, <1>3

\* The clock readings stay ordered and confirmed records recent.
LEMMA TimeStep ==
    ASSUME IInv, [Next]_vars
    PROVE  TimesOrdered' /\ ConfirmedRecordIsRecent'
  <1> USE DEF IInv
  <1>0. /\ clock \in Nat /\ agreedAt \in Nat /\ MaxStaleness \in Nat
        /\ \A s \in Scans : began[s] \in Nat /\ calledAt[s] \in Nat
        /\ lastSuccess \in Times \union {Never}
    BY BoundsAssumption DEF TypeOK, Times
  <1>1. CASE UNCHANGED <<scanVars, lastSuccess>> /\ clock' \in Times /\ clock <= clock' /\ Agree
    <2>1. agreedAt <= agreedAt' /\ agreedAt' <= clock' /\ agreedAt' \in Times
      BY <1>1, AgreeMoves DEF TimesOrdered
    <2> QED
      BY <1>0, <1>1, <2>1 DEF TimesOrdered, ConfirmedRecordIsRecent, scanVars, localVars, Times
  <1>2. CASE Governance
    BY <1>0, <1>1, <1>2, GovernanceRows DEF GovernanceWrite, LoseToken, mgrVars, TypeOK
  <1>3. CASE Tick
    <2>1. clock' \in Times /\ clock <= clock'
      BY <1>3, BoundsAssumption DEF Tick, TypeOK, Times
    <2> QED
      BY <1>1, <1>3, <2>1 DEF Tick, mgrVars
  <1>4. ASSUME NEW s \in Scans, NEW c \in Certs, Begin(s, c)
        PROVE  TimesOrdered' /\ ConfirmedRecordIsRecent'
    <2>1. agreedAt <= agreedAt' /\ agreedAt' <= clock' /\ agreedAt' \in Times /\ clock' = clock
      BY <1>0, <1>4, AgreeMoves DEF Begin, TimesOrdered, TypeOK
    <2> QED
      BY <1>0, <1>4, <2>1 DEF Begin, mgrVars, TimesOrdered, ConfirmedRecordIsRecent, Times, TypeOK
  <1>5. ASSUME NEW s \in Scans, ScanStep(s)
        PROVE  TimesOrdered' /\ ConfirmedRecordIsRecent'
    <2>1. clock' = clock
      BY <1>5, ScanStepFrame
    <2>2. /\ agreedAt <= agreedAt' /\ agreedAt' <= clock /\ agreedAt' \in Times
          /\ lastSuccess' # Never => lastSuccess' <= agreedAt'
      BY <1>5, ConfirmStep
    <2>3. ASSUME NEW v, Answer(s, v)
          PROVE  TimesOrdered' /\ ConfirmedRecordIsRecent'
      BY <1>0, <2>1, <2>2, <2>3 DEF Answer, TimesOrdered, ConfirmedRecordIsRecent, TypeOK
    <2>4. ASSUME NEW l, pc' = [pc EXCEPT ![s] = l], UNCHANGED localVars,
                 l = "load1" \/ pc[s] \in {"ensure2", "load2"}
          PROVE  TimesOrdered' /\ ConfirmedRecordIsRecent'
      BY <1>0, <2>1, <2>2, <2>4 DEF localVars, TimesOrdered, ConfirmedRecordIsRecent, TypeOK
    <2>5. ASSUME NEW outcome, Return(s, outcome),
                 \/ (ProbeReused(s) \/ Load(s))
                 \/ (ProbeFailed(s) \/ LoadFailed(s)) /\ outcome = Degrade(calledAt[s])
          PROVE  TimesOrdered' /\ ConfirmedRecordIsRecent'
      <3>1. CASE pc[s] \in {"ensure2", "load2"} /\ ReturnSecond(s, outcome)
        BY <2>3, <2>4, <3>1 DEF ReturnSecond
      <3>2. CASE /\ ReturnFirst(s, outcome)
                 /\ ~Answer(s, "unknown")
        <4>1. /\ confirmed' = [confirmed EXCEPT ![s] = (outcome # "unavailable")]
              /\ recordAsOf' = [recordAsOf EXCEPT ![s] = agreedAt']
              /\ pc' = [pc EXCEPT ![s] = "ensure2"]
              /\ calledAt' = [calledAt EXCEPT ![s] = clock]
              /\ began' = began
          BY <3>2, Zenon DEF ReturnFirst
        <4>2. TimesOrdered'
          BY <1>0, <2>1, <2>2, <4>1 DEF TimesOrdered, TypeOK
        <4>3. ASSUME NEW t \in Scans, pc'[t] \in {"ensure2", "load2", "verify"}, confirmed'[t]
              PROVE  recordAsOf'[t] >= began'[t] - MaxStaleness
          <5>1. CASE t = s
            <6>1. confirmed'[s] = (outcome # "unavailable")
              BY <4>1, Zenon DEF TypeOK
            <6>2. outcome # "unavailable"
              BY <4>3, <5>1, <6>1, Zenon
            <6>3. agreedAt' >= calledAt[s] - MaxStaleness
              BY <1>5, <2>5, <6>2, OutcomeBoundsAge
            <6>4. recordAsOf'[s] = agreedAt'
              BY <4>1 DEF TypeOK
            <6> QED
              BY <1>0, <2>2, <4>1, <5>1, <6>3, <6>4, BoundsAssumption DEF TimesOrdered, Times
          <5>2. CASE t # s
            <6>1. confirmed'[t] = confirmed[t]
              BY <4>1, <5>2, Zenon DEF TypeOK
            <6>2. confirmed[t]
              BY <4>3, <6>1, Zenon
            <6>3. pc'[t] = pc[t] /\ recordAsOf'[t] = recordAsOf[t]
              BY <4>1, <5>2 DEF TypeOK
            <6> QED
              BY <4>1, <4>3, <6>2, <6>3 DEF ConfirmedRecordIsRecent
          <5> QED
            BY <5>1, <5>2
        <4> QED
          BY <4>2, <4>3 DEF ConfirmedRecordIsRecent
      <3>3. CASE Answer(s, "unknown")
        BY <2>3, <3>3
      <3> QED
        BY <2>5, <3>1, <3>2, <3>3 DEF Return
    <2>6. CASE Verify(s)
      BY <2>3, <2>6 DEF Verify
    <2>7. CASE ProbeChanged(s)
      <3>1. UNCHANGED localVars
        BY <2>7 DEF ProbeChanged
      <3>2. \/ pc' = [pc EXCEPT ![s] = "load1"]
            \/ pc' = [pc EXCEPT ![s] = "load2"] /\ pc[s] = "ensure2"
        BY <2>7 DEF ProbeChanged, TypeOK
      <3> QED
        BY <2>4, <3>1, <3>2
    <2>8. CASE ProbeReused(s) \/ Load(s)
      BY <2>5, <2>8 DEF ProbeReused, Load
    <2>9. CASE ProbeFailed(s) \/ LoadFailed(s)
      BY <2>5, <2>9 DEF ProbeFailed, LoadFailed
    <2> QED
      BY <1>5, <2>6, <2>7, <2>8, <2>9 DEF ScanStep
  <1>6. CASE UNCHANGED vars
    BY <1>6 DEF vars, TimesOrdered, ConfirmedRecordIsRecent
  <1> QED
    BY <1>2, <1>3, <1>4, <1>5, <1>6 DEF Next

-----------------------------------------------------------------------------
\* The initial states satisfy the inductive invariant.
LEMMA InitInv == Init => IInv
  <1> SUFFICES ASSUME Init PROVE IInv
    OBVIOUS
  <1>1. TypeOK
    BY BoundsAssumption DEF Init, TypeOK, NoToken, NoRecord, Times, Snapshots, IssuerStatuses,
          KeyStatuses, IssuerStates, KeyStates, Locations, Verdicts
  <1>2. TokensOrdered /\ TokenIdentifiesState
    BY DEF Init, TokensOrdered, TokenIdentifiesState, NoToken
  <1>3. TimesOrdered /\ ConfirmedRecordIsRecent
    BY DEF Init, TimesOrdered, ConfirmedRecordIsRecent
  <1>4. RevocationKnown
    BY DEF Init, RevocationKnown
  <1> QED
    BY <1>1, <1>2, <1>3, <1>4 DEF IInv

\* The inductive invariant holds in every reachable state.
LEMMA Invariance == Spec => []IInv
  <1>1. IInv /\ [Next]_vars => IInv'
    BY TypeStep, TokenStep, RevocationStep, TimeStep DEF IInv
  <1> QED
    BY InitInv, <1>1, PTL DEF Spec

\* The state of governance, manager and scans keeps its types.
THEOREM TypeCorrect == Spec => []TypeOK
  BY Invariance, PTL DEF IInv

\* For any number of writes, token losses and failures, a store loaded under
\* the database's current token is the database's current trust state: the
\* "reused" answer of ensure_fresh is sound.
THEOREM TokenSound == Spec => []TokenIdentifiesState
  BY Invariance, PTL DEF IInv

\* For any budget, a scan whose first ensure_fresh call was not "unavailable"
\* judges a record no older than the budget.
THEOREM ConfirmedRecordsRecent == Spec => []ConfirmedRecordIsRecent
  BY Invariance, PTL DEF IInv

\* For any number of scans, the manager's lock is held exactly by the scan that
\* is loading, whatever fails on the way.
THEOREM LockNeverLeaked == Spec => []LockHeldByItsLoad
  <1>1. Init => LockHeldByItsLoad
    BY NoScanAssumption DEF Init, LockHeldByItsLoad
  <1>2. TypeOK /\ LockHeldByItsLoad /\ [Next]_vars => LockHeldByItsLoad'
    <2> SUFFICES ASSUME TypeOK, LockHeldByItsLoad, [Next]_vars
                 PROVE  LockHeldByItsLoad'
      OBVIOUS
    <2> USE NoScanAssumption DEF LockHeldByItsLoad
    <2>2. CASE Governance \/ Tick \/ UNCHANGED vars
      <3>1. UNCHANGED <<holder, pc>>
        BY <2>2 DEF Governance, EnrollIssuer, UpdateIssuerStatus, EnrollCertificate,
              UpdateCertificateStatus, LoseToken, GovernanceWrite, Tick, mgrVars, scanVars, vars
      <3> QED
        BY <3>1
    <2>3. ASSUME NEW s \in Scans, NEW c \in Certs, Begin(s, c)
          PROVE  LockHeldByItsLoad'
      BY <2>3 DEF Begin, mgrVars, TypeOK
    <2>4. ASSUME NEW s \in Scans, ScanStep(s)
          PROVE  LockHeldByItsLoad'
      <3>1. ASSUME NEW o, Return(s, o)
            PROVE  \E l \in {"idle", "ensure2", "verify"} : pc' = [pc EXCEPT ![s] = l]
        BY <3>1 DEF Return, ReturnFirst, ReturnSecond, Answer
      <3>2. CASE ProbeReused(s) \/ ProbeFailed(s)
        BY <3>1, <3>2 DEF ProbeReused, ProbeFailed, mgrVars, TypeOK
      <3>3. CASE ProbeChanged(s)
        BY <3>3 DEF ProbeChanged, TypeOK
      <3>4. CASE Load(s) \/ LoadFailed(s)
        BY <3>1, <3>4 DEF Load, LoadFailed, TypeOK
      <3>5. CASE Verify(s)
        BY <3>5 DEF Verify, Answer, mgrVars, TypeOK
      <3> QED
        BY <2>4, <3>2, <3>3, <3>4, <3>5 DEF ScanStep
    <2> QED
      BY <2>2, <2>3, <2>4 DEF Next
  <1> QED
    BY <1>1, <1>2, TypeCorrect, PTL DEF Spec

\* No reload of the projection ever un-revokes a key.
THEOREM RevocationsTerminal == Spec => RevocationIsTerminal
  <1>1. IInv /\ [Next]_vars
          => [\A c \in Certs : store.key[c] = "revoked" => store'.key[c] = "revoked"]_vars
    BY RevocationStep
  <1> QED
    BY Invariance, <1>1, PTL DEF Spec, RevocationIsTerminal
=============================================================================
