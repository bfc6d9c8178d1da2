--------------------------- MODULE ManagementPlane ---------------------------
(***************************************************************************)
(* record_governance_mutation: one Postgres transaction that claims the    *)
(* Idempotency-Key, writes the governance row, bumps the trust state,      *)
(* appends the audit row, inserts the outbox event and completes the key.  *)
(* Several requests run at once, any of them may fail at any point, lose   *)
(* its reply, and be sent again by its client.                             *)
(*                                                                         *)
(* One governance row is modelled. Uncommitted writes are visible to no    *)
(* one else; a transaction keeps the row locks it took until it ends.      *)
(***************************************************************************)
EXTENDS Naturals, Sequences, FiniteSets

CONSTANTS
    Clients,       \* connections that send mutations
    NoClient,      \* nobody holds a lock
    Keys,          \* Idempotency-Key header values
    NoKey,         \* a request without the header
    RequestIds,    \* X-Request-ID values
    Values,        \* what a mutation may set the governance row to
    Absent,        \* the governance row does not exist
    FreshIds,      \* TRUE: no request id is sent twice
    KeyRequired,   \* TRUE: every request carries an Idempotency-Key
    MaxCommits,    \* bound: committed mutations
    MaxExpiries,   \* bound: keys that pass their 24 hours
    MaxFaults      \* bound: aborted transactions and lost replies

ASSUME DistinctAssumption ==
    /\ NoClient \notin Clients
    /\ NoKey \notin Keys
    /\ Absent \notin Values
ASSUME SwitchAssumption == FreshIds \in BOOLEAN /\ KeyRequired \in BOOLEAN
ASSUME BoundsAssumption == MaxCommits \in Nat /\ MaxExpiries \in Nat /\ MaxFaults \in Nat

\* must: require_state_rows, the mutation only updates an existing row.
Requests == [key : Keys \union (IF KeyRequired THEN {} ELSE {NoKey}),
             rid : RequestIds, value : Values, must : BOOLEAN]

VARIABLES
    row,        \* the governance row
    version,    \* governance_versions.version
    audit,      \* governance_audit_log: the mutations committed, in order
    outbox,     \* event_outbox: event ids with the mutation they announce
    idem,       \* idempotency_keys: request hash and expiry of a completed key
    generation, \* history: how often each key has expired
    keyLock,    \* the transaction holding the key's row
    rowLock,    \* the transaction holding the governance row
    step,
    request,    \* the mutation a client has sent
    reply,      \* what it was told
    issued,     \* request ids sent so far
    expiries,
    faults

txVars == <<keyLock, rowLock, step, request, reply, issued>>
dbVars == <<row, version, audit, outbox, idem, generation>>
mutationVars == <<row, version, audit, outbox, idem, generation, keyLock, rowLock, step,
          request, reply, issued, expiries, faults>>

NoEntry == [status |-> "absent"]
NoRequest == [key |-> NoKey]

\* _request_hash covers the principal and the mutation, not the request id.
RequestHash(r) == [value |-> r.value, must |-> r.must]

\* Mutant: the key alone identifies the event.
EventIdOfKey(r) ==
    IF r.key = NoKey THEN [rid |-> r.rid] ELSE [key |-> r.key]

\* _event_deduplication_key and _event_id: action and target are the same for
\* all mutations of the one row.
EventId(r) ==
    IF r.key = NoKey THEN [rid |-> r.rid]
                     ELSE [rid |-> r.rid, key |-> r.key, hash |-> RequestHash(r)]

MutationInit ==
    /\ row = Absent
    /\ version = 1
    /\ audit = <<>>
    /\ outbox = {}
    /\ idem = [k \in Keys |-> NoEntry]
    /\ generation = [k \in Keys |-> 0]
    /\ keyLock = [k \in Keys |-> NoClient]
    /\ rowLock = NoClient
    /\ step = [c \in Clients |-> "idle"]
    /\ request = [c \in Clients |-> NoRequest]
    /\ reply = [c \in Clients |-> "none"]
    /\ issued = {}
    /\ expiries = 0
    /\ faults = 0

-----------------------------------------------------------------------------
\* A request arrives; it may be one the client has sent before.
Submit(c, r) ==
    /\ step[c] = "idle"
    /\ FreshIds => r.rid \notin issued
    /\ Len(audit) < MaxCommits
    /\ issued' = issued \union {r.rid}
    /\ request' = [request EXCEPT ![c] = r]
    /\ reply' = [reply EXCEPT ![c] = "none"]
    /\ step' = [step EXCEPT ![c] = IF r.key = NoKey THEN "write" ELSE "begin"]
    /\ UNCHANGED <<dbVars, keyLock, rowLock, expiries, faults>>

\* Mutant: the transaction is over but the key's row stays locked.
FinishKeepingKey(c, answer) ==
    /\ step' = [step EXCEPT ![c] = "idle"]
    /\ reply' = [reply EXCEPT ![c] = answer]
    /\ rowLock' = IF rowLock = c THEN NoClient ELSE rowLock
    /\ request' = [request EXCEPT ![c] = NoRequest]
    /\ UNCHANGED <<keyLock, issued>>

\* The transaction of c is over and its locks are free.
Finish(c, answer) ==
    /\ step' = [step EXCEPT ![c] = "idle"]
    /\ reply' = [reply EXCEPT ![c] = answer]
    /\ keyLock' = [k \in Keys |-> IF keyLock[k] = c THEN NoClient ELSE keyLock[k]]
    /\ rowLock' = IF rowLock = c THEN NoClient ELSE rowLock
    /\ request' = [request EXCEPT ![c] = NoRequest]
    /\ UNCHANGED issued

\* Mutant: the claim does not wait for a transaction in progress.
KeyFreeAlways(c) == request[c].key \in Keys

\* The key's row is not locked by another transaction: the insert ... on
\* conflict goes ahead instead of waiting.
KeyFree(c) == keyLock[request[c].key] = NoClient

\* The key is claimed when it has no row or an expired one.
Fresh(e) == e.status \in {"absent", "expired"}

\* _IDEMPOTENCY_BEGIN inserts the key, or takes over its expired row.
BeginFresh(c) ==
    /\ step[c] = "begin" /\ KeyFree(c)
    /\ Fresh(idem[request[c].key])
    /\ keyLock' = [keyLock EXCEPT ![request[c].key] = c]
    /\ step' = [step EXCEPT ![c] = "write"]
    /\ UNCHANGED <<dbVars, rowLock, request, reply, issued, expiries, faults>>

\* The key was completed for the same request: its result is replayed.
Replay(c) ==
    /\ step[c] = "begin" /\ KeyFree(c)
    /\ ~Fresh(idem[request[c].key])
    /\ idem[request[c].key].hash = RequestHash(request[c])
    /\ Finish(c, "replayed")
    /\ UNCHANGED <<dbVars, expiries, faults>>

\* It was completed for another request: IdempotencyConflictError.
Conflict(c) ==
    /\ step[c] = "begin" /\ KeyFree(c)
    /\ ~Fresh(idem[request[c].key])
    /\ idem[request[c].key].hash # RequestHash(request[c])
    /\ Finish(c, "conflict")
    /\ UNCHANGED <<dbVars, expiries, faults>>

\* The state SQL, then the bump of the trust state: both rows stay locked.
WriteState(c) ==
    /\ step[c] = "write"
    /\ rowLock = NoClient
    /\ request[c].must => row # Absent
    /\ rowLock' = c
    /\ step' = [step EXCEPT ![c] = "commit"]
    /\ UNCHANGED <<dbVars, keyLock, request, reply, issued, expiries, faults>>

\* No row was changed: GovernancePreconditionFailedError rolls back the key.
PreconditionFailed(c) ==
    /\ step[c] = "write"
    /\ rowLock = NoClient
    /\ request[c].must /\ row = Absent
    /\ Finish(c, "precondition")
    /\ UNCHANGED <<dbVars, expiries, faults>>

\* The writes of the transaction of request r become visible together. An
\* outbox row with the same event id is left as it is.
Effects(r) ==
    /\ row' = r.value
    /\ version' = version + 1
    /\ audit' = Append(audit,
            [request |-> r,
             generation |-> IF r.key = NoKey THEN 0 ELSE generation[r.key]])
    /\ outbox' = IF \E e \in outbox : e.id = EventId(r) THEN outbox
                 ELSE outbox \union {[id |-> EventId(r), value |-> r.value]}
    /\ idem' = [k \in Keys |-> IF k = r.key
                                 THEN [status |-> "completed", hash |-> RequestHash(r)]
                                 ELSE idem[k]]
    /\ UNCHANGED generation

\* Audit row, outbox row, completion of the key, commit. The reply may be lost.
Commit(c) ==
    /\ step[c] = "commit"
    /\ Effects(request[c])
    /\ \/ Finish(c, "done") /\ faults' = faults
       \/ Finish(c, "error") /\ faults < MaxFaults /\ faults' = faults + 1
    /\ UNCHANGED expiries

\* The connection or a statement fails before the commit: all is rolled back.
Abort(c) ==
    /\ step[c] # "idle"
    /\ faults < MaxFaults
    /\ faults' = faults + 1
    /\ Finish(c, "error")
    /\ UNCHANGED <<dbVars, expiries>>

\* 24 hours pass for a completed key.
Expire(k) ==
    /\ idem[k].status = "completed"
    /\ keyLock[k] = NoClient
    /\ expiries < MaxExpiries
    /\ expiries' = expiries + 1
    /\ idem' = [idem EXCEPT ![k].status = "expired"]
    /\ generation' = [generation EXCEPT ![k] = @ + 1]
    /\ UNCHANGED <<row, version, audit, outbox, txVars, faults>>

Transaction(c) ==
    \/ BeginFresh(c)
    \/ Replay(c)
    \/ Conflict(c)
    \/ WriteState(c)
    \/ PreconditionFailed(c)
    \/ Commit(c)

MutationNext ==
    \/ \E c \in Clients, r \in Requests : Submit(c, r)
    \/ \E c \in Clients : Transaction(c) \/ Abort(c)
    \/ \E k \in Keys : Expire(k)

MutationSpec == MutationInit /\ [][MutationNext]_mutationVars

\* Postgres wakes the waiters of a lock in turn, none is overtaken for ever.
FairMutationSpec == MutationSpec /\ \A c \in Clients : SF_mutationVars(Transaction(c))

-----------------------------------------------------------------------------
Replies == {"none", "done", "replayed", "conflict", "precondition", "error"}
Hashes == [value : Values, must : BOOLEAN]

\* Types, and who holds which lock: a key's row is locked by the transaction
\* that claimed it, the governance row by the one about to commit.
MutationTypeOK ==
    /\ row \in Values \union {Absent}
    /\ version = Len(audit) + 1
    /\ idem \in [Keys -> {NoEntry} \union [status : {"completed", "expired"}, hash : Hashes]]
    /\ step \in [Clients -> {"idle", "begin", "write", "commit"}]
    /\ reply \in [Clients -> Replies]
    /\ request \in [Clients -> Requests \union {NoRequest}]
    /\ issued \subseteq RequestIds
    /\ \A k \in Keys : keyLock[k] # NoClient =>
          step[keyLock[k]] \in {"write", "commit"} /\ request[keyLock[k]].key = k
    /\ \A c \in Clients : rowLock = c <=> step[c] = "commit"

Of(k) == {i \in DOMAIN audit : audit[i].request.key = k}

\* "completed retries replay the recorded result ... without duplicating audit
\* or outbox rows": between two expiries a key's mutation is applied at most
\* once, through concurrent duplicates, aborts, lost replies and retries.
AppliedOnce ==
    \A k \in Keys : \A i, j \in Of(k) :
        audit[i].generation = audit[j].generation => i = j

\* A key is completed exactly when its mutation was applied since the last
\* expiry, and it then stands for that mutation: no failure in the middle of a
\* transaction leaves a key that blocks its retry or replays nothing.
CompletedIffApplied ==
    \A k \in Keys :
        LET applied == {i \in Of(k) : audit[i].generation = generation[k]}
        IN  /\ idem[k].status = "completed" <=> applied # {}
            /\ \A i \in applied : RequestHash(audit[i].request) = idem[k].hash

\* Every committed change of governance state is announced by an event of its
\* own: one outbox row per audit row.
EveryChangeAnnounced == Cardinality(outbox) = Len(audit)

\* Every request is answered: no cycle of key and row locks, no lock left
\* behind by a transaction that failed.
EveryRequestAnswered ==
    \A c \in Clients : step[c] # "idle" ~> step[c] = "idle"
=============================================================================
