---------------------------- MODULE EventOutbox ----------------------------
(***************************************************************************)
(* The transactional event outbox: rows of qr_trust.event_outbox, the      *)
(* relay workers that claim them under a lease and publish them to         *)
(* JetStream, the supervisor loop around each worker, and the operator's   *)
(* remediation endpoint.                                                   *)
(*                                                                         *)
(* Events are numbered in created_at order, the order the claim query      *)
(* sorts by; they are inserted in any order.                               *)
(***************************************************************************)
EXTENDS Integers, FiniteSets

CONSTANTS
    Events,         \* the event ids that may be enqueued, a set of naturals
    Malformed,      \* the events whose payload or type the publisher rejects
    Workers,        \* the relay processes sharing the table
    BatchSize,      \* batch_size of a claim
    MaxAttempts,    \* max_retry_attempts
    ClaimTTL,       \* claim_ttl_ms, in clock ticks
    IdleLimit,      \* idle_iteration_limit
    Prompt,         \* TRUE: a pass never outlives the lease it claimed under
    MaxCrashes,     \* bound: process crashes and database errors
    MaxRemediations \* bound: operator remediations

ASSUME EventsAssumption == Events \subseteq Nat
ASSUME MalformedAssumption == Malformed \subseteq Events

\* loadRuntimeConfig refuses to start a worker with anything else.
RuntimeConfig == {BatchSize, MaxAttempts, ClaimTTL, IdleLimit} \subseteq Nat \ {0}

ASSUME ParametersAssumption ==
    /\ RuntimeConfig
    /\ Prompt \in BOOLEAN
    /\ MaxCrashes \in Nat
    /\ MaxRemediations \in Nat

VARIABLES
    status,       \* publish_status of the row, "absent" before the insert
    attempts,     \* attempts column, counted up to MaxAttempts
    lease,        \* ticks until claim_expires_at, 0 when expired or null
    pc,           \* where each worker is in processOnce
    todo,         \* rows a worker has claimed and not yet published
    successes,    \* rows the running pass saw the broker accept
    failures,     \* rows the running pass failed to publish
    idle,         \* idleIterations of each supervisor
    delivered,    \* event ids stored in the JetStream stream
    crashes,
    remediations

rowVars == <<status, attempts, lease>>
passVars == <<pc, todo, successes, failures, idle>>
vars == <<status, attempts, lease, pc, todo, successes, failures, idle,
          delivered, crashes, remediations>>

Statuses ==
    {"absent", "pending", "publishing", "published", "failed", "quarantined"}

Locations == {"stopped", "poll", "publish", "markPublished", "markFailed"}

Init ==
    /\ status = [e \in Events |-> "absent"]
    /\ attempts = [e \in Events |-> 0]
    /\ lease = [e \in Events |-> 0]
    /\ pc = [w \in Workers |-> "poll"]
    /\ todo = [w \in Workers |-> {}]
    /\ successes = [w \in Workers |-> {}]
    /\ failures = [w \in Workers |-> {}]
    /\ idle = [w \in Workers |-> 0]
    /\ delivered = {}
    /\ crashes = 0
    /\ remediations = 0

-----------------------------------------------------------------------------
\* insert ... on conflict (event_id) do nothing: a second insert is a no-op.
Enqueue(e) ==
    /\ status[e] = "absent"
    /\ status' = [status EXCEPT ![e] = "pending"]
    /\ UNCHANGED <<attempts, lease, passVars, delivered, crashes, remediations>>

\* Mutants: attempts compared with <=, a claim that ignores the lease, a claim
\* query that never takes over expired rows.
ClaimableOneMore(e) ==
    \/ status[e] = "pending"
    \/ status[e] = "publishing" /\ lease[e] = 0
    \/ status[e] = "failed" /\ attempts[e] <= MaxAttempts
ClaimableWithoutTakeover(e) ==
    \/ status[e] = "pending"
    \/ status[e] = "failed" /\ attempts[e] < MaxAttempts

\* The rows the claim query selects. An expired claim is taken over whatever
\* its attempts; a failed row only while attempts are left.
Claimable(e) ==
    \/ status[e] = "pending"
    \/ status[e] = "publishing" /\ lease[e] = 0
    \/ status[e] = "failed" /\ attempts[e] < MaxAttempts

\* The oldest BatchSize claimable rows: order by created_at limit $3.
NextRows ==
    LET C == {e \in Events : Claimable(e)}
    IN  {e \in C : Cardinality({d \in C : d < e}) < BatchSize}

\* attempts is read only by the comparison with MaxAttempts: counts beyond it
\* are not told apart.
CountAttempt(n) == IF n < MaxAttempts THEN n + 1 ELSE n

\* claimPending: one statement under "for update skip locked".
Claim(w) ==
    /\ pc[w] = "poll"
    /\ NextRows # {}
    /\ status' = [e \in Events |->
                     IF e \in NextRows THEN "publishing" ELSE status[e]]
    /\ attempts' = [e \in Events |->
                     IF e \in NextRows THEN CountAttempt(attempts[e]) ELSE attempts[e]]
    /\ lease' = [e \in Events |->
                     IF e \in NextRows THEN ClaimTTL ELSE lease[e]]
    /\ todo' = [todo EXCEPT ![w] = NextRows]
    /\ pc' = [pc EXCEPT ![w] = "publish"]
    /\ UNCHANGED <<successes, failures, idle, delivered, crashes, remediations>>

\* An empty claim ends the pass at once; the supervisor stops at IdleLimit.
ClaimNothing(w) ==
    /\ pc[w] = "poll"
    /\ NextRows = {}
    /\ idle' = [idle EXCEPT ![w] = @ + 1]
    /\ pc' = [pc EXCEPT ![w] = IF idle[w] + 1 >= IdleLimit THEN "stopped" ELSE "poll"]
    /\ UNCHANGED <<rowVars, todo, successes, failures, delivered, crashes, remediations>>

\* The publisher moves row e of the batch to the successes or the failures;
\* after the last row the pass goes on to mark them.
Recorded(w, e) ==
    /\ todo' = [todo EXCEPT ![w] = @ \ {e}]
    /\ pc' = [pc EXCEPT ![w] = IF todo[w] = {e} THEN "markPublished" ELSE "publish"]
    /\ UNCHANGED <<rowVars, idle, crashes, remediations>>

\* JetStream stores the message (once, by Nats-Msg-Id) and acknowledges it.
PublishAccepted(w, e) ==
    /\ pc[w] = "publish" /\ e \in todo[w] \ Malformed
    /\ delivered' = delivered \union {e}
    /\ successes' = [successes EXCEPT ![w] = @ \union {e}]
    /\ UNCHANGED failures
    /\ Recorded(w, e)

\* The row does not decode, its event type or root forms no subject, the
\* broker refuses it, or the acknowledgement is lost after it was stored.
PublishFailed(w, e) ==
    /\ pc[w] = "publish" /\ e \in todo[w]
    /\ delivered' \in {delivered, delivered \union ({e} \ Malformed)}
    /\ failures' = [failures EXCEPT ![w] = @ \union {e}]
    /\ UNCHANGED successes
    /\ Recorded(w, e)

\* The update of mark_published and mark_failed: by outbox_id alone, whatever
\* the row's status and claimant are by now.
SetStatus(S, s) ==
    /\ status' = [e \in Events |-> IF e \in S THEN s ELSE status[e]]
    /\ lease' = [e \in Events |-> IF e \in S THEN 0 ELSE lease[e]]

\* Mutant: the whole batch is marked published, not the accepted rows.
MarkPublishedWholeBatch(w) ==
    /\ pc[w] = "markPublished"
    /\ SetStatus(successes[w] \union failures[w], "published")
    /\ successes' = [successes EXCEPT ![w] = {}]
    /\ pc' = [pc EXCEPT ![w] = "markFailed"]
    /\ UNCHANGED <<attempts, todo, failures, idle, delivered, crashes, remediations>>

\* markPublished(successes), skipped by the code when there are none.
MarkPublished(w) ==
    /\ pc[w] = "markPublished"
    /\ SetStatus(successes[w], "published")
    /\ successes' = [successes EXCEPT ![w] = {}]
    /\ pc' = [pc EXCEPT ![w] = "markFailed"]
    /\ UNCHANGED <<attempts, todo, failures, idle, delivered, crashes, remediations>>

\* The second update, after which the pass has claimed something: idle is reset.
MarkFailed(w) ==
    /\ pc[w] = "markFailed"
    /\ SetStatus(failures[w], "failed")
    /\ failures' = [failures EXCEPT ![w] = {}]
    /\ idle' = [idle EXCEPT ![w] = 0]
    /\ pc' = [pc EXCEPT ![w] = "poll"]
    /\ UNCHANGED <<attempts, todo, successes, delivered, crashes, remediations>>

\* The process forgets its pass; the table keeps the claims.
Halt(w) ==
    /\ pc' = [pc EXCEPT ![w] = "stopped"]
    /\ todo' = [todo EXCEPT ![w] = {}]
    /\ successes' = [successes EXCEPT ![w] = {}]
    /\ failures' = [failures EXCEPT ![w] = {}]

\* The shutdown signal is looked at between passes only.
Shutdown(w) ==
    /\ pc[w] = "poll"
    /\ crashes < MaxCrashes
    /\ crashes' = crashes + 1
    /\ Halt(w)
    /\ UNCHANGED <<rowVars, idle, delivered, remediations>>

\* A crash, or a failed SQL statement, which ends the supervisor's run.
Crash(w) ==
    /\ pc[w] \notin {"stopped", "poll"}
    /\ crashes < MaxCrashes
    /\ crashes' = crashes + 1
    /\ Halt(w)
    /\ UNCHANGED <<rowVars, idle, delivered, remediations>>

\* The container runs with restart: unless-stopped.
Restart(w) ==
    /\ pc[w] = "stopped"
    /\ pc' = [pc EXCEPT ![w] = "poll"]
    /\ idle' = [idle EXCEPT ![w] = 0]
    /\ UNCHANGED <<rowVars, todo, successes, failures, delivered, crashes, remediations>>

-----------------------------------------------------------------------------
\* POST /outbox/events/remediate: any row but a published one.
Remediable(e) == status[e] \in {"pending", "publishing", "failed", "quarantined"}

Retry(e) ==
    /\ Remediable(e)
    /\ remediations < MaxRemediations
    /\ remediations' = remediations + 1
    /\ status' = [status EXCEPT ![e] = "pending"]
    /\ attempts' = [attempts EXCEPT ![e] = 0]
    /\ lease' = [lease EXCEPT ![e] = 0]
    /\ UNCHANGED <<passVars, delivered, crashes>>

Quarantine(e) ==
    /\ Remediable(e)
    /\ remediations < MaxRemediations
    /\ remediations' = remediations + 1
    /\ status' = [status EXCEPT ![e] = "quarantined"]
    /\ lease' = [lease EXCEPT ![e] = 0]
    /\ UNCHANGED <<attempts, passVars, delivered, crashes>>

-----------------------------------------------------------------------------
\* The rows a worker's pass still has in its hands.
Held(w) == todo[w] \union successes[w] \union failures[w]

\* Time passes. Under Prompt no lease runs out while its pass is going on.
Tick ==
    /\ \E e \in Events : lease[e] > 0
    /\ Prompt => \A w \in Workers : \A e \in Held(w) : lease[e] # 1
    /\ lease' = [e \in Events |-> IF lease[e] > 0 THEN lease[e] - 1 ELSE 0]
    /\ UNCHANGED <<status, attempts, passVars, delivered, crashes, remediations>>

WorkerStep(w) ==
    \/ Claim(w)
    \/ ClaimNothing(w)
    \/ \E e \in Events : PublishAccepted(w, e) \/ PublishFailed(w, e)
    \/ MarkPublished(w)
    \/ MarkFailed(w)
    \/ Restart(w)

Next ==
    \/ \E e \in Events : Enqueue(e) \/ Retry(e) \/ Quarantine(e)
    \/ \E w \in Workers : WorkerStep(w) \/ Shutdown(w) \/ Crash(w)
    \/ Tick

Spec == Init /\ [][Next]_vars

\* The workers' event loops run, their container is restarted, and time passes.
Fairness ==
    /\ \A w \in Workers : WF_vars(WorkerStep(w))
    /\ WF_vars(Tick)

FairSpec == Spec /\ Fairness

-----------------------------------------------------------------------------
\* Types, and what each location of a pass implies about its batch.
TypeOK ==
    /\ status \in [Events -> Statuses]
    /\ attempts \in [Events -> 0..MaxAttempts]
    /\ lease \in [Events -> 0..ClaimTTL]
    /\ pc \in [Workers -> Locations]
    /\ todo \in [Workers -> SUBSET Events]
    /\ successes \in [Workers -> SUBSET Events]
    /\ failures \in [Workers -> SUBSET Events]
    /\ idle \in [Workers -> 0..IdleLimit]
    /\ delivered \subseteq Events
    /\ crashes \in 0..MaxCrashes
    /\ remediations \in 0..MaxRemediations

\* A row says "published" only when the broker holds its event. Stale workers,
\* crashes between the publish and the two updates, lost acknowledgements and
\* remediations cannot make the table claim a delivery that did not happen.
PublishedIsDelivered ==
    \A e \in Events : status[e] = "published" => e \in delivered

\* Two workers never work on one row at the same time (claimed under the
\* skip-locked lease), provided passes are prompt and nobody remediates.
ClaimIsExclusive ==
    \A v, w \in Workers : v # w => Held(v) \intersect Held(w) = {}

\* "published outbox events are immutable".
PublishedIsFinal ==
    [][\A e \in Events : status[e] = "published" => status'[e] = "published"]_vars

\* The row is parked: quarantined, or failed with its attempts used up.
Parked(e) ==
    \/ status[e] = "quarantined"
    \/ status[e] = "failed" /\ attempts[e] = MaxAttempts

\* "Quarantined rows are intentionally held out of NATS propagation", and so
\* are exhausted ones: a parked row moves again only for the operator, or for a
\* worker that still had it in its hands when it was parked.
ParkedRowIsLeftAlone ==
    [][\A e \in Events :
          Parked(e) /\ status'[e] # status[e]
              => \/ remediations' # remediations
                 \/ \E w \in Workers : e \in Held(w)]_vars

\* The row needs no further work: it was published, quarantined, or is failed
\* with its attempts used up.
Settled(e) == status[e] = "published" \/ Parked(e)

\* Every committed event is eventually settled for good, through broker
\* failures, idle shutdowns and finitely many crashes and remediations.
EventuallySettled ==
    <>[](\A e \in Events : status[e] = "absent" \/ Settled(e))

-----------------------------------------------------------------------------
\* The outbox implements the relay: a row is recorded once it was inserted and
\* confirmed while its status is "published".
Relay == INSTANCE EventRelay WITH
    recorded <- {e \in Events : status[e] # "absent"},
    confirmed <- {e \in Events : status[e] = "published"}

\* Every behaviour of rows, leases, workers and remediations is a behaviour of
\* the relay: nothing is delivered that was not committed first, nothing is
\* reported as published that the broker does not hold, deliveries are never
\* taken back.
ImplementsRelay == Relay!Spec
=============================================================================
