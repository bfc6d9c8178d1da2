---------------------------- MODULE OutboxHealth ----------------------------
(***************************************************************************)
(* What the supervisors report of the outbox: after every pass of its      *)
(* worker, and before the next one, a supervisor loads a metrics snapshot  *)
(* of the whole table and sums it up. The snapshot is a query of its own:  *)
(* other workers, remediations and time come between it and the pass.      *)
(***************************************************************************)
EXTENDS EventOutbox

VARIABLES
    owed,       \* the supervisors that have a snapshot to load before they go on
    health      \* the last summary of each supervisor

healthVars == <<vars, owed, health>>

HealthInit == Init /\ owed = {} /\ health = [w \in Workers |-> "none"]

\* Mutant: exhausted rows are left out of the failed ones.
FailedRowsRetryable == {e \in Events : status[e] = "failed" /\ attempts[e] < MaxAttempts}

\* eventOutboxMetricsSnapshotCommand: the filters of the counts
PendingRows == {e \in Events : status[e] = "pending"}
FailedRows == {e \in Events : status[e] = "failed"}
StaleClaims == {e \in Events : status[e] = "publishing" /\ lease[e] = 0}
RetryableFailed == {e \in Events : status[e] = "failed" /\ attempts[e] < MaxAttempts}

\* summarizeEventOutboxHealth. old: the oldest pending row is a minute old. Quarantined
\* rows are in none of the counts.
Summary(old) ==
    CASE FailedRows # {} \/ StaleClaims # {} -> "blocked"
      [] FailedRows \union StaleClaims = {} /\ (old \/ RetryableFailed # {}) -> "degraded"
      [] OTHER -> "healthy"

\* loadSnapshot, after the pass and before the idle limit stops the supervisor
Observe(w) ==
    /\ w \in owed
    /\ owed' = owed \ {w}
    /\ \E old \in {FALSE, PendingRows # {}} : health' = [health EXCEPT ![w] = Summary(old)]
    /\ UNCHANGED vars

\* The query or the decoding of its row fails, which ends the supervisor's run.
ObserveFails(w) ==
    /\ w \in owed
    /\ crashes < MaxCrashes
    /\ crashes' = crashes + 1
    /\ Halt(w)
    /\ owed' = owed \ {w}
    /\ UNCHANGED <<rowVars, idle, delivered, remediations, health>>

\* A pass ends with an empty claim or with the second of the two updates.
PassEnds(w) == ClaimNothing(w) \/ MarkFailed(w)

\* A step of a worker whose supervisor waits for no snapshot
SupervisedStep(w) ==
    /\ w \notin owed
    /\ \/ PassEnds(w) /\ owed' = owed \union {w}
       \/ /\ Claim(w) \/ MarkPublished(w) \/ Restart(w)
             \/ \E e \in Events : PublishAccepted(w, e) \/ PublishFailed(w, e)
          /\ UNCHANGED owed
    /\ UNCHANGED health

HealthNext ==
    \/ \E e \in Events : (Enqueue(e) \/ Retry(e) \/ Quarantine(e)) /\ UNCHANGED <<owed, health>>
    \/ \E w \in Workers : SupervisedStep(w) \/ Observe(w) \/ ObserveFails(w)
    \/ \E w \in Workers \ owed : (Shutdown(w) \/ Crash(w)) /\ UNCHANGED <<owed, health>>
    \/ Tick /\ UNCHANGED <<owed, health>>

\* As in EventOutbox; the supervisor's loop also loads its snapshots.
HealthSpec ==
    /\ HealthInit /\ [][HealthNext]_healthVars
    /\ \A w \in Workers : WF_healthVars(SupervisedStep(w) \/ Observe(w))
    /\ WF_healthVars(Tick /\ UNCHANGED <<owed, health>>)

-----------------------------------------------------------------------------
\* A row whose attempts are used up and that no operator moves is reported: from some
\* point on every supervisor calls the outbox blocked. Neither idle stops, restarts and
\* failed snapshots nor the rows other workers publish hide it.
ExhaustedIsReported ==
    \A e \in Events :
        <>[](status[e] = "failed" /\ attempts[e] = MaxAttempts) =>
            <>[](\A w \in Workers : health[w] = "blocked")

\* Not promised: a healthy outbox has no row that waits for an operator. Quarantined
\* rows are not counted.
HealthyHasNoParkedRow ==
    [][\A w \in Workers : health'[w] # health[w] /\ health'[w] = "healthy" =>
                            \A e \in Events : ~Parked(e)]_healthVars
=============================================================================
