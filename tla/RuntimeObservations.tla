------------------------- MODULE RuntimeObservations -------------------------
(***************************************************************************)
(* Runtime safety observations: the durable runtime subscriber that turns  *)
(* messages of QRTRUST_RUNTIME into rows of qr_trust.runtime_observations, *)
(* and the report operators read from those rows.                          *)
(*                                                                         *)
(* The worker reads its subscriber authorization when it starts and makes  *)
(* a durable consumer of it. The stream redelivers a message until it is   *)
(* acknowledged, terminated or delivered MaxRuntimeDeliver times. The      *)
(* subscriber takes one at a time, inserts and then acknowledges; it may   *)
(* fail or die between the two.                                            *)
(***************************************************************************)
EXTENDS NatsRouting, FiniteSets

CONSTANTS
    Events,         \* the events handed to the publisher, in order
    Late,           \* events whose artifact is published after the message
    Allowlists,     \* allowlists operators may give the subscriber ({}: inactive)
    Configurations, \* values of QRTRUST_RUNTIME_SUBSCRIBER_SUBJECT (<<>>: not set)
    MaxRuntimeDeliver,  \* max_deliver (5 in the code)
    LookbackSeconds, HostLimit,     \* of a report
    MaxTime, MaxRuntimeFaults, MaxChanges  \* bounds

Verdicts == {"clear", "risky", "blocked", "unavailable"}

\* An event: its type and root, does its envelope decode, does the artifact have
\* the envelope's hash, the right type and a valid body; and the observation of
\* that body. expires = 0 stands for no expires_at.
Event ==
    [type : STRING, root : [spelling : STRING, token : STRING],
     envelope : BOOLEAN, hash : BOOLEAN, schema : BOOLEAN,
     provider : STRING, host : STRING, verdict : Verdicts, risk : 0 .. 100,
     observed : Nat, expires : Nat]

\* makeRuntimeSafetyObservation of a verdict: expiresAtFromTtl, clampRiskScore.
ObservationExpires(observed, ttl) == IF ttl = 0 THEN 0 ELSE observed + ttl

ClampRiskScore(score) == IF score > 100 THEN 100 ELSE score

Observation(root, provider, host, verdict, delta, observed, ttl) ==
    [type |-> "runtime_verdict", root |-> root,
     envelope |-> TRUE, hash |-> TRUE, schema |-> TRUE,
     provider |-> provider, host |-> host, verdict |-> verdict,
     risk |-> ClampRiskScore(delta), observed |-> observed,
     expires |-> ObservationExpires(observed, ttl)]

\* loadRuntimeConfig and the report's defaults are positive integers.
RuntimeConfig ==
    /\ MaxRuntimeDeliver \in Nat \ {0} /\ LookbackSeconds \in Nat \ {0} /\ HostLimit \in Nat \ {0}

ASSUME EventsAssumption == Events \in Seq(Event) /\ Late \subseteq DOMAIN Events
\* A subject is stored and configured as a string of tokens.
ASSUME SubjectsAssumption ==
    (\A A \in Allowlists : A \subseteq Seq(STRING)) /\ Configurations \subseteq Seq(STRING)
ASSUME ConfigAssumption ==
    RuntimeConfig /\ MaxTime \in Nat /\ MaxRuntimeFaults \in Nat /\ MaxChanges \in Nat

\* The messages of QRTRUST_RUNTIME, numbered like their events: what the
\* publisher routes there.
Messages ==
    {m \in DOMAIN Events :
        /\ Routable(Events[m].type, Events[m].root)
        /\ Stored("QRTRUST_RUNTIME", SubjectOf(Events[m].type, Events[m].root))}

MessageSubject == [m \in Messages |-> SubjectOf(Events[m].type, Events[m].root)]

VARIABLES
    allowlist,  \* nats_subscriber_subjects of the active subscriber
    changes,    \* how often operators have replaced it
    consumer,   \* the durable consumer: filter, deliveries and fate of each message
    granted,    \* the allowlist the worker was started with
    worker,     \* the message in the subscriber's hands and how far it is
    rows,       \* runtime_observations: how many rows each message has
    stored,     \* published_artifacts: messages whose artifact is there
    now, runtimeFaults

runtimeVars == <<allowlist, changes, consumer, granted, worker, rows, stored, now, runtimeFaults>>

NoMessage == 0
Idle == [m |-> NoMessage, pc |-> "idle"]
Down == [m |-> NoMessage, pc |-> "down"]

\* consumers.add: DeliverPolicy.All, so everything is to be delivered.
NewConsumer(filter) ==
    [filter |-> filter, fate |-> [m \in Messages |-> "waiting"],
     delivered |-> [m \in Messages |-> 0]]

RuntimeInit ==
    /\ allowlist \in Allowlists /\ changes = 0
    /\ consumer = NewConsumer({})
    /\ granted = {}
    /\ worker = Down
    /\ rows = [m \in Messages |-> 0]
    /\ stored = DOMAIN Events \ Late
    /\ now = 0
    /\ runtimeFaults = 0

-----------------------------------------------------------------------------
(* JetStream, as the subscriber configures it: explicit acknowledgement,   *)
(* max_ack_pending 1, max_deliver.                                         *)

Open(m) ==
    /\ consumer.fate[m] = "waiting" /\ consumer.delivered[m] < MaxRuntimeDeliver
    /\ SubjectAllowed(consumer.filter, MessageSubject[m])

\* consumer.next: the oldest message that may still be delivered.
Receive(m) ==
    /\ worker = Idle
    /\ Open(m) /\ \A n \in Messages : n < m => ~Open(n)
    /\ consumer' = [consumer EXCEPT !.delivered[m] = @ + 1]
    /\ worker' = [m |-> m, pc |-> "received"]
    /\ UNCHANGED <<allowlist, changes, granted, rows, stored, now, runtimeFaults>>

Settle(m, fate) ==
    /\ consumer' = [consumer EXCEPT !.fate[m] = fate]
    /\ worker' = Idle

-----------------------------------------------------------------------------
(* The worker's start *)

\* POST /admin/nats/subscribers replaces the allowlist, or deactivates the
\* subscriber. Nothing tells a running worker.
Authorize(A) ==
    /\ changes < MaxChanges /\ changes' = changes + 1
    /\ A # allowlist
    /\ allowlist' = A
    /\ UNCHANGED <<consumer, granted, worker, rows, stored, now, runtimeFaults>>

\* loadNatsSubscriberAuthorization finds an active subscriber.
Authorized == AuthorizationLoads(allowlist)

\* The program loads and checks the authorization; ensureDurableConsumer keeps
\* the consumer if its filter is the same and replaces it otherwise.
Start(configured) ==
    LET filter == FilterSubjects(allowlist, configured, "QRTRUST_RUNTIME") IN
    /\ worker = Down
    /\ Authorized
    /\ FilterAccepted(allowlist, configured, "QRTRUST_RUNTIME")
    /\ granted' = allowlist
    /\ consumer' = IF consumer.filter = filter THEN consumer ELSE NewConsumer(filter)
    /\ worker' = Idle
    /\ UNCHANGED <<allowlist, changes, rows, stored, now, runtimeFaults>>

\* SIGTERM ends the loop between two messages.
Shutdown ==
    /\ worker = Idle
    /\ runtimeFaults < MaxRuntimeFaults /\ runtimeFaults' = runtimeFaults + 1
    /\ worker' = Down
    /\ UNCHANGED <<allowlist, changes, consumer, granted, rows, stored, now>>

-----------------------------------------------------------------------------
(* processNatsRuntimeMessage *)

\* Only runtime.verdict.observed is materialized.
Supported(m) == Events[m].type = "runtime_verdict"

\* materializeRuntimeObservation up to the insert: type, artifact, hash, schema.
Materializes(m) ==
    Supported(m) /\ m \in stored /\ Events[m].hash /\ Events[m].schema

\* runtimeRejectionReason knows the error: it is the message's fault.
Rejected(m) == ~Materializes(m)

\* Malformed envelopes and rejected observations are terminated.
TerminateObservation ==
    LET m == worker.m IN
    /\ worker.pc = "received"
    /\ ~Events[m].envelope \/ Rejected(m)
    /\ Settle(m, "terminated")
    /\ UNCHANGED <<allowlist, changes, granted, rows, stored, now, runtimeFaults>>

\* runtimeObservationCommand: an insert without a conflict clause.
Insert ==
    LET m == worker.m IN
    /\ worker.pc = "received"
    /\ Events[m].envelope /\ Materializes(m)
    /\ rows' = [rows EXCEPT ![m] = @ + 1]
    /\ worker' = [worker EXCEPT !.pc = "inserted"]
    /\ UNCHANGED <<allowlist, changes, consumer, granted, stored, now, runtimeFaults>>

\* Mutant: a failed query is taken for a rejected message.
TermFailed ==
    /\ worker.pc \in {"received", "inserted"}
    /\ runtimeFaults < MaxRuntimeFaults /\ runtimeFaults' = runtimeFaults + 1
    /\ Settle(worker.m, "terminated")
    /\ UNCHANGED <<allowlist, changes, granted, rows, stored, now>>

\* A query fails, before or after its commit: nak, and the message waits again.
Nak ==
    /\ worker.pc \in {"received", "inserted"}
    /\ runtimeFaults < MaxRuntimeFaults /\ runtimeFaults' = runtimeFaults + 1
    /\ worker' = Idle
    /\ UNCHANGED <<allowlist, changes, consumer, granted, rows, stored, now>>

Ack ==
    /\ worker.pc = "inserted"
    /\ Settle(worker.m, "acked")
    /\ UNCHANGED <<allowlist, changes, granted, rows, stored, now, runtimeFaults>>

\* The process dies; ack_wait returns its message to the consumer.
Crash ==
    /\ worker \notin {Idle, Down}
    /\ runtimeFaults < MaxRuntimeFaults /\ runtimeFaults' = runtimeFaults + 1
    /\ worker' = Down
    /\ UNCHANGED <<allowlist, changes, consumer, granted, rows, stored, now>>

PublishArtifact(m) ==
    /\ m \notin stored
    /\ stored' = stored \union {m}
    /\ UNCHANGED <<allowlist, changes, consumer, granted, worker, rows, now, runtimeFaults>>

Tick ==
    /\ now < MaxTime
    /\ now' = now + 1
    /\ UNCHANGED <<allowlist, changes, consumer, granted, worker, rows, stored, runtimeFaults>>

Process == TerminateObservation \/ Insert \/ Ack

RuntimeNext ==
    \/ \E A \in Allowlists : Authorize(A)
    \/ \E m \in Messages : Receive(m) \/ PublishArtifact(m)
    \/ (\E c \in Configurations : Start(c)) \/ Shutdown \/ Process \/ Nak \/ Crash \/ Tick

RuntimeSpec == RuntimeInit /\ [][RuntimeNext]_runtimeVars

\* The container is restarted, the subscriber polls for ever, the database
\* answers in the end, and the stream redelivers.
FairRuntimeSpec ==
    /\ RuntimeSpec
    /\ WF_runtimeVars(\E c \in Configurations : Start(c)) /\ WF_runtimeVars(Process \/ \E m \in Messages : Receive(m))

-----------------------------------------------------------------------------
(* runtimeSafetyObservationReportCommand and the health summary *)

\* windowed: rows not older than the lookback. Nothing bounds the other end.
Windowed == {m \in Messages : rows[m] > 0 /\ Events[m].observed + LookbackSeconds >= now}

Having(v) == {m \in Windowed : Events[m].verdict = v}

ExpiredRows == {m \in Windowed : Events[m].expires # 0 /\ Events[m].expires <= now}

\* case verdict when 'blocked' then 3 when 'risky' then 2 when 'unavailable' then 1
VerdictRank(v) ==
    CASE v = "blocked" -> 3 [] v = "risky" -> 2 [] v = "unavailable" -> 1 [] OTHER -> 0

\* order by rank desc, risk_score desc, observed_at desc
WorseThan(m, n) ==
    LET a == Events[m] b == Events[n] IN
    \/ VerdictRank(a.verdict) > VerdictRank(b.verdict)
    \/ VerdictRank(a.verdict) = VerdictRank(b.verdict) /\ a.risk > b.risk
    \/ VerdictRank(a.verdict) = VerdictRank(b.verdict) /\ a.risk = b.risk
       /\ a.observed > b.observed

\* ranked_hosts with host_rank = 1: the worst row of every host.
RankedHosts ==
    {m \in Windowed : \A n \in Windowed : Events[n].host = Events[m].host => ~WorseThan(n, m)}

\* top_hosts: the hosts of the first HostLimit rows (the host name,
\* which breaks ties, is left out: every row of a tie is in).
TopHosts ==
    LET ranked == RankedHosts
        ahead(k) == {Events[n].host : n \in {j \in ranked : WorseThan(j, k)}}
    IN  {Events[m].host : m \in {k \in ranked : Cardinality(ahead(k)) < HostLimit}}

\* provider_rollup
ProviderReport(p) ==
    LET own == {m \in Windowed : Events[m].provider = p} IN
    [total |-> Cardinality(own),
     risky |-> Cardinality(own \intersect Having("risky")),
     blocked |-> Cardinality(own \intersect Having("blocked")),
     unavailable |-> Cardinality(own \intersect Having("unavailable"))]

\* summarizeRuntimeSafetyObservationHealth
HealthReasons ==
    {r \in {"no_runtime_observations", "runtime_blocks_present", "provider_unavailable",
            "expired_runtime_observations", "runtime_risk_present"} :
        CASE r = "no_runtime_observations" -> Windowed = {}
          [] r = "runtime_blocks_present" -> Having("blocked") # {}
          [] r = "provider_unavailable" -> Having("unavailable") # {}
          [] r = "expired_runtime_observations" -> ExpiredRows # {}
          [] r = "runtime_risk_present" -> Having("risky") # {}}

HealthStatus ==
    IF Having("blocked") # {} THEN "blocked"
    ELSE IF HealthReasons # {} THEN "degraded" ELSE "healthy"

-----------------------------------------------------------------------------
RuntimeTypeOK ==
    /\ allowlist \in Allowlists /\ granted \in Allowlists \union {{}}
    /\ changes \in 0 .. MaxChanges
    /\ consumer.fate \in [Messages -> {"waiting", "acked", "terminated"}]
    /\ consumer.delivered \in [Messages -> 0 .. MaxRuntimeDeliver]
    /\ worker.m \in Messages \union {NoMessage}
    /\ worker.pc \in {"down", "idle", "received", "inserted"}
    /\ rows \in [Messages -> Nat]
    /\ stored \subseteq DOMAIN Events
    /\ now \in 0 .. MaxTime /\ runtimeFaults \in 0 .. MaxRuntimeFaults

\* The subscriber inserts only observations published on a subject that the
\* allowlist of its start allows, wildcards of the allowlist and of a configured
\* filter included, and never one under the control-plane root.
OnlyAuthorizedSubjects ==
    [][\A m \in Messages : rows'[m] # rows[m] =>
          SubjectAllowed(granted, MessageSubject[m]) /\ MessageSubject[m][2] # ControlPlane]_runtimeVars

\* The message is valid and passes every filter the worker may start with.
MustLand(m) ==
    /\ Events[m].envelope /\ Supported(m) /\ Events[m].hash /\ Events[m].schema
    /\ \A A \in Allowlists \ {{}}, c \in Configurations :
          FilterAccepted(A, c, "QRTRUST_RUNTIME") =>
              SubjectAllowed(FilterSubjects(A, c, "QRTRUST_RUNTIME"), MessageSubject[m])

\* A valid observation that every allowlist covers and whose artifact was there
\* before its event reaches the table, through failures, crashes, replaced
\* consumers and redeliveries (MaxRuntimeFaults is below MaxRuntimeDeliver), unless the
\* subscriber stays deactivated.
ObservationLands ==
    \A m \in {n \in Messages \ Late : MustLand(n)} :
        <>(rows[m] > 0) \/ <>[](allowlist = {})

\* docs/public/network-contracts/nats-subjects.md:211 asks for "idempotent
\* consumers keyed by `event_id`": no message has two rows.
ObservedOnce == \A m \in Messages : rows[m] <= 1
=============================================================================
