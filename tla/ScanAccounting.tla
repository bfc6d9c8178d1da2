--------------------------- MODULE ScanAccounting ---------------------------
(***************************************************************************)
(* The scan-spike monitor: scans leave a row in the evidence store when    *)
(* their verdict is computed, and a count in a minute bucket when it comes *)
(* from the verdict cache. The monitor of each API replica reads both,     *)
(* compares an envelope's last window with its own baseline and writes one *)
(* event per envelope and baseline bucket to the outbox.                   *)
(*                                                                         *)
(* The reads of a pass are separate: the rows, and for each candidate the  *)
(* cached scans of the window and of the baseline, each from Redis or, when *)
(* the call fails, from the fallback of the replica.                       *)
(***************************************************************************)
EXTENDS Integers, FiniteSets

CONSTANTS
    Replicas,        \* API replicas
    Envelopes,        \* fingerprints of signed codes
    Rooted,           \* the envelopes whose rows name a root program
    Minute,           \* RATE_BUCKET_SECONDS, in ticks
    SpikeWindow,           \* VERIFIER_SCAN_SPIKE_WINDOW_SECONDS
    Baseline,         \* VERIFIER_SCAN_SPIKE_BASELINE_SECONDS
    Ratio,            \* VERIFIER_SCAN_SPIKE_RATIO
    MinScans,         \* VERIFIER_SCAN_SPIKE_MIN_SCANS
    VerdictTTL,              \* time to live of a cached verdict
    CandidateLimit,   \* SCAN_SPIKE_CANDIDATE_LIMIT
    AlertLimit,       \* SCAN_SPIKE_MONITOR_ALERT_LIMIT
    MaxPass,          \* bound: how long a pass takes
    MaxScanTime,          \* bound: the clock
    MaxScans          \* bound: the scans

Redis == "redis"

ASSUME WindowsAssumption ==
    /\ Minute \in Nat \ {0} /\ SpikeWindow \in Nat \ {0}
    /\ Baseline \in Nat /\ Baseline > SpikeWindow
    /\ MaxScanTime \in Nat
ASSUME ThresholdsAssumption ==
    Ratio \in Nat /\ MinScans \in Nat /\ CandidateLimit \in Nat /\ AlertLimit \in Nat
ASSUME EnvelopesAssumption == IsFiniteSet(Envelopes)
ASSUME ReplicasAssumption == Redis \notin Replicas

Stores == Replicas \union {Redis}
Times == 0..MaxScanTime
MinuteOf(t) == t \div Minute
NoEnd == -1
NoCount == [count |-> 0, until |-> NoEnd]
Asleep == [pc |-> "asleep"]

VARIABLES
    time,
    fresh,      \* until when the verdict of an envelope is in the cache
    pending,    \* the evidence being written: envelope and time of decision
    rows,       \* scanner_decisions: how many rows of an envelope per created_at
    rate,       \* the minute buckets of Redis and of the replicas' fallbacks
    monitor,    \* the pass of each replica's monitor
    outbox,     \* the spike events, by envelope and baseline bucket
    scans,      \* history: all scans, by the time they were answered
    hits        \* history: the cached scans counted in Redis, by time

dataVars == <<fresh, pending, rows, rate, scans, hits>>
accountingVars == <<time, fresh, pending, rows, rate, monitor, outbox, scans, hits>>

PerTime == [e \in Envelopes |-> [t \in Times |-> 0]]

AccountingInit ==
    /\ time = 0
    /\ fresh = [e \in Envelopes |-> 0]
    /\ pending = {}
    /\ rows = PerTime
    /\ rate = [s \in Stores |-> [e \in Envelopes |-> [m \in 0..MinuteOf(MaxScanTime) |-> NoCount]]]
    /\ monitor = [p \in Replicas |-> Asleep]
    /\ outbox = {}
    /\ scans = PerTime
    /\ hits = PerTime

-----------------------------------------------------------------------------
\* Redis and the fallbacks drop a bucket whose time has come.
KeptCount(c) == IF c.until # NoEnd /\ c.until <= time + 1 THEN NoCount ELSE c

AccountingTick ==
    /\ time < MaxScanTime
    /\ \A p \in Replicas : monitor[p] # Asleep => time < monitor[p].now + MaxPass
    /\ time' = time + 1
    /\ rate' = [s \in Stores |-> [e \in Envelopes |-> [m \in DOMAIN rate[s][e] |-> KeptCount(rate[s][e][m])]]]
    /\ UNCHANGED <<fresh, pending, rows, monitor, outbox, scans, hits>>

\* The sum of f over S: the number of units when every x of S has f[x] of them.
Units(f, S) == UNION {{x} \X (1..f[x]) : x \in S}
SumOf(f, S) == Cardinality(Units(f, S))

Total(f) == SumOf(f, DOMAIN f)

Answered(e) ==
    /\ SumOf([d \in Envelopes |-> Total(scans[d])], Envelopes) < MaxScans
    /\ scans' = [scans EXCEPT ![e][time] = @ + 1]

\* retain_seconds of record_cached_scan.
Retain == Baseline + Minute

\* incr, and expire for the first of the minute, if it is executed.
Counted(c, expires) ==
    [count |-> c.count + 1,
     until |-> IF c.count = 0 /\ expires THEN time + Retain ELSE c.until]

Bump(s, e, expires) == [rate EXCEPT ![s][e][MinuteOf(time)] = Counted(@, expires)]

\* A verdict is computed and put into the cache; its evidence is still to be
\* written.
Compute(e) ==
    /\ Answered(e)
    /\ <<e, time>> \notin pending
    /\ fresh' = [fresh EXCEPT ![e] = time + VerdictTTL]
    /\ pending' = pending \union {<<e, time>>}
    /\ UNCHANGED <<time, rows, rate, monitor, outbox, hits>>

WriteRow(d) ==
    /\ pending' = pending \ {d}
    /\ rows' = [rows EXCEPT ![d[1]][d[2]] = @ + 1]
    /\ UNCHANGED <<time, fresh, rate, monitor, outbox, scans, hits>>

\* record_scanner_evidence reports an error, which is logged; the scan has been
\* answered.
RowFails(d) ==
    /\ pending' = pending \ {d}
    /\ UNCHANGED <<time, fresh, rows, rate, monitor, outbox, scans, hits>>

\* A cached verdict is counted in Redis.
CachedScan(e) ==
    /\ time < fresh[e]
    /\ Answered(e)
    /\ rate' = Bump(Redis, e, TRUE)
    /\ hits' = [hits EXCEPT ![e][time] = @ + 1]
    /\ UNCHANGED <<time, fresh, pending, rows, monitor, outbox>>

\* A call to Redis fails: the fallback of the replica counts the scan, and Redis
\* may have counted it before, with or without an expiry.
CachedScanFailsOver(p, e) ==
    /\ time < fresh[e]
    /\ Answered(e)
    /\ \/ rate' = Bump(p, e, TRUE) /\ UNCHANGED hits
       \/ \E expires \in BOOLEAN :
            /\ rate' = [Bump(p, e, TRUE) EXCEPT ![Redis] = Bump(Redis, e, expires)[Redis]]
            /\ hits' = [hits EXCEPT ![e][time] = @ + 1]
    /\ UNCHANGED <<time, fresh, pending, rows, monitor, outbox>>

-----------------------------------------------------------------------------
\* The counts of f in first..last.
Between(f, first, last) ==
    SumOf(f, {t \in DOMAIN f : first <= t /\ t <= last})

\* Mutant: the minute of now is left out.
MinutesBefore(since, until) == MinuteOf(since)..(MinuteOf(until) - 1)

\* _rate_buckets: every minute that overlaps the window.
Minutes(since, until) == MinuteOf(since)..MinuteOf(until)

\* cached_scan_count, from the store that answers the replica.
CachedScanCount(s, e, since, until) ==
    SumOf([m \in DOMAIN rate[s][e] |-> rate[s][e][m].count],
          Minutes(since, until) \intersect DOMAIN rate[s][e])

\* The k of S that rank highest, in any order among equals.
Top(S, rank, k) ==
    {C \in SUBSET S : /\ Cardinality(C) = IF Cardinality(S) < k THEN Cardinality(S) ELSE k
                      /\ \A c \in C, d \in S \ C : rank[c] >= rank[d]}

\* _ENVELOPE_SPIKE_QUERY: the candidates with the most rows in the window, and
\* their rows in the window and in the baseline. owed is what has been recorded
\* since the start of the window when the pass begins, in rows and in Redis.
Fetch(p) ==
    LET bs == time - Baseline
        ws == time - SpikeWindow
        all == [e \in Envelopes |-> Between(rows[e], bs, MaxScanTime)]
        recent == [e \in Envelopes |-> Between(rows[e], ws, MaxScanTime)]
        seen == {e \in Envelopes : all[e] > 0}
    IN  /\ monitor[p] = Asleep
        /\ \E C \in Top(seen, recent, CandidateLimit) :
              monitor' = [monitor EXCEPT ![p] =
                 [pc |-> "recent", now |-> time, left |-> C, env |-> CHOOSE e \in Envelopes : TRUE,
                  all |-> all, recent |-> recent, older |-> [e \in Envelopes |-> all[e] - recent[e]],
                  spikes |-> {}, torn |-> {}, counted |-> 0, seen |-> seen,
                  owed |-> [e \in Envelopes |-> recent[e] + Between(hits[e], ws, time)]]]
        /\ UNCHANGED <<time, outbox, dataVars>>

\* A read that Redis did not answer, or that came later than the pass began, or
\* between which and the one before it the envelope was scanned again.
Torn(m, e, s) ==
    IF s # Redis \/ time # m.now \/ (m.pc = "baseline" /\ m.counted # Total(hits[e]))
    THEN m.torn \union {e} ELSE m.torn

\* The cached scans of the window of the next candidate.
ReadRecent(p) ==
    LET m == monitor[p]
    IN  /\ m.pc = "recent"
        /\ \E e \in m.left, s \in {Redis, p} :
              monitor' = [monitor EXCEPT ![p] =
                 [m EXCEPT !.pc = "baseline", !.env = e, !.counted = Total(hits[e]),
                           !.torn = Torn(m, e, s),
                           !.recent = [m.recent EXCEPT ![e] =
                              @ + CachedScanCount(s, e, m.now - SpikeWindow, m.now)]]]
        /\ UNCHANGED <<time, outbox, dataVars>>

\* recent >= min_scans, and recent / baseline_per_window >= threshold_ratio when
\* there is a baseline.
IsSpike(recent, baseline) ==
    LET prior == IF baseline < recent THEN 0 ELSE baseline - recent
    IN  recent >= MinScans /\ recent * (Baseline - SpikeWindow) >= Ratio * SpikeWindow * prior

\* The cached scans of its baseline, and the verdict.
ReadBaseline(p) ==
    LET m == monitor[p]
        e == m.env
    IN  /\ m.pc = "baseline"
        /\ \E s \in {Redis, p} :
              LET baseline == m.all[e] + CachedScanCount(s, e, m.now - Baseline, m.now)
              IN  monitor' = [monitor EXCEPT ![p] =
                     [m EXCEPT !.pc = "recent", !.left = @ \ {e}, !.torn = Torn(m, e, s),
                               !.spikes = IF IsSpike(m.recent[e], baseline)
                                          THEN @ \union {e} ELSE @]]
        /\ UNCHANGED <<time, outbox, dataVars>>

\* The candidates are judged; the busiest spikes are kept.
Keep(p) ==
    LET m == monitor[p]
    IN  /\ m.pc = "recent" /\ m.left = {}
        /\ \E C \in Top(m.spikes, m.recent, AlertLimit) :
              monitor' = [monitor EXCEPT ![p] = [m EXCEPT !.pc = "emit", !.left = C]]
        /\ UNCHANGED <<time, outbox, dataVars>>

\* scan_spike_event_id: one event per envelope and baseline bucket.
EventId(e, now) == <<e, now \div Baseline>>

\* emit_scan_spike_events: an insert per spike, on conflict do nothing. A spike
\* without a root program is only logged.
Emit(p) ==
    LET m == monitor[p]
    IN  /\ m.pc = "emit"
        /\ \E e \in m.left :
              /\ outbox' = IF e \in Rooted THEN outbox \union {EventId(e, m.now)} ELSE outbox
              /\ monitor' = [monitor EXCEPT ![p] = [m EXCEPT !.left = @ \ {e}]]
        /\ UNCHANGED <<time, dataVars>>

Finished(m) == m.pc = "emit" /\ m.left = {}

\* The pass is over and the monitor sleeps.
Sleep(p) ==
    /\ Finished(monitor[p])
    /\ monitor' = [monitor EXCEPT ![p] = Asleep]
    /\ UNCHANGED <<time, outbox, dataVars>>

\* The database fails: the pass is skipped, and what it inserted stays.
PassFails(p) ==
    /\ monitor[p] # Asleep /\ ~Finished(monitor[p])
    /\ monitor' = [monitor EXCEPT ![p] = Asleep]
    /\ UNCHANGED <<time, outbox, dataVars>>

AccountingNext ==
    \/ AccountingTick
    \/ \E e \in Envelopes : Compute(e) \/ CachedScan(e)
    \/ \E d \in pending : WriteRow(d) \/ RowFails(d)
    \/ \E p \in Replicas, e \in Envelopes : CachedScanFailsOver(p, e)
    \/ \E p \in Replicas : \/ Fetch(p)
                            \/ ReadRecent(p)
                            \/ ReadBaseline(p)
                            \/ Keep(p)
                            \/ Emit(p)
                            \/ Sleep(p)
                            \/ PassFails(p)

AccountingSpec == AccountingInit /\ [][AccountingNext]_accountingVars

-----------------------------------------------------------------------------
\* A flood is reported although the cache hides most of it. When a pass ends
\* that read an envelope's counts from Redis and in one piece, and the scans
\* recorded before it, rows and cached ones, clear the floor and the ratio over
\* everything that may count as baseline, the event of the envelope is in the
\* outbox, whoever of the replicas wrote it.
FloodIsAlerted ==
    \A p \in Replicas : monitor[p] # Asleep /\ Finished(monitor[p]) =>
        LET m == monitor[p]
            before == [e \in Envelopes |-> m.older[e] +
                Between(hits[e], MinuteOf(m.now - Baseline) * Minute, m.now - SpikeWindow - 1)]
        IN  \A e \in m.seen \intersect Rooted :
               /\ e \notin m.torn
               /\ Cardinality(Envelopes) <= CandidateLimit /\ Cardinality(Envelopes) <= AlertLimit
               /\ m.owed[e] >= MinScans
               /\ m.owed[e] * (Baseline - SpikeWindow) >= Ratio * SpikeWindow * before[e]
               => EventId(e, m.now) \in outbox

\* "Every cached hit implies a computed verdict inside the cache TTL, so each
\* flooded envelope has at least one recent evidence row." It does not hold: the
\* evidence of the computed verdict may fail, and the monitor never looks at the
\* envelope.
CachedFloodHasRow ==
    \A e \in Envelopes : Total(hits[e]) > 0 => Total(rows[e]) > 0 \/ \E d \in pending : d[1] = e

\* "A brand-new reusable code being hammered is exactly the flood case": every
\* completed pass reports it. It does not hold: scans that arrive between the
\* two reads of a pass count as its baseline only, and a read that fails over
\* sees nothing of the flood.
NewFloodIsAlerted ==
    \A p \in Replicas : monitor[p] # Asleep /\ Finished(monitor[p]) =>
        LET m == monitor[p]
        IN  \A e \in m.seen \intersect Rooted :
               m.owed[e] >= MinScans /\ Between(scans[e], 0, m.now - SpikeWindow - 1) = 0
                   => EventId(e, m.now) \in outbox
=============================================================================
