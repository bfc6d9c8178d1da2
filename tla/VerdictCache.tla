---------------------------- MODULE VerdictCache ----------------------------
(***************************************************************************)
(* The short-lived verdict cache of _run_narrowed_verifier: Redis shared   *)
(* by the verifier processes, with a process-local fallback for every call *)
(* that fails. One genuine envelope is scanned; governance replaces the    *)
(* issuer record it is judged by, each version with a time boundary (the   *)
(* expiry of the issuer record or of the matched domain proof).            *)
(*                                                                         *)
(* Time is counted in ticks of 1/TicksPerSecond seconds; time to live is   *)
(* counted in whole seconds, as the code's int() does. Time may pass       *)
(* between any two steps of a scan, and so between the computation of a    *)
(* time to live and the write that starts it.                              *)
(***************************************************************************)
EXTENDS Integers

CONSTANTS
    Scans,           \* concurrent verifications
    Processes,       \* verifier processes
    Versions,        \* versions of the issuer record, 1 .. n
    Boundary,        \* Boundary[v]: tick at which version v stops being valid
    Revoked,         \* the versions whose issuer or key is not in force
    ClaimsExpiry,    \* tick at which the signed claims expire
    Skew,            \* VERIFIER_CLOCK_SKEW_SECONDS, in ticks
    TTL,             \* VERIFIER_VERDICT_CACHE_TTL_SECONDS
    TicksPerSecond,
    MaxTime          \* bound: the clock

ASSUME VersionsAssumption == Versions \subseteq Nat /\ 1 \in Versions /\ Revoked \subseteq Versions
ASSUME TimesAssumption ==
    /\ Boundary \in [Versions -> Nat]
    /\ ClaimsExpiry \in Nat /\ Skew \in Nat /\ TTL \in Nat /\ MaxTime \in Nat
    /\ TicksPerSecond \in Nat \ {0}

VARIABLES
    clock,
    version,   \* the version governance has published
    redis,     \* the entry of each cache key, NoEntry when there is none
    local,     \* the fallback caches of the processes
    pc,
    home,      \* the process a scan runs in
    presented, \* the record version a scan judges by: part of its cache key
    keyed,     \* whether the scan looked the cache up
    verdict,   \* what it computed
    clamp,     \* the write_ttl it computed, and when
    answer     \* what it gave out last, and for which record version

localVars == <<home, presented, keyed, verdict, clamp>>
scanVars == <<pc, localVars, answer>>
vars == <<clock, version, redis, local, pc, home, presented, keyed,
          verdict, clamp, answer>>

NoEntry == [verdict |-> "none", until |-> 0, written |-> 0, clamped |-> 0]
NoClamp == [ttl |-> 0, at |-> 0]
NoAnswer == [verdict |-> "none", version |-> 0]

Init ==
    /\ clock = 0
    /\ version = 1
    /\ redis = [v \in Versions |-> NoEntry]
    /\ local = [p \in Processes |-> [v \in Versions |-> NoEntry]]
    /\ pc = [s \in Scans |-> "idle"]
    /\ home \in [Scans -> Processes]
    /\ presented = [s \in Scans |-> 1]
    /\ keyed = [s \in Scans |-> FALSE]
    /\ verdict = [s \in Scans |-> "none"]
    /\ clamp = [s \in Scans |-> NoClamp]
    /\ answer = [s \in Scans |-> NoAnswer]

-----------------------------------------------------------------------------
Lesser(a, b) == IF a < b THEN a ELSE b

\* int(timedelta.total_seconds()) of a tick that is ahead.
SecondsUntil(t) == (t - clock) \div TicksPerSecond

\* The read-time bound: 0, do not cache, in the last second of the claims.
ClaimsTTL ==
    IF clock < ClaimsExpiry THEN Lesser(TTL, SecondsUntil(ClaimsExpiry)) ELSE 0

\* Mutant: the consulted boundaries do not enter the minimum.
WriteTTLWithoutBoundary(v) == ClaimsTTL

\* The write-time bound: a boundary with no whole second left is left out.
WriteTTL(v) ==
    IF ClaimsTTL > 0 /\ clock < Boundary[v] /\ SecondsUntil(Boundary[v]) > 0
    THEN Lesser(ClaimsTTL, SecondsUntil(Boundary[v]))
    ELSE ClaimsTTL

\* verify_presented_code for a genuinely signed envelope.
Judge(v) ==
    IF v \notin Revoked /\ clock < Boundary[v] /\ clock < ClaimsExpiry + Skew
    THEN "allowed" ELSE "blocked"

Live(e) == clock < e.until
Kept(e) == IF clock + 1 < e.until THEN e ELSE NoEntry

-----------------------------------------------------------------------------
\* Time passes. Redis drops what has expired; the fallback does so when it
\* is next read, which is not told apart here.
Tick ==
    /\ clock < MaxTime
    /\ clock' = clock + 1
    /\ redis' = [v \in Versions |-> Kept(redis[v])]
    /\ local' = [p \in Processes |-> [v \in Versions |-> Kept(local[p][v])]]
    /\ UNCHANGED <<version, scanVars>>

\* Governance replaces the record; the trust state token, which is part of the
\* cache key, changes with it.
Publish ==
    /\ version + 1 \in Versions
    /\ version' = version + 1
    /\ UNCHANGED <<clock, redis, local, scanVars>>

\* A scan starts with the projected record.
Begin(s) ==
    /\ pc[s] = "idle"
    /\ presented' = [presented EXCEPT ![s] = version]
    /\ keyed' = [keyed EXCEPT ![s] = ClaimsTTL > 0]
    /\ verdict' = [verdict EXCEPT ![s] = "none"]
    /\ answer' = [answer EXCEPT ![s] = NoAnswer]
    /\ pc' = [pc EXCEPT ![s] = IF ClaimsTTL > 0 THEN "lookup" ELSE "verify"]
    /\ UNCHANGED <<clock, version, redis, local, home, clamp>>

\* Mutant: the cache key leaves out the trust state and the record.
FoundAnyVersion(s) == UNION {{redis[v], local[home[s]][v]} : v \in Versions}

\* The caches a get may be answered from: Redis, or the process-local fallback
\* when Redis fails. A miss in Redis does not consult the fallback.
Found(s) == {redis[presented[s]], local[home[s]][presented[s]]}

\* The scan is over; its locals are gone.
Done(s) ==
    /\ pc' = [pc EXCEPT ![s] = "idle"]
    /\ presented' = [presented EXCEPT ![s] = 1]
    /\ keyed' = [keyed EXCEPT ![s] = FALSE]
    /\ verdict' = [verdict EXCEPT ![s] = "none"]
    /\ clamp' = [clamp EXCEPT ![s] = NoClamp]
    /\ UNCHANGED home

\* A live entry is served as it is.
Hit(s) ==
    /\ pc[s] = "lookup"
    /\ \E e \in Found(s) :
          /\ Live(e)
          /\ answer' = [answer EXCEPT ![s] = [verdict |-> e.verdict, version |-> presented[s]]]
    /\ Done(s)
    /\ UNCHANGED <<clock, version, redis, local>>

Miss(s) ==
    /\ pc[s] = "lookup"
    /\ \E e \in Found(s) : ~Live(e)
    /\ pc' = [pc EXCEPT ![s] = "verify"]
    /\ UNCHANGED <<clock, version, redis, local, localVars, answer>>

\* The envelope's budget, then the verification.
Verify(s) ==
    /\ pc[s] = "verify"
    /\ verdict' = [verdict EXCEPT ![s] = Judge(presented[s])]
    /\ pc' = [pc EXCEPT ![s] = "store"]
    /\ UNCHANGED <<clock, version, redis, local, home, presented, keyed, clamp, answer>>

\* The envelope's or the issuer's budget is spent: 429, nothing is cached.
Refuse(s) ==
    /\ pc[s] \in {"verify", "store"}
    /\ Done(s)
    /\ UNCHANGED <<clock, version, redis, local, answer>>

\* The answer is given; the scan is over.
Give(s) ==
    /\ answer' = [answer EXCEPT ![s] = [verdict |-> verdict[s], version |-> presented[s]]]
    /\ Done(s)

\* The issuer's budget allowed it: the time to live is clamped once more, and
\* a verdict that may not be cached is given out as it is.
Clamp(s) ==
    /\ pc[s] = "store"
    /\ IF keyed[s] /\ WriteTTL(presented[s]) > 0
       THEN /\ clamp' = [clamp EXCEPT ![s] = [ttl |-> WriteTTL(presented[s]), at |-> clock]]
            /\ pc' = [pc EXCEPT ![s] = "set"]
            /\ UNCHANGED <<home, presented, keyed, verdict, answer>>
       ELSE Give(s)
    /\ UNCHANGED <<clock, version, redis, local>>

\* Redis, or the fallback when Redis fails, stores the verdict: its time to
\* live runs from now. Then it is given out.
Store(s) ==
    LET v == presented[s]
        e == [verdict |-> verdict[s], until |-> clock + clamp[s].ttl * TicksPerSecond,
              written |-> clock, clamped |-> clamp[s].at]
    IN  /\ pc[s] = "set"
        /\ \/ redis' = [redis EXCEPT ![v] = e] /\ local' = local
           \/ local' = [local EXCEPT ![home[s]][v] = e] /\ redis' = redis
        /\ Give(s)
        /\ UNCHANGED <<clock, version>>

ScanStep(s) ==
    \/ Begin(s)
    \/ Hit(s)
    \/ Miss(s)
    \/ Verify(s)
    \/ Refuse(s)
    \/ Clamp(s)
    \/ Store(s)

Next ==
    \/ Tick
    \/ Publish
    \/ \E s \in Scans : ScanStep(s)

Spec == Init /\ [][Next]_vars

-----------------------------------------------------------------------------
Entries == [verdict : {"none", "allowed", "blocked"}, until : Nat,
            written : Nat, clamped : Nat]

\* Types of the state.
TypeOK ==
    /\ clock \in 0..MaxTime
    /\ version \in Versions
    /\ redis \in [Versions -> Entries]
    /\ local \in [Processes -> [Versions -> Entries]]
    /\ pc \in [Scans -> {"idle", "lookup", "verify", "store", "set"}]
    /\ home \in [Scans -> Processes]
    /\ presented \in [Scans -> Versions]
    /\ keyed \in [Scans -> BOOLEAN]
    /\ verdict \in [Scans -> {"none", "allowed", "blocked"}]
    /\ clamp \in [Scans -> [ttl : 0..TTL, at : 0..MaxTime]]
    /\ answer \in [Scans -> [verdict : {"none", "allowed", "blocked"}, version : Versions \union {0}]]

\* The entries of version v some process may be served from.
Servable(v) == {e \in {redis[v]} \union {local[p][v] : p \in Processes} : Live(e)}

\* What governance revoked is never allowed, neither computed nor from an entry
\* of an earlier record, not even from the fallback of a process that lost
\* Redis for a while and found it again.
RevokedNeverAllowed ==
    \A s \in Scans : answer[s].version \in Revoked => answer[s].verdict # "allowed"

\* How long the write of an entry took, from the computation of its time to live.
WriteTime(e) == e.written - e.clamped

\* An allowed verdict outlives its boundary only by the time its own write took,
\* or in an entry clamped in the boundary's last second or later; and it is
\* never served TTL seconds after it was written.
OverrunIsBounded ==
    \A v \in Versions : \A e \in Servable(v) :
        e.verdict = "allowed" /\ clock >= Boundary[v]
            => /\ \/ clock < Boundary[v] + WriteTime(e)
                  \/ e.clamped > Boundary[v] - TicksPerSecond
               /\ clock < e.written + TTL * TicksPerSecond

\* "min(configured TTL, seconds until the claims expire, seconds until each
\* consulted trust boundary passes)": no servable entry allows what has passed
\* its boundary, but for the time its own write took.
BoundaryRespected ==
    \A v \in Versions : \A e \in Servable(v) :
        e.verdict = "allowed" => clock < Boundary[v] + WriteTime(e)

\* No verdict can be served from the cache once the claims have expired, but
\* for the time its own write took, whichever process wrote it.
ClaimsHonoured ==
    \A v \in Versions : \A e \in Servable(v) : clock < ClaimsExpiry + WriteTime(e)
=============================================================================
