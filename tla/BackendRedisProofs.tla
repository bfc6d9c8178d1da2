------------------------- MODULE BackendRedisProofs -------------------------
(***************************************************************************)
(* Proofs about what the backend keeps in Redis and in its processes:      *)
(* cached verdicts, request counters and scan counts.                      *)
(*                                                                         *)
(* VerdictCache, for any number of scans, processes and record versions,   *)
(* any boundaries, skew and time to live, and any clock rate. What a cache *)
(* entry promises does not mention the clock: its end is bounded by the    *)
(* moments of its clamp and of its write, so time passing preserves it.    *)
(* The invariant carries the same bound for a scan that has clamped and    *)
(* not yet written (ClampBounded), and the fact that a scan's verdict is   *)
(* never "allowed" for a revoked version (VerdictJust).                    *)
(*                                                                         *)
(* RateLimiter, for any number of requests and processes, any limit,       *)
(* window and clock rate, and whatever calls fail or lose their reply:     *)
(* Redis allows at most Limit requests of a window. Increments hand out    *)
(* numbers. Two requests of a window never get the same one: a counter is  *)
(* dropped a second after its window is over, or later, and by then nobody *)
(* increments it again. What is allowed has a number in 1..Limit, so there *)
(* are at most Limit of them.                                              *)
(*                                                                         *)
(* A refused request waits long enough, however late its calls arrive. A   *)
(* refusal of Redis lasts until the end of the window: a counter that has  *)
(* an expiry outlives its window by a second, which the rounding of its    *)
(* time to live may cost, and without an expiry the wait is a window. A    *)
(* refusal of the fallback lasts until its oldest stamp is dropped: the    *)
(* deque holds at most Limit stamps, those of every recent request among   *)
(* them (Bucketed), and nobody is allowed at the moment of a refusal.      *)
(*                                                                         *)
(* ScanAccounting, for any number of replicas and envelopes, any windows   *)
(* and thresholds, and whatever calls fail: a flood that a pass read from  *)
(* Redis in one piece is reported. A sum counts units, so that sums over   *)
(* disjoint places add up; a bucket of Redis has the hits of its minute    *)
(* until a whole baseline after it (RedisCounts), hence a read sees every  *)
(* hit of the minutes it overlaps (RedisReadsHits). What is owed to a pass *)
(* is then in its first read (OwedIsThere, BetweenReads), and what counts  *)
(* as baseline is no more than the hits before the window.                 *)
(***************************************************************************)
EXTENDS VerdictCache, RateLimiter, ScanAccounting, TLAPS, FiniteSetTheorems, WellFoundedInduction

\* An entry that ends at u ticks, clamped at c and written at w, keeps within
\* the claims, the configured time to live and, unless it was clamped in its
\* boundary's last second or later, the boundary.
Within(u, w, c, v) ==
    /\ c <= w
    /\ u <= ClaimsExpiry + (w - c)
    /\ u <= w + TTL * TicksPerSecond
    /\ u <= Boundary[v] + (w - c) \/ c > Boundary[v] - TicksPerSecond

EntryJust(e, v) ==
    /\ e \in Entries
    /\ v \in Revoked => e.verdict # "allowed"
    /\ Within(e.until, e.written, e.clamped, v)

EntriesJust ==
    \A v \in Versions :
        EntryJust(redis[v], v) /\ \A p \in Processes : EntryJust(local[p][v], v)

ClampBounded ==
    \A s \in Scans : pc[s] = "set" =>
        /\ clamp[s].at <= clock
        /\ Within(clamp[s].at + clamp[s].ttl * TicksPerSecond, clamp[s].at,
                  clamp[s].at, presented[s])

VerdictJust ==
    \A s \in Scans : presented[s] \in Revoked => verdict[s] # "allowed"

IInv == TypeOK /\ EntriesJust /\ ClampBounded /\ VerdictJust /\ RevokedNeverAllowed

-----------------------------------------------------------------------------
\* Whole seconds, counted back in ticks, never exceed the ticks they came from.
LEMMA DivTimes ==
    ASSUME NEW a \in Nat, NEW b \in Nat \ {0}
    PROVE  /\ a \div b \in Nat
           /\ (a \div b) * b <= a
           /\ a < ((a \div b) + 1) * b
  BY Z3

\* A product grows with its first factor.
LEMMA TimesMonotone ==
    ASSUME NEW a \in Nat, NEW c \in Nat, NEW b \in Nat, a <= c
    PROVE  a * b \in Nat /\ a * b <= c * b
  BY Z3

\* SecondsUntil of a tick that is ahead.
LEMMA SecondsAhead ==
    ASSUME TypeOK, NEW t \in Nat, clock < t
    PROVE  /\ SecondsUntil(t) \in Nat
           /\ clock + SecondsUntil(t) * TicksPerSecond <= t
           /\ SecondsUntil(t) = 0 => clock > t - TicksPerSecond
  <1>1. clock \in Nat /\ t - clock \in Nat
    BY DEF TypeOK
  <1>2. TicksPerSecond \in Nat \ {0}
    BY TimesAssumption
  <1> DEFINE q == (t - clock) \div TicksPerSecond
  <1>3. /\ q \in Nat
        /\ q * TicksPerSecond <= t - clock
        /\ t - clock < (q + 1) * TicksPerSecond
    BY <1>1, <1>2, DivTimes
  <1>4. q * TicksPerSecond \in Nat
    BY <1>2, <1>3, TimesMonotone
  <1>5. q = 0 => (q + 1) * TicksPerSecond = TicksPerSecond
    BY <1>2
  <1>6. SecondsUntil(t) = q
    BY DEF SecondsUntil
  <1> HIDE DEF q
  <1> QED
    BY <1>1, <1>2, <1>3, <1>4, <1>5, <1>6

\* What the two clamps return: the time to live ends before the claims and the
\* boundary do, but for a boundary that is in its last second or has passed.
LEMMA WriteTTLBounds ==
    ASSUME TypeOK, NEW v \in Versions
    PROVE  /\ WriteTTL(v) \in 0..TTL
           /\ WriteTTL(v) > 0 =>
                Within(clock + WriteTTL(v) * TicksPerSecond, clock, clock, v)
  <1>1. /\ clock \in Nat /\ ClaimsExpiry \in Nat /\ TTL \in Nat /\ Boundary[v] \in Nat
        /\ TicksPerSecond \in Nat
    BY TimesAssumption DEF TypeOK
  <1>2. ClaimsTTL \in 0..TTL /\ (clock < ClaimsExpiry =>
            ClaimsTTL <= SecondsUntil(ClaimsExpiry))
        /\ (ClaimsTTL > 0 => clock < ClaimsExpiry)
    BY <1>1, SecondsAhead DEF ClaimsTTL, Lesser
  <1>3. WriteTTL(v) \in 0..TTL /\ WriteTTL(v) <= ClaimsTTL
    BY <1>1, <1>2, SecondsAhead DEF WriteTTL, Lesser
  <1>4. clock < Boundary[v] /\ WriteTTL(v) > 0 =>
            SecondsUntil(Boundary[v]) = 0 \/ WriteTTL(v) <= SecondsUntil(Boundary[v])
    BY <1>1, <1>2, SecondsAhead DEF WriteTTL, Lesser
  <1> SUFFICES ASSUME WriteTTL(v) > 0
               PROVE  Within(clock + WriteTTL(v) * TicksPerSecond, clock, clock, v)
    BY <1>3
  <1> DEFINE w == WriteTTL(v)
             c == SecondsUntil(ClaimsExpiry)
             b == SecondsUntil(Boundary[v])
  <1>5. w \in Nat /\ w <= TTL /\ w > 0
    BY <1>1, <1>3
  <1>6. clock < ClaimsExpiry /\ w <= c /\ c \in Nat /\ clock + c * TicksPerSecond <= ClaimsExpiry
    BY <1>1, <1>2, <1>3, <1>5, SecondsAhead
  <1>7. w * TicksPerSecond \in Nat /\ w * TicksPerSecond <= TTL * TicksPerSecond
        /\ w * TicksPerSecond <= c * TicksPerSecond
        /\ c * TicksPerSecond \in Nat /\ TTL * TicksPerSecond \in Nat
    BY <1>1, <1>5, <1>6, TimesMonotone
  <1>8. \/ clock + w * TicksPerSecond <= Boundary[v]
        \/ clock > Boundary[v] - TicksPerSecond
    <2>1. CASE clock >= Boundary[v]
      BY <2>1, <1>1, TimesAssumption
    <2>2. CASE clock < Boundary[v]
      <3>1. b \in Nat /\ clock + b * TicksPerSecond <= Boundary[v]
            /\ (b = 0 => clock > Boundary[v] - TicksPerSecond)
        BY <2>2, <1>1, SecondsAhead
      <3>2. b = 0 \/ w <= b
        BY <2>2, <1>4
      <3>3. CASE b = 0
        BY <3>1, <3>3
      <3>4. CASE w <= b
        <4>1. w * TicksPerSecond <= b * TicksPerSecond /\ b * TicksPerSecond \in Nat
          BY <3>1, <3>4, <1>1, <1>5, TimesMonotone
        <4> HIDE DEF w, b
        <4> QED
          BY <3>1, <4>1, <1>1, <1>7
      <3> QED
        BY <3>2, <3>3, <3>4
    <2> QED
      BY <2>1, <2>2, <1>1
  <1> HIDE DEF w, c, b
  <1>9. Within(clock + w * TicksPerSecond, clock, clock, v)
    BY <1>1, <1>6, <1>7, <1>8 DEF Within
  <1> QED
    BY <1>9 DEF w

\* The empty entry keeps every promise.
LEMMA NoEntryJust ==
    ASSUME NEW v \in Versions
    PROVE  EntryJust(NoEntry, v)
  <1>1. TTL * TicksPerSecond \in Nat
    BY TimesAssumption, TimesMonotone
  <1> QED
    BY <1>1, TimesAssumption DEF EntryJust, NoEntry, Entries, Within

-----------------------------------------------------------------------------
\* Types are preserved by every step.
LEMMA TypeStep == TypeOK /\ [Next]_vars => TypeOK'
  <1> SUFFICES ASSUME TypeOK, [Next]_vars PROVE TypeOK'
    OBVIOUS
  <1> USE VersionsAssumption, TimesAssumption
  <1>1. CASE Tick
    <2>1. \A e \in Entries : Kept(e) \in Entries
      BY DEF Kept, Entries, NoEntry
    <2> QED
      BY <1>1, <2>1 DEF Tick, TypeOK, scanVars, localVars
  <1>2. CASE Publish
    BY <1>2 DEF Publish, TypeOK, scanVars, localVars
  <1>3. ASSUME NEW s \in Scans, ScanStep(s) PROVE TypeOK'
    <2>1. /\ presented[s] \in Versions /\ home[s] \in Processes
          /\ NoClamp \in [ttl : 0..TTL, at : 0..MaxTime]
      BY DEF TypeOK, NoClamp
    <2>2. ASSUME Done(s)
          PROVE  /\ pc' \in [Scans -> {"idle", "lookup", "verify", "store", "set"}]
                 /\ presented' \in [Scans -> Versions] /\ keyed' \in [Scans -> BOOLEAN]
                 /\ verdict' \in [Scans -> {"none", "allowed", "blocked"}]
                 /\ clamp' \in [Scans -> [ttl : 0..TTL, at : 0..MaxTime]]
                 /\ home' \in [Scans -> Processes]
      BY <2>1, <2>2 DEF Done, TypeOK
    <2>3. CASE Begin(s)
      BY <2>3 DEF Begin, TypeOK, NoAnswer
    <2>4. CASE Hit(s)
      <3>1. PICK e \in Found(s) :
               answer' = [answer EXCEPT ![s] = [verdict |-> e.verdict, version |-> presented[s]]]
        BY <2>4 DEF Hit
      <3>2. e.verdict \in {"none", "allowed", "blocked"}
        <4>1. redis[presented[s]] \in Entries /\ local[home[s]][presented[s]] \in Entries
          <5>1. redis \in [Versions -> Entries] /\ local \in [Processes -> [Versions -> Entries]]
            BY DEF TypeOK
          <5> QED
            BY <2>1, <5>1
        <4>2. e \in Entries
          BY <3>1, <4>1 DEF Found
        <4> QED
          BY <4>2 DEF Entries
      <3> QED
        BY <2>1, <2>2, <2>4, <3>1, <3>2 DEF Hit, TypeOK
    <2>5. CASE Miss(s)
      BY <2>5 DEF Miss, TypeOK, localVars
    <2>6. CASE Verify(s)
      BY <2>6 DEF Verify, TypeOK, Judge
    <2>7. CASE Refuse(s)
      BY <2>2, <2>7 DEF Refuse, TypeOK
    <2>8. CASE Clamp(s)
      <3>1. WriteTTL(presented[s]) \in 0..TTL
        BY <2>1, WriteTTLBounds
      <3>2. CASE keyed[s] /\ WriteTTL(presented[s]) > 0
        <4>1. [ttl |-> WriteTTL(presented[s]), at |-> clock] \in [ttl : 0..TTL, at : 0..MaxTime]
          BY <3>1 DEF TypeOK
        <4>2. /\ clamp' = [clamp EXCEPT ![s] = [ttl |-> WriteTTL(presented[s]), at |-> clock]]
              /\ pc' = [pc EXCEPT ![s] = "set"]
              /\ UNCHANGED <<home, presented, keyed, verdict, answer, clock, version, redis, local>>
          BY <2>8, <3>2 DEF Clamp
        <4>3. clamp' \in [Scans -> [ttl : 0..TTL, at : 0..MaxTime]]
          BY <4>1, <4>2 DEF TypeOK
        <4> QED
          BY <4>2, <4>3 DEF TypeOK
      <3>3. CASE ~(keyed[s] /\ WriteTTL(presented[s]) > 0)
        BY <2>1, <2>2, <2>8, <3>3 DEF Clamp, Give, TypeOK
      <3> QED
        BY <3>2, <3>3
    <2>9. CASE Store(s)
      <3> DEFINE e == [verdict |-> verdict[s], until |-> clock + clamp[s].ttl * TicksPerSecond,
                       written |-> clock, clamped |-> clamp[s].at]
      <3>1. clamp[s].ttl \in Nat /\ clamp[s].at \in Nat /\ clock \in Nat
        BY DEF TypeOK
      <3>2. clamp[s].ttl * TicksPerSecond \in Nat
        BY <3>1, TimesMonotone
      <3>3. e \in Entries
        BY <3>1, <3>2 DEF TypeOK, Entries
      <3> HIDE DEF e
      <3>4. \/ redis' = [redis EXCEPT ![presented[s]] = e] /\ local' = local
            \/ local' = [local EXCEPT ![home[s]][presented[s]] = e] /\ redis' = redis
        BY <2>9 DEF Store, e
      <3>5. redis' \in [Versions -> Entries] /\ local' \in [Processes -> [Versions -> Entries]]
        <4>1. CASE redis' = [redis EXCEPT ![presented[s]] = e] /\ local' = local
          BY <2>1, <3>3, <4>1 DEF TypeOK
        <4>2. CASE local' = [local EXCEPT ![home[s]][presented[s]] = e] /\ redis' = redis
          <5>1. [local[home[s]] EXCEPT ![presented[s]] = e] \in [Versions -> Entries]
            BY <2>1, <3>3 DEF TypeOK
          <5> QED
            BY <2>1, <4>2, <5>1 DEF TypeOK
        <4> QED
          BY <3>4, <4>1, <4>2
      <3> QED
        BY <2>1, <2>2, <2>9, <3>5 DEF Store, Give, TypeOK
    <2> QED
      BY <1>3, <2>3, <2>4, <2>5, <2>6, <2>7, <2>8, <2>9 DEF ScanStep
  <1>4. CASE UNCHANGED vars
    BY <1>4 DEF vars, TypeOK
  <1> QED
    BY <1>1, <1>2, <1>3, <1>4 DEF Next

\* The clamp of a scan keeps its bound until the scan writes it: time passes,
\* and only Clamp itself brings a scan to "set".
LEMMA ClampStep == TypeOK /\ ClampBounded /\ [Next]_vars => ClampBounded'
  <1> SUFFICES ASSUME TypeOK, ClampBounded, [Next]_vars PROVE ClampBounded'
    OBVIOUS
  <1>1. CASE Tick \/ Publish \/ UNCHANGED vars
    <2>1. UNCHANGED <<pc, clamp, presented>> /\ clock' >= clock /\ clock' \in Int
      BY <1>1 DEF Tick, Publish, vars, scanVars, localVars, TypeOK
    <2>2. \A s \in Scans : clamp[s].at \in Int
      BY DEF TypeOK
    <2> QED
      BY <2>1, <2>2 DEF ClampBounded, TypeOK
  <1>2. ASSUME NEW s \in Scans, ScanStep(s) PROVE ClampBounded'
    <2> SUFFICES ASSUME NEW z \in Scans, pc'[z] = "set"
                 PROVE  /\ clamp'[z].at <= clock'
                        /\ Within(clamp'[z].at + clamp'[z].ttl * TicksPerSecond, clamp'[z].at,
                                  clamp'[z].at, presented'[z])
      BY DEF ClampBounded, Within
    <2>1. clock' = clock
      BY <1>2 DEF ScanStep, Begin, Hit, Miss, Verify, Refuse, Clamp, Store
    <2>2. CASE z # s
      <3>1. pc'[z] = pc[z] /\ clamp'[z] = clamp[z] /\ presented'[z] = presented[z]
        BY <1>2, <2>2 DEF ScanStep, Begin, Hit, Miss, Verify, Refuse, Clamp, Store, Give, Done,
                          localVars, TypeOK
      <3> QED
        BY <2>1, <3>1 DEF ClampBounded
    <2>3. CASE z = s
      <3>1. /\ Clamp(s) /\ WriteTTL(presented[s]) > 0 /\ presented' = presented
            /\ clamp' = [clamp EXCEPT ![s] = [ttl |-> WriteTTL(presented[s]), at |-> clock]]
        BY <1>2, <2>3 DEF ScanStep, Begin, Hit, Miss, Verify, Refuse, Clamp, Store, Give, Done, TypeOK
      <3>2. Within(clock + WriteTTL(presented[s]) * TicksPerSecond, clock, clock, presented[s])
        BY <3>1, WriteTTLBounds DEF TypeOK
      <3>3. clamp'[s].at = clock /\ clamp'[s].ttl = WriteTTL(presented[s])
        BY <3>1 DEF TypeOK
      <3>4. clock <= clock
        BY DEF TypeOK
      <3> QED
        BY <2>1, <2>3, <3>1, <3>2, <3>3, <3>4
    <2> QED
      BY <2>2, <2>3
  <1> QED
    BY <1>1, <1>2 DEF Next

\* A verdict is computed for the version it is kept with.
LEMMA VerdictStep == TypeOK /\ VerdictJust /\ [Next]_vars => VerdictJust'
  <1> SUFFICES ASSUME TypeOK, VerdictJust, [Next]_vars PROVE VerdictJust'
    OBVIOUS
  <1>1. CASE Tick \/ Publish \/ UNCHANGED vars
    BY <1>1 DEF Tick, Publish, vars, scanVars, localVars, VerdictJust
  <1>2. ASSUME NEW s \in Scans, ScanStep(s) PROVE VerdictJust'
    <2>1. CASE Begin(s) \/ Miss(s) \/ Verify(s)
      BY <2>1 DEF Begin, Miss, Verify, Judge, localVars, VerdictJust, TypeOK
    <2>2. CASE Done(s)
      BY <2>2 DEF Done, VerdictJust, TypeOK
    <2>3. CASE Clamp(s)
      BY <2>2, <2>3 DEF Clamp, Give, VerdictJust
    <2> QED
      BY <1>2, <2>1, <2>2, <2>3 DEF ScanStep, Hit, Refuse, Store, Give
  <1> QED
    BY <1>1, <1>2 DEF Next

\* The only entry a step adds is the one of Store, which ends as far after its
\* write as its clamp allowed after the clamp.
LEMMA EntriesStep ==
    TypeOK /\ ClampBounded /\ VerdictJust /\ EntriesJust /\ [Next]_vars => EntriesJust'
  <1> SUFFICES ASSUME TypeOK, ClampBounded, VerdictJust, EntriesJust, [Next]_vars
               PROVE  EntriesJust'
    OBVIOUS
  <1>1. CASE Tick
    <2>1. \A e : Kept(e) = e \/ Kept(e) = NoEntry
      BY DEF Kept
    <2>2. \A v \in Versions : redis'[v] = Kept(redis[v])
            /\ \A p \in Processes : local'[p][v] = Kept(local[p][v])
      BY <1>1 DEF Tick
    <2> QED
      BY <2>1, <2>2, NoEntryJust DEF EntriesJust
  <1>2. CASE UNCHANGED <<redis, local>>
    BY <1>2 DEF EntriesJust
  <1>3. ASSUME NEW s \in Scans, Store(s) PROVE EntriesJust'
    <2> DEFINE e == [verdict |-> verdict[s], until |-> clock + clamp[s].ttl * TicksPerSecond,
                     written |-> clock, clamped |-> clamp[s].at]
    <2>1. /\ clamp[s].ttl \in Nat /\ clamp[s].at \in Nat /\ clock \in Nat
          /\ presented[s] \in Versions /\ home[s] \in Processes
          /\ verdict[s] \in {"none", "allowed", "blocked"}
      BY TimesAssumption DEF TypeOK
    <2>2. clamp[s].ttl * TicksPerSecond \in Nat /\ TTL * TicksPerSecond \in Nat
      BY <2>1, TimesAssumption, TimesMonotone
    <2>3. /\ clamp[s].at <= clock
          /\ Within(clamp[s].at + clamp[s].ttl * TicksPerSecond, clamp[s].at, clamp[s].at,
                    presented[s])
      BY <1>3 DEF Store, ClampBounded
    <2>4. Within(clock + clamp[s].ttl * TicksPerSecond, clock, clamp[s].at, presented[s])
      <3>1. Boundary[presented[s]] \in Nat /\ ClaimsExpiry \in Nat /\ TicksPerSecond \in Nat
        BY <2>1, TimesAssumption
      <3> DEFINE d == clamp[s].ttl * TicksPerSecond
                 m == TTL * TicksPerSecond
      <3>2. d \in Nat /\ m \in Nat
        BY <2>2
      <3> HIDE DEF d, m
      <3>3. Within(clamp[s].at + d, clamp[s].at, clamp[s].at, presented[s])
              => Within(clock + d, clock, clamp[s].at, presented[s])
        BY <2>1, <2>3, <3>1, <3>2 DEF Within, m
      <3> QED
        BY <2>3, <3>3 DEF d
    <2>5. EntryJust(e, presented[s])
      BY <2>1, <2>2, <2>4 DEF EntryJust, Entries, VerdictJust
    <2> HIDE DEF e
    <2>6. \/ redis' = [redis EXCEPT ![presented[s]] = e] /\ local' = local
          \/ local' = [local EXCEPT ![home[s]][presented[s]] = e] /\ redis' = redis
      BY <1>3 DEF Store, e
    <2>0. redis \in [Versions -> Entries] /\ local \in [Processes -> [Versions -> Entries]]
      BY DEF TypeOK
    <2>7. \A v \in Versions : redis'[v] = redis[v] \/ (v = presented[s] /\ redis'[v] = e)
      <3>1. \A v \in Versions : [redis EXCEPT ![presented[s]] = e][v] = redis[v]
                                 \/ (v = presented[s] /\ [redis EXCEPT ![presented[s]] = e][v] = e)
        BY <2>0
      <3> QED
        BY <2>6, <3>1
    <2>8. \A v \in Versions, p \in Processes :
             local'[p][v] = local[p][v] \/ (v = presented[s] /\ local'[p][v] = e)
      <3> DEFINE h == [local[home[s]] EXCEPT ![presented[s]] = e]
      <3>1. \A v \in Versions : h[v] = local[home[s]][v] \/ (v = presented[s] /\ h[v] = e)
        BY <2>0, <2>1
      <3> HIDE DEF h
      <3>2. local' = local \/ local' = [local EXCEPT ![home[s]] = h]
        BY <2>6 DEF h
      <3>3. \A p \in Processes : local'[p] = local[p] \/ (p = home[s] /\ local'[p] = h)
        BY <2>0, <3>2
      <3> QED
        BY <3>1, <3>3
    <2> QED
      BY <2>5, <2>7, <2>8 DEF EntriesJust
  <1> QED
    BY <1>1, <1>2, <1>3 DEF Next, Publish, ScanStep, Begin, Hit, Miss, Verify, Refuse, Clamp, vars

\* An answer is an entry of the presented version or the scan's own verdict.
LEMMA AnswerStep ==
    TypeOK /\ VerdictJust /\ EntriesJust /\ RevokedNeverAllowed /\ [Next]_vars
        => RevokedNeverAllowed'
  <1> SUFFICES ASSUME TypeOK, VerdictJust, EntriesJust, RevokedNeverAllowed, [Next]_vars
               PROVE  RevokedNeverAllowed'
    OBVIOUS
  <1>1. CASE UNCHANGED answer
    BY <1>1 DEF RevokedNeverAllowed
  <1>2. ASSUME NEW s \in Scans, Begin(s) PROVE RevokedNeverAllowed'
    BY <1>2 DEF Begin, NoAnswer, RevokedNeverAllowed, TypeOK
  <1>3. ASSUME NEW s \in Scans, Hit(s) PROVE RevokedNeverAllowed'
    <2>1. PICK e \in Found(s) :
             answer' = [answer EXCEPT ![s] = [verdict |-> e.verdict, version |-> presented[s]]]
      BY <1>3 DEF Hit
    <2>2. presented[s] \in Revoked => e.verdict # "allowed"
      BY <2>1 DEF Found, EntriesJust, EntryJust, TypeOK
    <2> QED
      BY <2>1, <2>2 DEF RevokedNeverAllowed, TypeOK
  <1>4. ASSUME NEW s \in Scans, Give(s) PROVE RevokedNeverAllowed'
    BY <1>4 DEF Give, VerdictJust, RevokedNeverAllowed, TypeOK
  <1> QED
    BY <1>1, <1>2, <1>3, <1>4
       DEF Next, Tick, Publish, ScanStep, Miss, Verify, Refuse, Clamp, Store, scanVars, vars

\* The initial state satisfies the invariant.
LEMMA InitInv == Init => IInv
  <1> SUFFICES ASSUME Init PROVE IInv
    OBVIOUS
  <1>1. TypeOK
    BY VersionsAssumption, TimesAssumption
       DEF Init, TypeOK, Entries, NoEntry, NoClamp, NoAnswer
  <1>2. EntriesJust
    BY NoEntryJust DEF Init, EntriesJust
  <1>3. ClampBounded /\ VerdictJust /\ RevokedNeverAllowed
    BY DEF Init, ClampBounded, VerdictJust, RevokedNeverAllowed, NoAnswer
  <1> QED
    BY <1>1, <1>2, <1>3 DEF IInv

\* The invariant holds in every reachable state.
LEMMA Invariance == Spec => []IInv
  <1>1. IInv /\ [Next]_vars => IInv'
    BY TypeStep, ClampStep, VerdictStep, EntriesStep, AnswerStep DEF IInv
  <1> QED
    BY InitInv, <1>1, PTL DEF Spec

\* No scan is ever told "allowed" for a record version that governance revoked,
\* whatever Redis and the fallbacks of the processes hold.
THEOREM RevokedNeverServed == Spec => []RevokedNeverAllowed
  BY Invariance, PTL DEF IInv

\* A live entry of a cache, with what EntriesJust says of it.
LEMMA ServableJust ==
    ASSUME IInv, NEW v \in Versions, NEW e \in Servable(v)
    PROVE  EntryJust(e, v) /\ clock < e.until /\ clock \in Nat
  BY DEF IInv, Servable, Live, EntriesJust, TypeOK

\* For every time to live, clock rate and set of boundaries, an entry is served
\* past its boundary only by the time its write took, unless it was clamped in
\* the boundary's last second or later.
THEOREM OverrunBounded == Spec => []OverrunIsBounded
  <1>1. IInv => OverrunIsBounded
    <2> SUFFICES ASSUME IInv, NEW v \in Versions, NEW e \in Servable(v)
                 PROVE  /\ \/ clock < Boundary[v] + WriteTime(e)
                           \/ e.clamped > Boundary[v] - TicksPerSecond
                        /\ clock < e.written + TTL * TicksPerSecond
      BY DEF OverrunIsBounded
    <2>1. TTL * TicksPerSecond \in Nat /\ Boundary[v] \in Nat
      BY TimesAssumption, TimesMonotone
    <2> QED
      BY <2>1, ServableJust DEF EntryJust, Within, Entries, WriteTime
  <1> QED
    BY <1>1, Invariance, PTL

\* No cached verdict outlives the claims by more than the time its write took.
THEOREM ClaimsAlwaysHonoured == Spec => []ClaimsHonoured
  <1>1. IInv => ClaimsHonoured
    <2> SUFFICES ASSUME IInv, NEW v \in Versions, NEW e \in Servable(v)
                 PROVE  clock < ClaimsExpiry + WriteTime(e)
      BY DEF ClaimsHonoured
    <2> QED
      BY ServableJust, TimesAssumption DEF EntryJust, Within, Entries, WriteTime
  <1> QED
    BY <1>1, Invariance, PTL

-----------------------------------------------------------------------------
(* The request counters *)

\* A window ends where the next one begins.
Start(w) == Second * (Window * w)
End(w) == Second * (Window * (w + 1))

\* A second after its end nobody counts in a window any more.
Over(w) == limiterClock >= End(w) + Second

Win(r) == WindowOf(began[r])

\* Types of the part of the state that Redis and its callers share.
Labels == {"idle", "incr", "expire", "ttl", "fallback", "allowed", "refused"}
Keys == [count : Nat, until : Nat \union {Never}]
RedisTypeOK ==
    /\ limiterClock \in 0..MaxLimiterTime
    /\ counter \in [Windows -> Keys]
    /\ step \in [Requests -> Labels]
    /\ began \in [Requests -> 0..MaxLimiterTime]
    /\ number \in [Requests -> Nat]
    /\ by \in [Requests -> {"none", "redis", "fallback"}]

Timely ==
    \A r \in Requests : /\ began[r] <= limiterClock
                        /\ step[r] \in InRedis => limiterClock <= began[r] + Delay

CountersLast ==
    \A w \in Windows : counter[w].until # Never => counter[w].until >= End(w) + Second

Numbered ==
    \A r \in Requests :
        /\ number[r] > 0 => step[r] \notin {"idle", "incr"}
        /\ number[r] > counter[Win(r)].count => Over(Win(r))

NumbersDiffer ==
    \A r, q \in Requests :
        r # q /\ Win(r) = Win(q) /\ number[r] > 0 => number[r] # number[q]

AllowedIsNumbered ==
    \A r \in Requests :
        /\ step[r] = "expire" => number[r] = 1
        /\ step[r] \in InRedis \union {"fallback"} => Limit > 0
        /\ step[r] = "allowed" /\ by[r] = "redis" => number[r] \in 1..Limit

LimiterInv == RedisTypeOK /\ Timely /\ CountersLast /\ Numbered /\ NumbersDiffer /\ AllowedIsNumbered

-----------------------------------------------------------------------------
\* Products of naturals grow with their factors.
LEMMA Monotone == ASSUME NEW a \in Nat, NEW b \in Nat, NEW c \in Nat, a <= b
                  PROVE  c * a <= c * b
  BY Z3

\* A time lies between the start and the end of its window.
LEMMA InItsWindow ==
  ASSUME NEW t \in Nat
  PROVE  /\ WindowOf(t) \in Nat
         /\ Start(WindowOf(t)) <= t
         /\ t < End(WindowOf(t))
<1> DEFINE a == t \div Second
           w == a \div Window
<1>1. a \in Nat /\ Second * a <= t /\ t < Second * (a + 1)
  BY WindowAssumption, Z3
<1>2. w \in Nat /\ Window * w <= a /\ a < Window * (w + 1)
  BY <1>1, WindowAssumption, Z3
<1>3. Window * w \in Nat /\ Window * (w + 1) \in Nat /\ a + 1 <= Window * (w + 1)
  BY <1>1, <1>2, WindowAssumption
<1>4. Second * (Window * w) <= Second * a
  BY <1>1, <1>2, <1>3, Monotone, WindowAssumption
<1>5. Second * (a + 1) <= Second * (Window * (w + 1))
  BY <1>1, <1>2, <1>3, Monotone, WindowAssumption
<1>6. Second * (Window * w) \in Nat /\ Second * (Window * (w + 1)) \in Nat
      /\ Second * a \in Nat /\ Second * (a + 1) \in Nat
  BY <1>1, <1>3, WindowAssumption
<1> QED
  BY <1>1, <1>2, <1>4, <1>5, <1>6 DEF WindowOf, Start, End

\* Every time up to the bound is in one of the windows.
LEMMA WindowsCover ==
  ASSUME NEW t \in 0..MaxLimiterTime
  PROVE  WindowOf(t) \in Windows
<1>1. t \div Second <= MaxLimiterTime \div Second /\ t \div Second \in Nat /\ MaxLimiterTime \div Second \in Nat
  BY WindowAssumption, DelayAssumption, Z3
<1> DEFINE a == t \div Second
           b == MaxLimiterTime \div Second
<1>2. \A x, y \in Nat : x <= y => x \div Window <= y \div Window
  BY WindowAssumption, Z3
<1>3. a \in Nat /\ b \in Nat /\ a <= b
  BY <1>1
<1> HIDE DEF a, b
<1>4. a \div Window <= b \div Window /\ a \div Window \in Nat /\ b \div Window \in Nat
  BY <1>2, <1>3, WindowAssumption, Z3
<1> QED
  BY <1>4 DEF Windows, WindowOf, a, b

\* The end of a window is one window after its start.
LEMMA EndOf ==
  ASSUME NEW w \in Nat
  PROVE  /\ Start(w) \in Nat /\ End(w) \in Nat
         /\ End(w) + Second = Start(w) + (Window + 1) * Second
<1>1. Window * w \in Nat /\ Window * (w + 1) = Window * w + Window
  BY WindowAssumption
<1> DEFINE a == Window * w
<1>2. Second * (a + Window) = Second * a + Second * Window
  BY <1>1, WindowAssumption, Z3
<1>3. (Window + 1) * Second = Second * Window + Second
  BY WindowAssumption, Z3
<1>4. Second * a \in Nat /\ Second * Window \in Nat
  BY <1>1, WindowAssumption
<1> QED
  BY <1>1, <1>2, <1>3, <1>4, WindowAssumption DEF Start, End

-----------------------------------------------------------------------------
\* Facts every step uses: the windows of the requests.
LEMMA Typed ==
  ASSUME RedisTypeOK
  PROVE  /\ limiterClock \in Nat
         /\ \A r \in Requests : /\ began[r] \in Nat /\ number[r] \in Nat
                                /\ Win(r) \in Windows /\ Win(r) \in Nat
                                /\ Start(Win(r)) <= began[r] /\ began[r] < End(Win(r))
                                /\ Start(Win(r)) \in Nat /\ End(Win(r)) \in Nat
         /\ \A w \in Windows : /\ w \in Nat /\ End(w) \in Nat
                               /\ counter[w].count \in Nat
                               /\ counter[w].until \in Nat \union {Never}
<1>1. limiterClock \in Nat /\ \A r \in Requests : began[r] \in 0..MaxLimiterTime /\ began[r] \in Nat /\ number[r] \in Nat
  BY DelayAssumption DEF RedisTypeOK
<1>2. \A w \in Windows : w \in Nat
  BY DEF Windows
<1>3. \A w \in Windows : counter[w].count \in Nat /\ counter[w].until \in Nat \union {Never}
  BY DEF RedisTypeOK, Keys
<1> QED
  BY <1>1, <1>2, <1>3, InItsWindow, WindowsCover, EndOf DEF Win

\* No counter is there and no request has begun.
LEMMA InitEstablishes == LimiterInit => LimiterInv
<1> SUFFICES ASSUME LimiterInit PROVE LimiterInv
  OBVIOUS
<1> USE DEF LimiterInit, NoKey
<1>0. \A w \in Windows : counter[w] = NoKey
  OBVIOUS
<1>1. RedisTypeOK
  BY DelayAssumption DEF RedisTypeOK, Never, Keys, Labels
<1>2. Timely
  BY DelayAssumption DEF Timely, InRedis
<1>3. CountersLast
  BY DEF CountersLast
<1>4. Numbered
  BY <1>0, <1>1, Typed DEF Numbered
<1>5. NumbersDiffer /\ AllowedIsNumbered
  BY DEF NumbersDiffer, AllowedIsNumbered, InRedis
<1> QED
  BY <1>1, <1>2, <1>3, <1>4, <1>5 DEF LimiterInv

-----------------------------------------------------------------------------
\* Time passes: what expires was not needed by a request that may still come.
LEMMA TickPreserves == ASSUME LimiterInv, LimiterTick, Delay <= Second PROVE LimiterInv'
<1> USE DEF LimiterInv
<1>0. limiterClock \in Nat /\ limiterClock' = limiterClock + 1 /\ limiterClock' \in 0..MaxLimiterTime
  BY DelayAssumption DEF LimiterTick, RedisTypeOK
<1>1. UNCHANGED <<bucket, step, server, began, number, by, ended, retry>>
  BY DEF LimiterTick, requestVars
<1>2. \A w \in Windows : counter'[w] = KeptCounter(counter[w])
  BY DEF LimiterTick
<1>3. RedisTypeOK'
  <2>1. \A w \in Windows : KeptCounter(counter[w]) \in Keys
    BY DEF RedisTypeOK, KeptCounter, NoKey, Keys
  <2> QED
    BY <1>0, <1>1, <2>1 DEF RedisTypeOK, LimiterTick
<1>4. Timely'
  BY <1>0, <1>1, DelayAssumption, Typed DEF Timely, LimiterTick, InRedis
<1>5. CountersLast'
  BY <1>2 DEF CountersLast, KeptCounter, NoKey, End
<1>6. Numbered'
  <2> SUFFICES ASSUME NEW r \in Requests, number[r] > counter'[Win(r)].count
               PROVE  Over(Win(r))'
    BY <1>1 DEF Numbered, Win
  <2>1. Win(r) \in Windows /\ End(Win(r)) \in Nat /\ Win(r)' = Win(r)
    BY <1>1, Typed DEF Win
  <2>2. CASE Over(Win(r))
    BY <1>0, <2>1, <2>2, WindowAssumption DEF Over, End
  <2>3. CASE ~Over(Win(r))
    <3>1. number[r] <= counter[Win(r)].count
      BY <2>1, <2>3, Typed DEF Numbered
    <3>2. counter[Win(r)].until # Never /\ counter[Win(r)].until <= limiterClock + 1
      BY <1>2, <2>1, <3>1, Typed DEF KeptCounter
    <3>3. counter[Win(r)].until >= End(Win(r)) + Second
      BY <2>1, <3>2 DEF CountersLast
    <3>4. counter[Win(r)].until \in Nat
      BY <2>1, <3>2, Typed
    <3>5. End(Win(r))' = End(Win(r))
      BY <1>1 DEF End, Win
    <3> QED
      BY <1>0, <2>1, <3>2, <3>3, <3>4, <3>5, WindowAssumption DEF Over
  <2> QED
    BY <2>2, <2>3
<1>7. NumbersDiffer' /\ AllowedIsNumbered'
  BY <1>1 DEF NumbersDiffer, AllowedIsNumbered, Win
<1> QED
  BY <1>3, <1>4, <1>5, <1>6, <1>7

-----------------------------------------------------------------------------
\* Each step of a request keeps the types.
LEMMA StepTyped == ASSUME RedisTypeOK, NEW r \in Requests, RequestStep(r) PROVE RedisTypeOK'
<1>1. limiterClock \in 0..MaxLimiterTime /\ limiterClock \in Nat /\ MaxLimiterTime \in Nat
  BY DelayAssumption DEF RedisTypeOK
<1>2. Key(r) \in Keys /\ Win(r) \in Windows
  BY Typed DEF Key, Win, RedisTypeOK
<1>3. counter \in [Windows -> Keys]
  BY DEF RedisTypeOK
<1>4. Incremented(r) \in Keys
  BY <1>2 DEF Incremented, Keys
<1>5. Expiry \in Nat
  BY <1>1, WindowAssumption DEF Expiry
<1>6. WithExpiry(r) \in Keys
  BY <1>2, <1>5 DEF WithExpiry, Keys
<1>7. limiterClock' = limiterClock
  BY DEF RequestStep, BeginRequest, Incr, Expire, Ttl, RedisFails, ReplyLost, Fallback
<1>8. counter' \in [Windows -> Keys]
  BY <1>3, <1>4, <1>6
  DEF RequestStep, BeginRequest, Incr, Expire, Ttl, RedisFails, ReplyLost, Fallback, SetKey
<1>9. began' \in [Requests -> 0..MaxLimiterTime]
  BY <1>1 DEF RequestStep, BeginRequest, Incr, Expire, Ttl, RedisFails, ReplyLost, Fallback, RedisTypeOK
<1>10. number' \in [Requests -> Nat]
  BY <1>4 DEF RequestStep, BeginRequest, Incr, Expire, Ttl, RedisFails, ReplyLost, Fallback,
              RedisTypeOK, Keys
<1>11. step' \in [Requests -> Labels]
  BY DEF RequestStep, BeginRequest, Incr, Expire, Ttl, RedisFails, ReplyLost, Fallback,
         Decide, Goto, RedisTypeOK, Labels
<1>12. by' \in [Requests -> {"none", "redis", "fallback"}]
  BY DEF RequestStep, BeginRequest, Incr, Expire, Ttl, RedisFails, ReplyLost, Fallback,
         Decide, Goto, RedisTypeOK
<1> QED
  BY <1>1, <1>7, <1>8, <1>9, <1>10, <1>11, <1>12 DEF RedisTypeOK

\* Steps that neither count nor touch a counter.
LEMMA QuietPreserves ==
  ASSUME LimiterInv, NEW r \in Requests, BeginRequest(r) \/ Ttl(r) \/ RedisFails(r) \/ Fallback(r)
  PROVE  LimiterInv'
<1> USE DEF LimiterInv
<1>1. RedisTypeOK'
  BY StepTyped DEF RequestStep
<1>2. limiterClock' = limiterClock /\ counter' = counter /\ number' = number
  BY DEF BeginRequest, Ttl, RedisFails, Fallback
<1>3. \A q \in Requests \ {r} : step'[q] = step[q] /\ by'[q] = by[q] /\ began'[q] = began[q]
  BY DEF BeginRequest, Ttl, RedisFails, Fallback, Decide, Goto, RedisTypeOK
<1>4. CASE BeginRequest(r)
  <2>1. number[r] = 0 /\ began'[r] = limiterClock
    BY <1>4, Typed DEF BeginRequest, Numbered, RedisTypeOK
  <2>2. step'[r] = "refused" \/ (step'[r] = "incr" /\ Limit > 0)
    BY <1>4, LimitAssumption DEF BeginRequest, Decide, Goto, RedisTypeOK
  <2>3. step'[r] = "refused" => by'[r] = "none" \/ Limit > 0
    BY <1>4, LimitAssumption DEF BeginRequest, Decide, Goto, RedisTypeOK
  <2>4. \A q \in Requests \ {r} : Win(q)' = Win(q)
    BY <1>3 DEF Win
  <2>5. Timely'
    BY <1>2, <1>3, <2>1, DelayAssumption, Typed DEF Timely
  <2>6. CountersLast'
    BY <1>2 DEF CountersLast, End
  <2>7. Win(r)' \in Windows
    BY <1>1, WindowsCover DEF Win, RedisTypeOK
  <2>8. Numbered'
    BY <1>2, <1>3, <2>1, <2>4, <2>7, Typed DEF Numbered, Over, End
  <2>9. NumbersDiffer'
    BY <1>2, <2>1, <2>4, Typed DEF NumbersDiffer
  <2>10. AllowedIsNumbered'
    BY <1>2, <1>3, <2>2 DEF AllowedIsNumbered, InRedis
  <2> QED
    BY <1>1, <2>5, <2>6, <2>8, <2>9, <2>10
<1>5. CASE Ttl(r) \/ RedisFails(r) \/ Fallback(r)
  <2>1. began' = began /\ \A q \in Requests : Win(q)' = Win(q)
    BY <1>5 DEF Ttl, RedisFails, Fallback, Win
  <2>2. step[r] \notin {"idle", "incr", "allowed"} \/ (step[r] = "incr" /\ step'[r] = "fallback")
    BY <1>5 DEF Ttl, RedisFails, Fallback, InRedis, Goto, RedisTypeOK
  <2>3. \/ step'[r] = "refused"
        \/ step'[r] = "fallback" /\ step[r] \in InRedis
        \/ step'[r] = "allowed" /\ by'[r] = "fallback"
    BY <1>5 DEF Ttl, RedisFails, Fallback, Goto, Decide, RedisTypeOK
  <2>4. Timely'
    BY <1>2, <1>3, <2>1, <2>3 DEF Timely, InRedis
  <2>5. CountersLast'
    BY <1>2 DEF CountersLast, End
  <2>6. Numbered'
    BY <1>2, <1>3, <2>1, <2>3 DEF Numbered, Over, End
  <2>7. NumbersDiffer'
    BY <1>2, <2>1 DEF NumbersDiffer
  <2>8. AllowedIsNumbered'
    BY <1>2, <1>3, <2>3 DEF AllowedIsNumbered, InRedis
  <2> QED
    BY <1>1, <2>4, <2>5, <2>6, <2>7, <2>8
<1> QED
  BY <1>4, <1>5

\* A request that still counts is in a window that is not over.
LEMMA CountedInTime ==
  ASSUME LimiterInv, Delay <= Second, NEW r \in Requests, step[r] \in InRedis
  PROVE  ~Over(Win(r))
  BY Typed, DelayAssumption, WindowAssumption DEF LimiterInv, Timely, Over

\* Steps that set the expiry of a counter, from the start of its window on.
LEMMA ExpiryPreserves ==
  ASSUME LimiterInv, NEW r \in Requests, step[r] = "expire", SetKey(r, WithExpiry(r)),
         Expire(r) \/ ReplyLost(r)
  PROVE  LimiterInv'
<1> USE DEF LimiterInv
<1>1. RedisTypeOK'
  BY StepTyped DEF RequestStep
<1>2. limiterClock' = limiterClock /\ number' = number /\ began' = began /\ \A q \in Requests : Win(q)' = Win(q)
  BY DEF Expire, ReplyLost, Win
<1>3. \A q \in Requests \ {r} : step'[q] = step[q] /\ by'[q] = by[q]
  BY DEF Expire, ReplyLost, Decide, Goto, RedisTypeOK
<1>4. step'[r] \in {"allowed", "fallback"}
  BY DEF Expire, ReplyLost, Decide, Goto, RedisTypeOK
<1>5. \A w \in Windows \ {Win(r)} : counter'[w] = counter[w]
  BY DEF SetKey, RedisTypeOK, Win
<1>6. counter'[Win(r)] = WithExpiry(r) /\ Win(r) \in Windows
  BY Typed DEF SetKey, RedisTypeOK, Win
<1>7. Key(r) = counter[Win(r)]
  BY DEF Key, Win
<1>8. Key(r) \in Keys
  BY <1>6, <1>7 DEF RedisTypeOK
<1>9. WithExpiry(r).count = Key(r).count
  BY <1>8 DEF WithExpiry, Keys
<1>10. WithExpiry(r).until # Never => WithExpiry(r).until >= End(Win(r)) + Second
  <2>1. Expiry >= End(Win(r)) + Second
    <3>1. Win(r) \in Nat /\ Start(Win(r)) <= limiterClock /\ limiterClock \in Nat /\ Start(Win(r)) \in Nat
      BY Typed DEF Timely
    <3>2. (Window + 1) * Second \in Nat
      BY WindowAssumption
    <3> QED
      BY <3>1, <3>2, EndOf DEF Expiry
  <2> QED
    BY <1>6, <1>7, <1>8, <2>1 DEF WithExpiry, CountersLast, Keys
<1>11. Timely'
  BY <1>2, <1>3, <1>4 DEF Timely, InRedis
<1>12. CountersLast'
  BY <1>5, <1>6, <1>10 DEF CountersLast, End
<1>13. \A w \in Windows : counter'[w].count = counter[w].count
  BY <1>5, <1>6, <1>7, <1>9
<1>14. Numbered'
  BY <1>2, <1>3, <1>4, <1>13, Typed DEF Numbered, Over, End
<1>15. NumbersDiffer'
  BY <1>2 DEF NumbersDiffer
<1>16. AllowedIsNumbered'
  BY <1>2, <1>3, <1>4, LimitAssumption DEF AllowedIsNumbered, InRedis
<1> QED
  BY <1>1, <1>11, <1>12, <1>14, <1>15, <1>16

\* Steps that increment a counter: the request they count for may get the new
\* count as its number, which nobody else of its window has.
LEMMA IncrementPreserves ==
  ASSUME LimiterInv, Delay <= Second, NEW r \in Requests, step[r] = "incr",
         SetKey(r, Incremented(r)), Incr(r) \/ ReplyLost(r)
  PROVE  LimiterInv'
<1> USE DEF LimiterInv
<1>1. RedisTypeOK'
  BY StepTyped DEF RequestStep
<1>2. limiterClock' = limiterClock /\ began' = began /\ \A q \in Requests : Win(q)' = Win(q)
  BY DEF Incr, ReplyLost, Win
<1>3. \A q \in Requests \ {r} : step'[q] = step[q] /\ by'[q] = by[q] /\ number'[q] = number[q]
  BY DEF Incr, ReplyLost, Decide, Goto, RedisTypeOK
<1>4. \A w \in Windows \ {Win(r)} : counter'[w] = counter[w]
  BY DEF SetKey, RedisTypeOK, Win
<1>5. Win(r) \in Windows /\ Key(r) = counter[Win(r)] /\ Key(r) \in Keys
  BY Typed DEF Key, Win, RedisTypeOK
<1>6. counter'[Win(r)].count = counter[Win(r)].count + 1 /\ counter'[Win(r)].until = counter[Win(r)].until
  BY <1>5 DEF SetKey, RedisTypeOK, Win, Incremented, Keys
<1>7. number[r] = 0
  BY Typed DEF Numbered
<1>8. \/ number'[r] = 0 /\ step'[r] = "fallback"
      \/ /\ number'[r] = counter[Win(r)].count + 1
         /\ \/ step'[r] = "expire" /\ number'[r] = 1
            \/ step'[r] = "allowed" /\ number'[r] <= Limit
            \/ step'[r] = "ttl"
  <2>1. Incremented(r).count = counter[Win(r)].count + 1
    BY <1>5 DEF Incremented, Keys
  <2>2. CASE Incr(r)
    BY <1>5, <2>1, <2>2, Typed DEF Incr, Decide, Goto, RedisTypeOK
  <2>3. CASE ReplyLost(r)
    BY <1>7, <2>3 DEF ReplyLost, Goto, RedisTypeOK
  <2> QED
    BY <2>2, <2>3
<1>9. ~Over(Win(r))
  BY CountedInTime DEF InRedis
<1>10. \A q \in Requests : Win(q) = Win(r) => number[q] <= counter[Win(r)].count
  BY <1>5, <1>9, Typed DEF Numbered
<1>11. Timely'
  BY <1>2, <1>3, <1>8, Typed DEF Timely, InRedis
<1>12. CountersLast'
  BY <1>4, <1>6 DEF CountersLast, End
<1>13. \A w \in Windows : counter'[w].count >= counter[w].count /\ counter'[w].count \in Nat
  BY <1>4, <1>6, Typed
<1>14. Numbered'
  <2> SUFFICES ASSUME NEW q \in Requests
               PROVE  /\ number'[q] > 0 => step'[q] \notin {"idle", "incr"}
                      /\ number'[q] > counter'[Win(q)].count => Over(Win(q))
    BY <1>2 DEF Numbered, Over, End
  <2>1. CASE q = r
    BY <1>5, <1>6, <1>8, <1>13, <2>1, Typed
  <2>2. CASE q # r
    BY <1>3, <1>13, <2>2, Typed DEF Numbered
  <2> QED
    BY <2>1, <2>2
<1>15. NumbersDiffer'
  <2>1. \A q \in Requests \ {r} : Win(q) = Win(r) /\ number'[r] > 0 => number[q] # number'[r]
    BY <1>8, <1>10, <1>5, Typed
  <2>2. \A q \in Requests \ {r} : Win(q) = Win(r) /\ number[q] > 0 => number[q] # number'[r]
    BY <1>8, <1>10, <1>5, Typed
  <2> QED
    BY <1>2, <1>3, <2>1, <2>2 DEF NumbersDiffer
<1>16. AllowedIsNumbered'
  BY <1>3, <1>5, <1>8, Typed, LimitAssumption DEF AllowedIsNumbered, InRedis
<1> QED
  BY <1>1, <1>11, <1>12, <1>14, <1>15, <1>16

-----------------------------------------------------------------------------
\* Every step keeps the invariant of the counters.
LEMMA StepPreserves == ASSUME LimiterInv, Delay <= Second, [LimiterNext]_limiterVars PROVE LimiterInv'
<1>1. CASE LimiterTick
  BY <1>1, TickPreserves
<1>2. ASSUME NEW r \in Requests, RequestStep(r) PROVE LimiterInv'
  <2>1. CASE BeginRequest(r) \/ Ttl(r) \/ RedisFails(r) \/ Fallback(r)
    BY <2>1, QuietPreserves
  <2>2. CASE Incr(r)
    BY <2>2, IncrementPreserves DEF Incr
  <2>3. CASE Expire(r)
    BY <2>3, ExpiryPreserves DEF Expire
  <2>4. CASE ReplyLost(r)
    BY <2>4, IncrementPreserves, ExpiryPreserves DEF ReplyLost
  <2> QED
    BY <1>2, <2>1, <2>2, <2>3, <2>4 DEF RequestStep
<1>3. CASE UNCHANGED limiterVars
  BY <1>3 DEF limiterVars, LimiterInv, RedisTypeOK, Timely, CountersLast, Numbered, NumbersDiffer,
              AllowedIsNumbered, Over, End, Win, Start
<1> QED
  BY <1>1, <1>2, <1>3 DEF LimiterNext, Decided

\* Different numbers from 1..Limit: at most Limit requests.
LEMMA Pigeonhole == ASSUME LimiterInv PROVE \A w \in Windows : Cardinality(AllowedInWindow(w)) <= Limit
<1> SUFFICES ASSUME NEW w \in Windows PROVE Cardinality(AllowedInWindow(w)) <= Limit
  OBVIOUS
<1> DEFINE A == AllowedInWindow(w)
           f == [r \in A |-> number[r]]
<1>1. \A r \in A : r \in Requests /\ Win(r) = w /\ number[r] \in 1..Limit
  BY DEF AllowedInWindow, Win, LimiterInv, AllowedIsNumbered
<1>2. \A r, q \in A : number[r] = number[q] => r = q
  BY <1>1, LimitAssumption DEF LimiterInv, NumbersDiffer
<1>3. IsFiniteSet(1..Limit) /\ Cardinality(1..Limit) = Limit
  BY FS_Interval, LimitAssumption
<1>4. f \in Injection(A, 1..Limit)
  BY <1>1, <1>2 DEF Injection, IsInjective
<1> HIDE DEF A, f
<1>5. IsFiniteSet(A) /\ Cardinality(A) <= Cardinality(1..Limit)
  BY <1>3, <1>4, FS_Injection
<1> QED
  BY <1>3, <1>5 DEF A

\* When every request is decided within a second of reading the clock, Redis
\* allows at most Limit requests of a window: no order of increments, expiries,
\* failures and lost replies hands out the budget of a window twice.
THEOREM BudgetSpentOnce == LimiterSpec => []BudgetHolds
<1>1. CASE Delay <= Second
  <2>1. LimiterInit => LimiterInv
    BY InitEstablishes
  <2>2. LimiterInv /\ [LimiterNext]_limiterVars => LimiterInv'
    BY <1>1, StepPreserves
  <2>3. LimiterInv => BudgetHolds
    BY Pigeonhole DEF BudgetHolds
  <2> QED
    BY <2>1, <2>2, <2>3, PTL DEF LimiterSpec
<1>2. CASE ~(Delay <= Second)
  <2>1. BudgetHolds
    BY <1>2 DEF BudgetHolds
  <2> QED
    BY <2>1, PTL
<1> QED
  BY <1>1, <1>2
-----------------------------------------------------------------------------
(* Retry-After *)

\* Of the shared state, whatever the delay of a request: its window has begun, and a
\* counter with an expiry outlives its window by a second and by no more than it was given.
Begun == \A r \in Requests : began[r] <= limiterClock /\ ended[r] <= limiterClock

CountersNear ==
    \A w \in Windows : counter[w].until # Never =>
        counter[w].until <= limiterClock + (Window + 1) * Second

\* A refusal of Redis lasts until the end of the window.
RedisWaits ==
    \A r \in Requests : step[r] = "refused" /\ by[r] = "redis" =>
        /\ retry[r] \in 1..(Window + 1)
        /\ ended[r] + retry[r] * Second >= End(Win(r))

\* The deque of a process holds at most Limit stamps, of requests it allowed, and the
\* stamp of every one that is recent.
Bucketed ==
    /\ \A p \in Servers :
          /\ IsFiniteSet(bucket[p]) /\ Cardinality(bucket[p]) <= Limit
          /\ \A q \in bucket[p] : step[q] = "allowed" /\ by[q] = "fallback"
    /\ \A q \in Requests :
          /\ step[q] = "allowed" /\ by[q] = "fallback"
          /\ ended[q] > limiterClock - Window * Second
          => q \in bucket[server[q]]

\* What still fills the fallback's window when the wait of r is over.
Holders(r) ==
    {q \in AllowedBy(server[r], ended[r]) :
        ended[q] > (ended[r] + retry[r] * Second) - Window * Second}

\* A refusal of the fallback lasts until the oldest stamp is dropped, and nobody else is
\* allowed at the moment of the refusal.
FallbackWaits ==
    \A r \in Requests : step[r] = "refused" /\ by[r] = "fallback" =>
        /\ retry[r] \in 1..(Window + 1)
        /\ Cardinality(Holders(r)) < Limit
        /\ ended[r] = limiterClock => Cardinality(Recent(bucket[server[r]])) >= Limit

\* A limit of zero refuses before Redis or the fallback is asked.
Asked ==
    \A r \in Requests :
        /\ (step[r] \in InRedis \union {"fallback"}) => Limit > 0
        /\ step[r] = "refused" => (Limit = 0 \/ by[r] \in {"redis", "fallback"})

RetryTypeOK ==
    /\ RedisTypeOK
    /\ bucket \in [Servers -> SUBSET Requests]
    /\ server \in [Requests -> Servers]
    /\ ended \in [Requests -> 0..MaxLimiterTime]
    /\ retry \in [Requests -> Nat]

RetryInv ==
    /\ RetryTypeOK /\ Begun /\ CountersLast /\ CountersNear /\ Asked
    /\ RedisWaits /\ Bucketed /\ FallbackWaits

\* What the windows are used for below.
LEMMA WindowTicks ==
  /\ Window * Second \in Nat /\ (Window + 1) * Second \in Nat
  /\ (Window + 1) * Second = Window * Second + Second /\ Second \in Nat /\ Second > 0
BY WindowAssumption, Z3

\* A window is over at its end.
LEMMA AfterItsEnd ==
  ASSUME NEW w \in Nat, NEW t \in Nat, t >= End(w)
  PROVE  WindowOf(t) > w
<1>1. WindowOf(t) \in Nat /\ t < End(WindowOf(t)) BY InItsWindow
<1> SUFFICES ASSUME WindowOf(t) <= w PROVE FALSE BY <1>1
<1> DEFINE v == WindowOf(t)
<1>2. v \in Nat /\ v + 1 <= w + 1 /\ v + 1 \in Nat /\ w + 1 \in Nat BY <1>1
<1>3. End(v) <= End(w)
  <2> HIDE DEF v
  <2>1. Window * (v + 1) <= Window * (w + 1) BY <1>2, Monotone, WindowAssumption
  <2>2. Window * (v + 1) \in Nat /\ Window * (w + 1) \in Nat BY <1>2, WindowAssumption
  <2> QED BY <2>1, <2>2, Monotone, WindowAssumption DEF End
<1>4. End(v) \in Nat /\ End(w) \in Nat
  <2> HIDE DEF v
  <2> QED BY <1>2, EndOf
<1> QED BY <1>1, <1>3, <1>4

\* Seconds rounded to the nearest, in ticks.
LEMMA Rounded ==
  ASSUME NEW d \in Nat, d <= (Window + 1) * Second
  PROVE  LET s == (2 * d + Second) \div (2 * Second)
         IN  s \in Nat /\ s <= Window + 1 /\ s * Second + Second >= d
<1> DEFINE a == 2 * d + Second
           b == 2 * Second
           s == a \div b
<1>1. a \in Nat /\ b \in Nat \ {0} BY WindowTicks
<1>2. s \in Nat /\ s * b <= a /\ a < (s + 1) * b
  <2> HIDE DEF a, b
  <2> QED BY <1>1, DivTimes
<1> HIDE DEF s
<1>3. s * b = 2 * (s * Second) /\ (s + 1) * b = 2 * (s * Second) + 2 * Second
  BY <1>2, WindowTicks, Z3
<1>4. s * Second \in Nat BY <1>2, WindowTicks
<1>5. s <= Window + 1
  <2> SUFFICES ASSUME s >= Window + 2 PROVE FALSE BY <1>2, WindowAssumption
  <2>1. (Window + 2) * Second <= s * Second
    BY <1>2, WindowAssumption, TimesMonotone
  <2>2. (Window + 2) * Second = (Window + 1) * Second + Second BY WindowAssumption, Z3
  <2> QED BY <1>2, <1>3, <1>4, <2>1, <2>2, WindowTicks
<1>6. s * Second + Second >= d BY <1>2, <1>3, <1>4, WindowTicks
<1> QED BY <1>2, <1>5, <1>6 DEF s

\* Seconds rounded up, in ticks, at least one.
LEMMA RoundedUp ==
  ASSUME NEW d \in Nat, d > 0, d <= Window * Second
  PROVE  LET s == IF d <= Second THEN 1 ELSE (d + Second - 1) \div Second
         IN  s \in 1..(Window + 1) /\ s * Second >= d
<1>1. CASE d <= Second
  <2>1. 1 * Second = Second BY WindowAssumption
  <2> QED BY <1>1, <2>1, WindowAssumption
<1>2. CASE d > Second
  <2> DEFINE a == d + Second - 1
             s == a \div Second
  <2>1. a \in Nat BY WindowAssumption
  <2>2. s \in Nat /\ s * Second <= a /\ a < (s + 1) * Second
    <3> HIDE DEF a
    <3> QED BY <2>1, DivTimes, WindowAssumption
  <2> HIDE DEF s
  <2>3. (s + 1) * Second = s * Second + Second /\ s * Second \in Nat BY <2>2, WindowAssumption, Z3
  <2>4. s * Second >= d BY <2>2, <2>3, WindowAssumption
  <2>5. s <= Window + 1
    <3> SUFFICES ASSUME s >= Window + 2 PROVE FALSE BY <2>2, WindowAssumption
    <3>1. (Window + 2) * Second <= s * Second BY <2>2, WindowAssumption, TimesMonotone
    <3>2. (Window + 2) * Second = Window * Second + 2 * Second BY WindowAssumption, Z3
    <3> QED BY <2>2, <2>3, <3>1, <3>2, WindowTicks
  <2>6. s # 0
    <3>1. 0 * Second = 0 BY WindowAssumption
    <3> QED BY <1>2, <2>4, <3>1, WindowAssumption
  <2>7. s \in 1..(Window + 1) BY <2>2, <2>5, <2>6, WindowAssumption
  <2>8. (IF d <= Second THEN 1 ELSE (d + Second - 1) \div Second) = s
    BY <1>2, WindowAssumption DEF s
  <2> HIDE DEF s
  <2> QED BY <2>4, <2>7, <2>8
<1> QED BY <1>1, <1>2, WindowAssumption

-----------------------------------------------------------------------------
\* The types the arithmetic of a wait needs.
LEMMA RetryTyped ==
  ASSUME RetryTypeOK
  PROVE  /\ RedisTypeOK /\ limiterClock \in Nat
         /\ \A r \in Requests : ended[r] \in Nat /\ retry[r] \in Nat /\ server[r] \in Servers
BY Typed, DelayAssumption DEF RetryTypeOK

\* A wait that Redis imposes reaches the end of the window.
LEMMA RedisWait ==
  ASSUME RetryInv, NEW r \in Requests
  PROVE  /\ RetryAfter(Key(r)) \in 1..(Window + 1)
         /\ limiterClock + RetryAfter(Key(r)) * Second >= End(Win(r))
<1> DEFINE k == Key(r)
<1>1. /\ limiterClock \in Nat /\ began[r] \in Nat /\ began[r] <= limiterClock
      /\ Win(r) \in Windows /\ Win(r) \in Nat /\ Start(Win(r)) <= began[r]
      /\ k = counter[Win(r)] /\ k.until \in Nat \union {Never}
  BY Typed, RetryTyped DEF RetryInv, RetryTypeOK, Begun, Key, Win
<1>2. /\ Start(Win(r)) \in Nat /\ End(Win(r)) \in Nat
      /\ End(Win(r)) + Second = Start(Win(r)) + (Window + 1) * Second
  BY <1>1, EndOf
<1>3. k.until # Never => /\ k.until >= End(Win(r)) + Second
                         /\ k.until <= limiterClock + (Window + 1) * Second
  BY <1>1 DEF RetryInv, CountersLast, CountersNear
<1> HIDE DEF k
<1>4. CASE TimeToLive(k) > 0
  <2> DEFINE d == k.until - limiterClock
             s == (2 * d + Second) \div (2 * Second)
  <2>1. k.until # Never /\ TimeToLive(k) = s BY <1>4 DEF TimeToLive
  <2>2. k.until \in Nat BY <1>1, <2>1
  <2>3. d \in Int /\ d <= (Window + 1) * Second BY <1>1, <1>3, <2>1, <2>2, WindowTicks
  <2>4. CASE d \in Nat
    <3>1. s \in Nat /\ s <= Window + 1 /\ s * Second + Second >= d
      <4> HIDE DEF d
      <4> QED BY <2>3, <2>4, Rounded
    <3>2. s > 0 BY <1>4, <2>1
    <3> HIDE DEF s
    <3>3. s * Second \in Nat BY <3>1, WindowAssumption
    <3>4. limiterClock + s * Second >= End(Win(r))
      BY <1>1, <1>2, <1>3, <2>1, <2>2, <3>1, <3>3, WindowTicks
    <3>5. RetryAfter(k) = s BY <1>4, <2>1 DEF RetryAfter
    <3> QED BY <3>1, <3>2, <3>4, <3>5, WindowAssumption DEF k
  <2>5. CASE d < 0
    <3>1. (2 * d + Second) < Second /\ 2 * d + Second \in Int BY <2>3, <2>5, WindowTicks
    <3>2. s <= 0
      <4> DEFINE a == 2 * d + Second
      <4>1. a \in Int /\ a < Second BY <3>1
      <4> HIDE DEF a, d
      <4>2. a \div (2 * Second) <= 0 BY <4>1, WindowAssumption, Z3
      <4> QED BY <4>2 DEF a
    <3>3. s \in Int
      <4> DEFINE a == 2 * d + Second
      <4>1. a \in Int BY <3>1
      <4> HIDE DEF a, d
      <4>2. a \div (2 * Second) \in Int BY <4>1, WindowAssumption, Z3
      <4> QED BY <4>2 DEF a
    <3> HIDE DEF s
    <3> QED BY <1>4, <2>1, <3>2, <3>3
  <2> QED BY <2>3, <2>4, <2>5
<1>5. CASE ~(TimeToLive(k) > 0)
  <2>1. RetryAfter(k) = Window BY <1>5 DEF RetryAfter
  <2>2. limiterClock + Window * Second >= End(Win(r))
    BY <1>1, <1>2, WindowTicks
  <2> QED BY <2>1, <2>2, WindowAssumption DEF k
<1> QED BY <1>4, <1>5

\* The oldest stamp of a deque.
LEMMA OldestIn ==
  ASSUME RetryTypeOK, NEW b \in SUBSET Requests, b # {}
  PROVE  Oldest(b) \in b /\ \A o \in b : ended[Oldest(b)] <= ended[o]
<1> DEFINE S == {ended[q] : q \in b}
           Less == {p \in Nat \X Nat : p[1] < p[2]}
<1>1. S \in SUBSET Nat /\ S # {} BY RetryTyped
<1>2. IsWellFoundedOn(Less, Nat) BY NatLessThanWellFounded DEF OpToRel
<1>3. \A m, n \in Nat : m < n => <<m, n>> \in Less OBVIOUS
<1> HIDE DEF Less
<1>4. PICK n \in S : \A m \in S : ~(<<m, n>> \in Less)
  <2> HIDE DEF S
  <2> QED BY <1>1, <1>2, WFMin
<1>5. \A m \in S : n <= m
  <2> HIDE DEF S
  <2>1. n \in Nat /\ \A m \in S : m \in Nat /\ ~(m < n) BY <1>1, <1>3, <1>4
  <2> QED BY <2>1
<1>6. PICK q \in b : ended[q] = n BY <1>4
<1>7. \A o \in b : ended[q] <= ended[o] BY <1>5, <1>6
<1> QED BY <1>6, <1>7 DEF Oldest

\* A wait that the fallback imposes outlasts the oldest stamp: what holds the window
\* then is some of the others.
LEMMA FallbackWait ==
  ASSUME RetryInv, Limit > 0, NEW p \in Servers, NEW b, b = Recent(bucket[p]),
         Cardinality(b) >= Limit
  PROVE  LET wait == WaitFor(ended[Oldest(b)])
         IN  /\ wait \in 1..(Window + 1)
             /\ Cardinality({q \in AllowedBy(p, limiterClock) :
                    ended[q] > (limiterClock + wait * Second) - Window * Second}) < Limit
<1> DEFINE old == Oldest(b)
           left == ended[old] + Window * Second - limiterClock
           wait == WaitFor(ended[old])
           H == {q \in AllowedBy(p, limiterClock) :
                    ended[q] > (limiterClock + wait * Second) - Window * Second}
<1>1. RetryTypeOK /\ bucket[p] \in SUBSET Requests /\ limiterClock \in Nat
      /\ \A q \in Requests : ended[q] \in Nat /\ ended[q] <= limiterClock
  BY RetryTyped DEF RetryInv, RetryTypeOK, Begun
<1>2. b \in SUBSET bucket[p] /\ b \in SUBSET Requests
      /\ \A q \in b : ended[q] > limiterClock - Window * Second
  BY <1>1 DEF Recent
<1>3. IsFiniteSet(bucket[p]) /\ Cardinality(bucket[p]) <= Limit BY DEF RetryInv, Bucketed
<1>4. IsFiniteSet(b) /\ Cardinality(b) \in Nat /\ Cardinality(b) <= Limit
  <2>1. IsFiniteSet(b) /\ Cardinality(b) <= Cardinality(bucket[p]) BY <1>2, <1>3, FS_Subset
  <2>2. Cardinality(b) \in Nat /\ Cardinality(bucket[p]) \in Nat
    BY <1>3, <2>1, FS_CardinalityType
  <2> QED BY <1>3, <2>1, <2>2, LimitAssumption
<1>5. b # {} BY <1>4, FS_EmptySet, LimitAssumption
<1>6. old \in b /\ \A o \in b : ended[old] <= ended[o] BY <1>1, <1>2, <1>5, OldestIn
<1>7. left \in Nat /\ left > 0 /\ left <= Window * Second
  BY <1>1, <1>2, <1>6, WindowTicks
<1>8. wait = IF left <= Second THEN 1 ELSE (left + Second - 1) \div Second BY DEF WaitFor
<1>9. wait \in 1..(Window + 1) /\ wait * Second >= left
  <2> HIDE DEF left, wait
  <2> QED BY <1>7, <1>8, RoundedUp
<1>10. wait * Second \in Nat
  <2> HIDE DEF wait
  <2> QED BY <1>9, WindowAssumption
<1>11. \A q \in H : q \in b /\ q # old
  <2> SUFFICES ASSUME NEW q \in H PROVE q \in b /\ q # old OBVIOUS
  <2>1. /\ q \in Requests /\ step[q] = "allowed" /\ by[q] = "fallback" /\ server[q] = p
        /\ ended[q] > limiterClock - Window * Second
        /\ ended[q] > (limiterClock + wait * Second) - Window * Second
    BY DEF AllowedBy
  <2>2. q \in b BY <2>1 DEF RetryInv, Bucketed, Recent
  <2>3. ended[q] > ended[old]
    <3> HIDE DEF wait, H
    <3> QED BY <1>1, <1>2, <1>6, <1>9, <1>10, <2>1, WindowTicks
  <2> QED BY <1>1, <1>2, <1>6, <2>2, <2>3
<1> HIDE DEF H, wait, old
<1>12. H \in SUBSET (b \ {old}) BY <1>11
<1>13. IsFiniteSet(b \ {old}) /\ Cardinality(b \ {old}) = Cardinality(b) - 1
  BY <1>4, <1>6, FS_RemoveElement
<1>14. Cardinality(H) <= Cardinality(b \ {old}) /\ IsFiniteSet(H) BY <1>12, <1>13, FS_Subset
<1>15. Cardinality(H) \in Nat BY <1>14, FS_CardinalityType
<1>16. Cardinality(H) < Limit BY <1>4, <1>13, <1>14, <1>15, LimitAssumption
<1> QED BY <1>9, <1>16 DEF H, wait, old

-----------------------------------------------------------------------------
\* At the start nobody was refused.
LEMMA RetryInit == LimiterInit => RetryInv
<1> SUFFICES ASSUME LimiterInit PROVE RetryInv OBVIOUS
<1>1. RetryTypeOK
  BY InitEstablishes, DelayAssumption DEF LimiterInv, RetryTypeOK, LimiterInit
<1>2. CountersLast BY InitEstablishes DEF LimiterInv
<1>3. Begun /\ CountersNear BY DelayAssumption DEF Begun, CountersNear, LimiterInit, NoKey
<1>4. Asked /\ RedisWaits /\ FallbackWaits
  BY DEF Asked, RedisWaits, FallbackWaits, InRedis, LimiterInit
<1>5. Bucketed
  BY FS_EmptySet, LimitAssumption DEF Bucketed, LimiterInit
<1> QED BY <1>1, <1>2, <1>3, <1>4, <1>5 DEF RetryInv

\* Time passes: counters may be dropped, and no refusal is of this moment any more.
LEMMA RetryTick == ASSUME RetryInv, LimiterTick PROVE RetryInv'
<1> USE DEF RetryInv
<1>0. limiterClock \in Nat /\ limiterClock' = limiterClock + 1 /\ limiterClock' \in 0..MaxLimiterTime
  BY RetryTyped, DelayAssumption DEF LimiterTick
<1>1. UNCHANGED <<bucket, step, server, began, number, by, ended, retry>>
  BY DEF LimiterTick, requestVars
<1>2. \A w \in Windows : counter'[w] = KeptCounter(counter[w]) BY DEF LimiterTick
<1>3. RetryTypeOK'
  <2>1. \A w \in Windows : KeptCounter(counter[w]) \in Keys
    BY DEF RetryTypeOK, RedisTypeOK, KeptCounter, NoKey, Keys
  <2> QED BY <1>0, <1>1, <2>1 DEF RetryTypeOK, RedisTypeOK, LimiterTick
<1>4. \A r \in Requests : began[r] \in Nat /\ ended[r] \in Nat BY Typed, RetryTyped
<1>5. Begun' BY <1>0, <1>1, <1>4 DEF Begun
<1>6. CountersLast' BY <1>2 DEF CountersLast, KeptCounter, NoKey, End
<1>7. CountersNear'
  <2> SUFFICES ASSUME NEW w \in Windows, counter'[w].until # Never
               PROVE  counter'[w].until <= limiterClock' + (Window + 1) * Second
    BY DEF CountersNear
  <2>1. counter'[w].until = counter[w].until /\ counter[w].until \in Nat
    BY <1>2, Typed, RetryTyped DEF KeptCounter, NoKey
  <2>2. counter[w].until <= limiterClock + (Window + 1) * Second BY <2>1 DEF CountersNear
  <2> QED BY <1>0, <2>1, <2>2, WindowTicks
<1>8. Asked' /\ RedisWaits' BY <1>1 DEF Asked, RedisWaits, End, Win
<1>9. Bucketed'
  <2>1. \A q \in Requests :
            ended[q] > limiterClock' - Window * Second => ended[q] > limiterClock - Window * Second
    BY <1>0, <1>4, WindowTicks
  <2> QED BY <1>1, <2>1 DEF Bucketed
<1>10. FallbackWaits'
  <2> SUFFICES ASSUME NEW r \in Requests, step[r] = "refused", by[r] = "fallback"
               PROVE  /\ retry[r] \in 1..(Window + 1) /\ Cardinality(Holders(r))' < Limit
                      /\ ended[r] # limiterClock'
    BY <1>1 DEF FallbackWaits
  <2>1. Holders(r)' = Holders(r) BY <1>1 DEF Holders, AllowedBy
  <2>2. ended[r] # limiterClock' BY <1>0, <1>4 DEF Begun
  <2> QED BY <2>1, <2>2 DEF FallbackWaits
<1> QED BY <1>3, <1>5, <1>6, <1>7, <1>8, <1>9, <1>10

-----------------------------------------------------------------------------
\* A step of a request that is not decided yet changes that request only.
LEMMA OneRequest ==
  ASSUME RetryInv, NEW s \in Requests, RequestStep(s)
  PROVE  /\ limiterClock' = limiterClock /\ server' = server
         /\ step[s] \notin {"allowed", "refused"}
         /\ \A q \in Requests \ {s} :
               /\ step'[q] = step[q] /\ by'[q] = by[q] /\ ended'[q] = ended[q]
               /\ retry'[q] = retry[q] /\ began'[q] = began[q]
BY DEF RequestStep, BeginRequest, Incr, Expire, Ttl, RedisFails, ReplyLost, Fallback, Decide, Goto,
       InRedis, RetryInv, RetryTypeOK, RedisTypeOK

\* How a request may be decided.
LEMMA Outcomes ==
  ASSUME RetryInv, NEW s \in Requests, RequestStep(s), ~Fallback(s)
  PROVE  /\ bucket' = bucket
         /\ step'[s] = "allowed" => by'[s] = "redis"
         /\ step'[s] = "refused" /\ by'[s] = "fallback" => FALSE
         /\ step'[s] = "refused" /\ by'[s] = "redis" => Ttl(s)
         /\ step'[s] = "refused" => (Limit = 0 \/ by'[s] = "redis")
         /\ step'[s] \in InRedis \union {"fallback"} => Limit > 0
         /\ ended'[s] \in {ended[s], limiterClock}
         /\ retry'[s] \in {retry[s], 0, Window, RetryAfter(Key(s))}
<1>1. step[s] \in Labels /\ DOMAIN step = Requests /\ DOMAIN by = Requests
      /\ DOMAIN ended = Requests /\ DOMAIN retry = Requests
  BY DEF RetryInv, RetryTypeOK, RedisTypeOK
<1>2. step[s] \in InRedis \union {"fallback"} => Limit > 0 BY DEF RetryInv, Asked
<1>3. CASE BeginRequest(s)
  BY <1>1, <1>2, <1>3, LimitAssumption DEF BeginRequest, Decide, Goto, InRedis
<1>4. CASE Incr(s) \/ Expire(s)
  BY <1>1, <1>2, <1>4 DEF Incr, Expire, Decide, Goto, InRedis
<1>5. CASE Ttl(s)
  BY <1>1, <1>2, <1>5 DEF Ttl, Decide, InRedis
<1>6. CASE RedisFails(s) \/ ReplyLost(s)
  BY <1>1, <1>2, <1>6 DEF RedisFails, ReplyLost, Goto, InRedis
<1> QED BY <1>3, <1>4, <1>5, <1>6 DEF RequestStep

\* Counters: an expiry is given while the window lasts, or later.
LEMMA CountersKept ==
  ASSUME RetryInv, NEW s \in Requests, RequestStep(s)
  PROVE  CountersLast' /\ CountersNear'
<1>1. /\ limiterClock' = limiterClock /\ limiterClock \in Nat
      /\ Win(s) \in Windows /\ Win(s) \in Nat /\ Start(Win(s)) <= began[s]
      /\ began[s] \in Nat /\ began[s] <= limiterClock
      /\ counter \in [Windows -> Keys] /\ Key(s) = counter[Win(s)]
  BY OneRequest, Typed, RetryTyped
  DEF RetryInv, Begun, RetryTypeOK, RedisTypeOK, Key, Win
<1>2. /\ Start(Win(s)) \in Nat /\ End(Win(s)) \in Nat
      /\ End(Win(s)) + Second = Start(Win(s)) + (Window + 1) * Second
  BY <1>1, EndOf
<1>3. Expiry >= End(Win(s)) + Second /\ Expiry <= limiterClock + (Window + 1) * Second
  BY <1>1, <1>2, WindowTicks DEF Expiry
<1>4. \/ counter' = counter
      \/ counter' = [counter EXCEPT ![Win(s)] = Incremented(s)]
      \/ counter' = [counter EXCEPT ![Win(s)] = WithExpiry(s)]
  BY DEF RequestStep, BeginRequest, Incr, Expire, Ttl, RedisFails, ReplyLost, Fallback, SetKey, Win
<1>5. Incremented(s).until = Key(s).until /\ WithExpiry(s).until \in {Key(s).until, Expiry}
  <2>1. Key(s) \in Keys BY <1>1
  <2> QED BY <2>1 DEF Incremented, WithExpiry, Keys
<1>6. \A w \in Windows : \/ counter'[w].until = counter[w].until
                         \/ w = Win(s) /\ counter'[w].until = Expiry
  BY <1>1, <1>4, <1>5
<1>7. \A w \in Windows : counter[w].until # Never =>
          /\ counter[w].until >= End(w) + Second
          /\ counter[w].until <= limiterClock + (Window + 1) * Second
  BY DEF RetryInv, CountersLast, CountersNear
<1>8. \A w \in Windows : counter'[w].until # Never =>
          /\ counter'[w].until >= End(w) + Second
          /\ counter'[w].until <= limiterClock + (Window + 1) * Second
  BY <1>3, <1>6, <1>7
<1> QED BY <1>1, <1>8 DEF CountersLast, CountersNear, End

\* Every step but the fallback's: deques and stamps of allowed requests stay.
LEMMA RetryRedisStep ==
  ASSUME RetryInv, NEW s \in Requests, RequestStep(s), ~Fallback(s)
  PROVE  RetryInv'
<1>1. /\ limiterClock' = limiterClock /\ server' = server
      /\ step[s] \notin {"allowed", "refused"}
      /\ \A q \in Requests \ {s} :
            /\ step'[q] = step[q] /\ by'[q] = by[q] /\ ended'[q] = ended[q]
            /\ retry'[q] = retry[q] /\ began'[q] = began[q]
  BY OneRequest
<1>2. /\ bucket' = bucket
      /\ step'[s] = "allowed" => by'[s] = "redis"
      /\ step'[s] = "refused" /\ by'[s] = "fallback" => FALSE
      /\ step'[s] = "refused" /\ by'[s] = "redis" => Ttl(s)
      /\ step'[s] = "refused" => (Limit = 0 \/ by'[s] = "redis")
      /\ step'[s] \in InRedis \union {"fallback"} => Limit > 0
      /\ ended'[s] \in {ended[s], limiterClock}
      /\ retry'[s] \in {retry[s], 0, Window, RetryAfter(Key(s))}
  BY Outcomes
<1>3. /\ RetryTypeOK /\ limiterClock \in 0..MaxLimiterTime
      /\ \A r \in Requests : ended[r] \in 0..MaxLimiterTime /\ retry[r] \in Nat
  BY DEF RetryInv, RetryTypeOK, RedisTypeOK
<1>4. RetryAfter(Key(s)) \in 1..(Window + 1) BY RedisWait
<1>5. RetryTypeOK'
  <2>1. RedisTypeOK' BY <1>3, StepTyped DEF RetryTypeOK
  <2>2. DOMAIN ended' = Requests /\ ended' = [r \in Requests |-> ended'[r]]
        /\ retry' = [r \in Requests |-> retry'[r]]
    BY <1>3
    DEF RetryTypeOK, RequestStep, BeginRequest, Incr, Expire, Ttl, RedisFails, ReplyLost, Decide, Goto
  <2>3. \A r \in Requests : ended'[r] \in 0..MaxLimiterTime BY <1>1, <1>2, <1>3
  <2>4. \A r \in Requests : retry'[r] \in Nat BY <1>1, <1>2, <1>3, <1>4, WindowAssumption
  <2> QED BY <1>1, <1>2, <1>3, <2>1, <2>2, <2>3, <2>4 DEF RetryTypeOK
<1>6. Begun'
  <2>1. began'[s] \in {began[s], limiterClock}
    BY <1>3 DEF RequestStep, BeginRequest, Incr, Expire, Ttl, RedisFails, ReplyLost, RetryTypeOK,
                RedisTypeOK
  <2> QED BY <1>1, <1>2, <1>3, <2>1 DEF RetryInv, Begun
<1>7. CountersLast' /\ CountersNear' BY CountersKept
<1>8. Asked' BY <1>1, <1>2 DEF RetryInv, Asked
<1>9. RedisWaits'
  <2> SUFFICES ASSUME NEW r \in Requests, step'[r] = "refused", by'[r] = "redis"
               PROVE  /\ retry'[r] \in 1..(Window + 1)
                      /\ ended'[r] + retry'[r] * Second >= End(Win(r))'
    BY DEF RedisWaits
  <2>1. CASE r # s
    BY <1>1, <2>1 DEF RetryInv, RedisWaits, Win, End
  <2>2. CASE r = s
    <3>1. Ttl(s) BY <1>2, <2>2
    <3>2. retry'[s] = RetryAfter(Key(s)) /\ ended'[s] = limiterClock /\ began' = began
      BY <1>3, <3>1 DEF Ttl, Decide, RetryTypeOK
    <3>3. End(Win(s))' = End(Win(s)) BY <3>2 DEF Win, End
    <3> QED BY <2>2, <3>2, <3>3, RedisWait
  <2> QED BY <2>1, <2>2
<1>10. \A p \in Servers : s \notin bucket[p] /\ bucket[p] \subseteq Requests
  BY <1>1, <1>3 DEF RetryInv, Bucketed, RetryTypeOK
<1>11. Bucketed' BY <1>1, <1>2, <1>10 DEF RetryInv, Bucketed
<1>12. FallbackWaits'
  <2> SUFFICES ASSUME NEW r \in Requests, step'[r] = "refused", by'[r] = "fallback"
               PROVE  /\ retry'[r] \in 1..(Window + 1) /\ Cardinality(Holders(r))' < Limit
                      /\ ended'[r] = limiterClock' =>
                            Cardinality(Recent(bucket[server[r]]))' >= Limit
    BY DEF FallbackWaits
  <2>1. r # s BY <1>2
  <2>2. step[r] = "refused" /\ by[r] = "fallback" /\ ended'[r] = ended[r] /\ retry'[r] = retry[r]
    BY <1>1, <2>1
  <2>3. Holders(r)' = Holders(r)
    <3>1. AllowedBy(server[r], ended[r])' = AllowedBy(server[r], ended[r])
      BY <1>1, <1>2, <2>1 DEF AllowedBy
    <3>2. \A q \in AllowedBy(server[r], ended[r]) : q \in Requests \ {s}
      BY <1>1 DEF AllowedBy
    <3> QED BY <1>1, <2>2, <3>1, <3>2 DEF Holders
  <2>4. server[r] \in Servers BY <1>3 DEF RetryTypeOK
  <2>5. Recent(bucket[server[r]])' = Recent(bucket[server[r]])
    BY <1>1, <1>2, <1>10, <2>4 DEF Recent
  <2> QED BY <1>1, <2>2, <2>3, <2>5 DEF RetryInv, FallbackWaits
<1> QED BY <1>5, <1>6, <1>7, <1>8, <1>9, <1>11, <1>12 DEF RetryInv

\* The fallback refuses while its deque is full, and allows otherwise.
LEMMA RetryFallbackStep ==
  ASSUME RetryInv, NEW s \in Requests, Fallback(s)
  PROVE  RetryInv'
<1> DEFINE p == server[s]
           b == Recent(bucket[p])
           full == Cardinality(b) >= Limit
           wait == WaitFor(ended[Oldest(b)])
<1>0. RequestStep(s) BY DEF RequestStep
<1>1. /\ limiterClock' = limiterClock /\ server' = server
      /\ step[s] \notin {"allowed", "refused"}
      /\ \A q \in Requests \ {s} :
            /\ step'[q] = step[q] /\ by'[q] = by[q] /\ ended'[q] = ended[q]
            /\ retry'[q] = retry[q] /\ began'[q] = began[q]
  BY <1>0, OneRequest
<1>2. /\ RetryTypeOK /\ limiterClock \in 0..MaxLimiterTime /\ limiterClock \in Nat
      /\ \A r \in Requests : ended[r] \in 0..MaxLimiterTime /\ ended[r] \in Nat /\ retry[r] \in Nat
      /\ p \in Servers /\ Limit > 0 /\ bucket \in [Servers -> SUBSET Requests]
  BY RetryTyped DEF RetryInv, RetryTypeOK, RedisTypeOK, Fallback, Asked
<1>3. /\ began' = began /\ counter' = counter /\ by'[s] = "fallback" /\ ended'[s] = limiterClock
      /\ full => step'[s] = "refused" /\ retry'[s] = wait /\ bucket' = [bucket EXCEPT ![p] = b]
      /\ ~full => step'[s] = "allowed" /\ retry'[s] = 0
                  /\ bucket' = [bucket EXCEPT ![p] = b \union {s}]
  BY <1>2 DEF Fallback, Decide, RetryTypeOK, RedisTypeOK
<1>4. full => /\ wait \in 1..(Window + 1)
              /\ Cardinality({q \in AllowedBy(p, limiterClock) :
                    ended[q] > (limiterClock + wait * Second) - Window * Second}) < Limit
  BY <1>2, FallbackWait
<1>5. /\ b \subseteq bucket[p] /\ b \subseteq Requests
      /\ \A q \in b : ended[q] > limiterClock - Window * Second
  BY <1>2 DEF Recent
<1>6. \A u \in Servers : s \notin bucket[u] /\ bucket[u] \subseteq Requests
  BY <1>1, <1>2 DEF RetryInv, Bucketed
<1>7. IsFiniteSet(b) /\ Cardinality(b) \in Nat /\ Cardinality(b) <= Limit
  <2>1. IsFiniteSet(bucket[p]) /\ Cardinality(bucket[p]) <= Limit
    BY <1>2 DEF RetryInv, Bucketed
  <2>2. IsFiniteSet(b) /\ Cardinality(b) <= Cardinality(bucket[p]) BY <1>5, <2>1, FS_Subset
  <2>3. Cardinality(b) \in Nat /\ Cardinality(bucket[p]) \in Nat
    BY <2>1, <2>2, FS_CardinalityType
  <2> QED BY <2>1, <2>2, <2>3, LimitAssumption
<1>8. s \notin b BY <1>5, <1>6, <1>2
<1>9. \A u \in Servers \ {p} : bucket'[u] = bucket[u] BY <1>2, <1>3
<1>10. bucket'[p] = IF full THEN b ELSE b \union {s} BY <1>2, <1>3
<1>11. bucket' \in [Servers -> SUBSET Requests] BY <1>2, <1>3, <1>5
<1> HIDE DEF b, wait, full, p
<1>12. RetryTypeOK'
  <2>1. RedisTypeOK' BY <1>0, <1>2, StepTyped DEF RetryTypeOK
  <2>2. ended' = [r \in Requests |-> ended'[r]] /\ retry' = [r \in Requests |-> retry'[r]]
    BY <1>2 DEF RetryTypeOK, Fallback, Decide
  <2>3. \A r \in Requests : ended'[r] \in 0..MaxLimiterTime BY <1>1, <1>2, <1>3
  <2>4. \A r \in Requests : retry'[r] \in Nat BY <1>1, <1>2, <1>3, <1>4, WindowAssumption
  <2> QED BY <1>1, <1>2, <1>11, <2>1, <2>2, <2>3, <2>4 DEF RetryTypeOK
<1>13. Begun' BY <1>1, <1>2, <1>3 DEF RetryInv, Begun
<1>14. CountersLast' /\ CountersNear' BY <1>0, CountersKept
<1>15. Asked' BY <1>1, <1>2, <1>3 DEF RetryInv, Asked
<1>16. RedisWaits'
  BY <1>1, <1>3 DEF RetryInv, RedisWaits, Win, End
<1>17. Bucketed'
  <2>1. ASSUME NEW u \in Servers
        PROVE  /\ IsFiniteSet(bucket'[u]) /\ Cardinality(bucket'[u]) <= Limit
               /\ \A q \in bucket'[u] : step'[q] = "allowed" /\ by'[q] = "fallback"
    <3>1. CASE u # p BY <1>1, <1>6, <1>9, <3>1 DEF RetryInv, Bucketed
    <3>2. \A q \in b : step'[q] = "allowed" /\ by'[q] = "fallback"
      BY <1>1, <1>2, <1>5, <1>8 DEF RetryInv, Bucketed
    <3>3. CASE u = p /\ full BY <1>7, <1>10, <3>2, <3>3
    <3>4. CASE u = p /\ ~full
      <4>1. IsFiniteSet(b \union {s}) /\ Cardinality(b \union {s}) = Cardinality(b) + 1
        BY <1>7, <1>8, FS_AddElement
      <4>2. Cardinality(b) < Limit BY <1>7, <3>4, LimitAssumption DEF full
      <4>3. bucket'[u] = b \union {s} BY <1>10, <3>4
      <4>4. Cardinality(bucket'[u]) <= Limit /\ IsFiniteSet(bucket'[u])
        BY <1>7, <4>1, <4>2, <4>3, LimitAssumption
      <4>5. step'[s] = "allowed" /\ by'[s] = "fallback" BY <1>3, <3>4
      <4>6. \A q \in bucket'[u] : step'[q] = "allowed" /\ by'[q] = "fallback"
        BY <3>2, <4>3, <4>5
      <4> QED BY <4>4, <4>6
    <3> QED BY <3>1, <3>3, <3>4
  <2>2. ASSUME NEW q \in Requests, step'[q] = "allowed", by'[q] = "fallback",
               ended'[q] > limiterClock' - Window * Second
        PROVE  q \in bucket'[server'[q]]
    <3>1. CASE q = s
      <4>1. ~full BY <1>3, <2>2, <3>1
      <4> QED BY <1>1, <1>10, <3>1, <4>1 DEF p
    <3>2. CASE q # s
      <4>1. q \in bucket[server[q]] /\ server[q] \in Servers
            /\ ended[q] > limiterClock - Window * Second
        BY <1>1, <1>2, <2>2, <3>2 DEF RetryInv, Bucketed, RetryTypeOK
      <4>2. CASE server[q] # p BY <1>1, <1>9, <4>1, <4>2
      <4>3. CASE server[q] = p
        <5>1. q \in b BY <4>1, <4>3 DEF b, Recent
        <5> QED BY <1>1, <1>10, <4>3, <5>1
      <4> QED BY <4>2, <4>3
    <3> QED BY <3>1, <3>2
  <2> QED BY <2>1, <2>2 DEF Bucketed
<1>18. \A q \in b : ended'[q] > limiterClock' - Window * Second
  BY <1>1, <1>5, <1>8
<1>19. FallbackWaits'
  <2> SUFFICES ASSUME NEW r \in Requests, step'[r] = "refused", by'[r] = "fallback"
               PROVE  /\ retry'[r] \in 1..(Window + 1) /\ Cardinality(Holders(r))' < Limit
                      /\ ended'[r] = limiterClock' =>
                            Cardinality(Recent(bucket[server[r]]))' >= Limit
    BY DEF FallbackWaits
  <2>1. CASE r = s
    <3>1. full BY <1>3, <2>1
    <3>2. Holders(s)' = {q \in AllowedBy(p, limiterClock) :
                            ended[q] > (limiterClock + wait * Second) - Window * Second}
      <4>1. \A q \in AllowedBy(p, limiterClock) : q \in Requests \ {s} BY <1>1 DEF AllowedBy
      <4>2. AllowedBy(server[s], ended[s])' = AllowedBy(p, limiterClock)
        BY <1>1, <1>3, <3>1 DEF AllowedBy, p
      <4> QED BY <1>1, <1>3, <3>1, <4>1, <4>2 DEF Holders
    <3>3. Recent(bucket[server[s]])' = b
      BY <1>1, <1>10, <1>18, <3>1 DEF Recent, p
    <3> QED BY <1>3, <1>4, <2>1, <3>1, <3>2, <3>3 DEF full
  <2>2. CASE r # s
    <3>1. step[r] = "refused" /\ by[r] = "fallback" /\ ended'[r] = ended[r] /\ retry'[r] = retry[r]
      BY <1>1, <2>2
    <3>2. /\ retry[r] \in 1..(Window + 1) /\ Cardinality(Holders(r)) < Limit
          /\ ended[r] = limiterClock => Cardinality(Recent(bucket[server[r]])) >= Limit
          /\ ended[r] <= limiterClock
      BY <3>1 DEF RetryInv, FallbackWaits, Begun
    <3>3. server[r] = p /\ ended[r] = limiterClock => full BY <3>2 DEF full, b
    <3>4. Holders(r)' = Holders(r)
      <4>1. s \notin AllowedBy(server[r], ended[r]) BY <1>1 DEF AllowedBy
      <4>2. ~(/\ step'[s] = "allowed" /\ server[s] = server[r] /\ ended'[s] <= ended[r])
        <5> SUFFICES ASSUME step'[s] = "allowed", server[s] = server[r], ended'[s] <= ended[r]
                     PROVE  FALSE
          OBVIOUS
        <5>1. ended[r] = limiterClock BY <1>2, <1>3, <3>2
        <5>2. ~full BY <1>3
        <5> QED BY <3>3, <5>1, <5>2 DEF p
      <4>3. AllowedBy(server[r], ended[r])' = AllowedBy(server[r], ended[r])
        BY <1>1, <3>1, <4>2 DEF AllowedBy
      <4>4. \A q \in AllowedBy(server[r], ended[r]) : q \in Requests \ {s}
        BY <4>1 DEF AllowedBy
      <4> QED BY <1>1, <3>1, <4>3, <4>4 DEF Holders
    <3>5. ended'[r] = limiterClock' => Cardinality(Recent(bucket[server[r]]))' >= Limit
      <4> SUFFICES ASSUME ended[r] = limiterClock
                   PROVE  Cardinality(Recent(bucket[server[r]]))' >= Limit
        BY <1>1, <3>1
      <4>1. server[r] \in Servers BY <1>2 DEF RetryTypeOK
      <4>2. CASE server[r] # p
        <5>1. Recent(bucket[server[r]])' = Recent(bucket[server[r]])
          BY <1>1, <1>6, <1>9, <4>1, <4>2 DEF Recent
        <5> QED BY <3>2, <5>1
      <4>3. CASE server[r] = p
        <5>1. full BY <3>3, <4>3
        <5>2. Recent(bucket[server[r]])' = b BY <1>1, <1>10, <1>18, <4>3, <5>1 DEF Recent
        <5> QED BY <5>1, <5>2 DEF full
      <4> QED BY <4>2, <4>3
    <3> QED BY <3>1, <3>2, <3>4, <3>5
  <2> QED BY <2>1, <2>2
<1> QED BY <1>12, <1>13, <1>14, <1>15, <1>16, <1>17, <1>19 DEF RetryInv

\* The invariant of refusals holds of every behaviour.
LEMMA RetryInvariant == LimiterSpec => []RetryInv
<1>1. ASSUME RetryInv, [LimiterNext]_limiterVars PROVE RetryInv'
  <2>1. CASE LimiterTick BY <1>1, <2>1, RetryTick
  <2>2. ASSUME NEW s \in Requests, RequestStep(s) PROVE RetryInv'
    BY <1>1, <2>2, RetryRedisStep, RetryFallbackStep
  <2>3. CASE UNCHANGED limiterVars
    <3> USE <2>3 DEF limiterVars
    <3>1. RetryTypeOK' BY <1>1 DEF RetryInv, RetryTypeOK, RedisTypeOK
    <3>2. Begun' /\ Asked' /\ Bucketed' BY <1>1 DEF RetryInv, Begun, Asked, Bucketed
    <3>3. CountersLast' /\ CountersNear' /\ RedisWaits'
      BY <1>1 DEF RetryInv, CountersLast, CountersNear, RedisWaits, End, Win
    <3>4. FallbackWaits' BY <1>1 DEF RetryInv, FallbackWaits, Holders, AllowedBy, Recent
    <3> QED BY <3>1, <3>2, <3>3, <3>4 DEF RetryInv
  <2> QED BY <1>1, <2>1, <2>2, <2>3 DEF LimiterNext, Decided
<1> QED BY <1>1, RetryInit, PTL DEF LimiterSpec

\* Retry-After is long enough, for any number of requests, processes and windows, any
\* limit and however late requests reach Redis: when it has passed the window that
\* refused is over, or the fallback has dropped one of the stamps that filled it
\* (RequestRateLimiter.check).
THEOREM RetryAfterAlwaysSuffices == LimiterSpec => []RetryAfterSuffices
<1>1. ASSUME RetryInv PROVE RetryAfterSuffices
  <2> SUFFICES ASSUME NEW r \in Requests, step[r] = "refused", Limit > 0
               PROVE  /\ retry[r] \in 1..(Window + 1)
                      /\ by[r] = "redis" =>
                            WindowOf(ended[r] + retry[r] * Second) > WindowOf(began[r])
                      /\ by[r] = "fallback" => Cardinality(Holders(r)) < Limit
    BY DEF RetryAfterSuffices, Holders
  <2>1. by[r] \in {"redis", "fallback"} BY <1>1 DEF RetryInv, Asked
  <2>2. CASE by[r] = "redis"
    <3>1. /\ retry[r] \in 1..(Window + 1) /\ ended[r] + retry[r] * Second >= End(Win(r))
      BY <1>1, <2>2 DEF RetryInv, RedisWaits
    <3>2. Win(r) \in Nat /\ ended[r] \in Nat /\ retry[r] \in Nat
      BY <1>1, Typed, RetryTyped DEF RetryInv
    <3>3. ended[r] + retry[r] * Second \in Nat BY <3>2, WindowAssumption
    <3>4. WindowOf(ended[r] + retry[r] * Second) > Win(r) BY <3>1, <3>2, <3>3, AfterItsEnd
    <3> QED BY <2>2, <3>1, <3>4 DEF Win
  <2>3. CASE by[r] = "fallback"
    <3>1. retry[r] \in 1..(Window + 1) /\ Cardinality(Holders(r)) < Limit
      BY <1>1, <2>3 DEF RetryInv, FallbackWaits
    <3> QED BY <2>3, <3>1
  <2> QED BY <2>1, <2>2, <2>3
<1> QED BY <1>1, RetryInvariant, PTL

-----------------------------------------------------------------------------
(* The scan-spike monitor: sums *)

\* A unit is a place and one of its numbers.
LEMMA UnitsMember ==
    ASSUME NEW f, NEW S, NEW u
    PROVE  u \in Units(f, S) <=> \E x \in S : \E k \in 1..f[x] : u = <<x, k>>
  BY DEF Units

\* Finitely many places have finitely many units.
LEMMA UnitsFinite ==
    ASSUME NEW f, NEW S, IsFiniteSet(S), \A x \in S : f[x] \in Nat
    PROVE  IsFiniteSet(Units(f, S)) /\ SumOf(f, S) \in Nat
  <1> DEFINE T == {{x} \X (1..f[x]) : x \in S}
             g == [x \in S |-> {x} \X (1..f[x])]
  <1>1. g \in Surjection(S, T)
    BY DEF Surjection
  <1>2. IsFiniteSet(T)
    <2> HIDE DEF T, g
    <2> QED
      BY <1>1, FS_Surjection
  <1>3. \A U \in T : IsFiniteSet(U)
    <2> SUFFICES ASSUME NEW x \in S PROVE IsFiniteSet({x} \X (1..f[x]))
      OBVIOUS
    <2> DEFINE A == {x}
               B == 1..f[x]
    <2>1. IsFiniteSet(A) /\ IsFiniteSet(B)
      <3>1. 1 \in Int /\ f[x] \in Int
        OBVIOUS
      <3>2. IsFiniteSet(B)
        BY <3>1, FS_Interval
      <3> QED
        BY <3>2, FS_Singleton
    <2>2. IsFiniteSet(A \X B)
      <3> HIDE DEF A, B
      <3> QED
        BY <2>1, FS_Product
    <2> QED
      BY <2>2
  <1>4. IsFiniteSet(Units(f, S))
    BY <1>2, <1>3, FS_UNION DEF Units
  <1> QED
    BY <1>4, FS_CardinalityType DEF SumOf

\* The sum over nothing.
LEMMA SumEmpty == ASSUME NEW f PROVE SumOf(f, {}) = 0
  <1>1. Units(f, {}) = {}
    BY DEF Units
  <1> QED
    BY <1>1, FS_EmptySet DEF SumOf

\* The sum over one place.
LEMMA SumSingle ==
    ASSUME NEW f, NEW x, f[x] \in Nat
    PROVE  SumOf(f, {x}) = f[x]
  <1> DEFINE A == {x}
             B == 1..f[x]
  <1>1. Units(f, A) = A \X B
    BY DEF Units
  <1>2. IsFiniteSet(A) /\ Cardinality(A) = 1
    BY FS_Singleton
  <1>3. IsFiniteSet(B) /\ Cardinality(B) = f[x]
    BY FS_Interval
  <1>4. SumOf(f, A) = f[x]
    <2> HIDE DEF A, B
    <2>1. Cardinality(A \X B) = Cardinality(A) * Cardinality(B)
      BY <1>2, <1>3, FS_Product
    <2> QED
      BY <1>1, <1>2, <1>3, <2>1 DEF SumOf
  <1> QED
    BY <1>4

\* Disjoint places are summed apart.
LEMMA SumSplit ==
    ASSUME NEW f, NEW S, NEW T, IsFiniteSet(S), IsFiniteSet(T), S \intersect T = {},
           \A x \in S \union T : f[x] \in Nat
    PROVE  SumOf(f, S \union T) = SumOf(f, S) + SumOf(f, T)
  <1>1. /\ IsFiniteSet(Units(f, S)) /\ IsFiniteSet(Units(f, T))
        /\ SumOf(f, S) \in Nat /\ SumOf(f, T) \in Nat
    BY UnitsFinite
  <1>2. Units(f, S \union T) = Units(f, S) \union Units(f, T)
    BY DEF Units
  <1>3. Units(f, S) \intersect Units(f, T) = {}
    BY UnitsMember
  <1>4. Cardinality(Units(f, S) \union Units(f, T))
          = Cardinality(Units(f, S)) + Cardinality(Units(f, T)) - Cardinality({})
    BY <1>1, <1>3, FS_Union
  <1>5. Cardinality({}) = 0
    BY FS_EmptySet
  <1>6. \A a, b \in Nat : a + b - 0 = a + b
    OBVIOUS
  <1> QED
    BY <1>1, <1>2, <1>4, <1>5, <1>6 DEF SumOf

\* Fewer places with smaller values have a smaller sum.
LEMMA SumGrows ==
    ASSUME NEW f, NEW g, NEW S, NEW T, IsFiniteSet(S), T \subseteq S,
           \A x \in S : f[x] \in Nat, \A x \in T : g[x] \in Nat /\ g[x] <= f[x]
    PROVE  SumOf(g, T) <= SumOf(f, S)
  <1>1. IsFiniteSet(Units(f, S))
    BY UnitsFinite
  <1>2. Units(g, T) \subseteq Units(f, S)
    <2> SUFFICES ASSUME NEW x \in T, NEW k \in 1..g[x] PROVE <<x, k>> \in Units(f, S)
      BY UnitsMember
    <2>1. k \in 1..f[x]
      OBVIOUS
    <2> QED
      BY <2>1, UnitsMember
  <1> QED
    BY <1>1, <1>2, FS_Subset DEF SumOf

\* The sum depends on the values in its places only.
LEMMA SumSame ==
    ASSUME NEW f, NEW g, NEW S, \A x \in S : f[x] = g[x]
    PROVE  SumOf(f, S) = SumOf(g, S)
  <1>1. \A x \in S : 1..f[x] = 1..g[x]
    OBVIOUS
  <1>2. Units(f, S) = Units(g, S)
    <2> DEFINE F(x) == {x} \X (1..f[x])
               G(x) == {x} \X (1..g[x])
    <2>1. \A x \in S : F(x) = G(x)
      BY <1>1
    <2> HIDE DEF F, G
    <2>2. {F(x) : x \in S} = {G(x) : x \in S}
      BY <2>1
    <2> QED
      BY <2>2 DEF Units, F, G
  <1> QED
    BY <1>2 DEF SumOf

\* One more in one place is one more.
LEMMA SumStep ==
    ASSUME NEW f, NEW g, NEW S, IsFiniteSet(S), \A y \in S : f[y] \in Nat,
           NEW x \in S, g[x] = f[x] + 1, \A y \in S : y # x => g[y] = f[y]
    PROVE  SumOf(g, S) = SumOf(f, S) + 1
  <1> DEFINE new == <<x, f[x] + 1>>
  <1>1. IsFiniteSet(Units(f, S))
    BY UnitsFinite
  <1>2. Units(g, S) = Units(f, S) \union {new}
    <2>1. ASSUME NEW y \in S, NEW k \in 1..g[y] PROVE <<y, k>> \in Units(f, S) \union {new}
      <3>1. k \in 1..f[y] \/ (y = x /\ k = f[x] + 1)
        OBVIOUS
      <3> QED
        BY <3>1, UnitsMember
    <2>2. ASSUME NEW y \in S, NEW k \in 1..f[y] PROVE <<y, k>> \in Units(g, S)
      <3>1. k \in 1..g[y]
        OBVIOUS
      <3> QED
        BY <3>1, UnitsMember
    <2>3. new \in Units(g, S)
      <3>1. f[x] + 1 \in 1..g[x]
        OBVIOUS
      <3> QED
        BY <3>1, UnitsMember
    <2> HIDE DEF new
    <2> QED
      BY <2>1, <2>2, <2>3, UnitsMember
  <1>3. new \notin Units(f, S)
    <2>1. f[x] + 1 \notin 1..f[x]
      OBVIOUS
    <2> QED
      BY <2>1, UnitsMember
  <1> QED
    BY <1>1, <1>2, <1>3, FS_AddElement DEF SumOf

-----------------------------------------------------------------------------
(* The scan-spike monitor: minutes *)

\* The times of a minute, and of the minutes that overlap a window.
TimesOf(m) == {t \in Times : MinuteOf(t) = m}
InMinutes(since, until) == {t \in Times : MinuteOf(t) \in Minutes(since, until)}
AllMinutes == 0..MinuteOf(MaxScanTime)

\* A minute is as long as it is, before the start of the clock too.
LEMMA MinuteBounds ==
    ASSUME NEW t \in Int
    PROVE  /\ MinuteOf(t) \in Int
           /\ MinuteOf(t) * Minute \in Int
           /\ MinuteOf(t) * Minute <= t /\ t < MinuteOf(t) * Minute + Minute
  <1>1. Minute \in Int /\ Minute > 0
    BY WindowsAssumption
  <1> QED
    BY <1>1, Z3 DEF MinuteOf

\* Minutes that differ are a minute apart.
LEMMA MinutesApart ==
    ASSUME NEW m \in Int, NEW n \in Int, m < n
    PROVE  m * Minute \in Int /\ n * Minute \in Int /\ m * Minute + Minute <= n * Minute
  <1>1. Minute \in Int /\ Minute > 0
    BY WindowsAssumption
  <1>2. PICK d \in Nat : n = m + 1 + d
    <2>1. n - m - 1 \in Nat /\ n = m + 1 + (n - m - 1)
      OBVIOUS
    <2> QED
      BY <2>1
  <1>3. /\ m * Minute \in Int /\ d * Minute \in Int /\ d * Minute >= 0
        /\ (m + 1 + d) * Minute = m * Minute + Minute + d * Minute
    BY <1>1, <1>2, Z3
  <1> QED
    BY <1>1, <1>2, <1>3

\* A later time is in no earlier minute.
LEMMA MinuteOrder ==
    ASSUME NEW t \in Int, NEW u \in Int, t <= u
    PROVE  MinuteOf(t) <= MinuteOf(u)
  <1> SUFFICES ASSUME MinuteOf(u) < MinuteOf(t) PROVE FALSE
    BY MinuteBounds
  <1>1. MinuteOf(u) * Minute + Minute <= MinuteOf(t) * Minute
    BY MinuteBounds, MinutesApart
  <1> QED
    BY <1>1, MinuteBounds, WindowsAssumption

\* The clock's times are in the minutes the stores have buckets for.
LEMMA TimesHaveBuckets ==
    /\ IsFiniteSet(Times) /\ Times \subseteq Nat
    /\ \A t \in Times : MinuteOf(t) \in AllMinutes
  <1>1. IsFiniteSet(Times) /\ Times \subseteq Nat
    BY WindowsAssumption, FS_Interval DEF Times
  <1>2. ASSUME NEW t \in Times PROVE MinuteOf(t) \in AllMinutes
    <2>1. t \in Int /\ 0 <= t /\ t <= MaxScanTime /\ MaxScanTime \in Int
      BY WindowsAssumption DEF Times
    <2>2. MinuteOf(t) \in Int /\ MinuteOf(MaxScanTime) \in Int
          /\ MinuteOf(t) <= MinuteOf(MaxScanTime)
      BY <2>1, MinuteBounds, MinuteOrder
    <2>3. MinuteOf(0) = 0
      <3>1. Minute \in Int /\ Minute > 0
        BY WindowsAssumption
      <3> QED
        BY <3>1, Z3 DEF MinuteOf
    <2>4. 0 <= MinuteOf(t)
      BY <2>1, <2>3, MinuteOrder
    <2> QED
      BY <2>2, <2>4 DEF AllMinutes
  <1> QED
    BY <1>1, <1>2

\* What is before n + 1 is before n or is n.
LEMMA BeforeNext ==
    ASSUME NEW A \in SUBSET Nat, NEW n \in Nat
    PROVE  /\ {m \in A : m < 0} = {} /\ {t \in Times : MinuteOf(t) \in A /\ MinuteOf(t) < 0} = {}
           /\ n \in A =>
                /\ {m \in A : m < n + 1} = {m \in A : m < n} \union {n}
                /\ {t \in Times : MinuteOf(t) \in A /\ MinuteOf(t) < n + 1}
                     = {t \in Times : MinuteOf(t) \in A /\ MinuteOf(t) < n} \union TimesOf(n)
           /\ n \notin A =>
                /\ {m \in A : m < n + 1} = {m \in A : m < n}
                /\ {t \in Times : MinuteOf(t) \in A /\ MinuteOf(t) < n + 1}
                     = {t \in Times : MinuteOf(t) \in A /\ MinuteOf(t) < n}
           /\ {m \in A : m < n} \intersect {n} = {}
           /\ {t \in Times : MinuteOf(t) \in A /\ MinuteOf(t) < n} \intersect TimesOf(n) = {}
           /\ (\A m \in A : m < n) => /\ {m \in A : m < n} = A
                                      /\ {t \in Times : MinuteOf(t) \in A /\ MinuteOf(t) < n}
                                           = {t \in Times : MinuteOf(t) \in A}
  <1> DEFINE Earlier(m, k) == m < k
  <1>1. \A m \in A : ~Earlier(m, 0) /\ (Earlier(m, n + 1) <=> Earlier(m, n) \/ m = n)
    OBVIOUS
  <1>2. ~Earlier(n, n)
    OBVIOUS
  <1>3. TimesOf(n) = {t \in Times : MinuteOf(t) = n}
    BY DEF TimesOf
  <1> HIDE DEF Earlier
  <1>4. /\ {m \in A : Earlier(m, 0)} = {}
        /\ {t \in Times : MinuteOf(t) \in A /\ Earlier(MinuteOf(t), 0)} = {}
    BY <1>1
  <1>5. n \in A =>
          /\ {m \in A : Earlier(m, n + 1)} = {m \in A : Earlier(m, n)} \union {n}
          /\ {t \in Times : MinuteOf(t) \in A /\ Earlier(MinuteOf(t), n + 1)}
               = {t \in Times : MinuteOf(t) \in A /\ Earlier(MinuteOf(t), n)} \union TimesOf(n)
    BY <1>1, <1>3
  <1>6. n \notin A =>
          /\ {m \in A : Earlier(m, n + 1)} = {m \in A : Earlier(m, n)}
          /\ {t \in Times : MinuteOf(t) \in A /\ Earlier(MinuteOf(t), n + 1)}
               = {t \in Times : MinuteOf(t) \in A /\ Earlier(MinuteOf(t), n)}
    BY <1>1
  <1>7. /\ {m \in A : Earlier(m, n)} \intersect {n} = {}
        /\ {t \in Times : MinuteOf(t) \in A /\ Earlier(MinuteOf(t), n)} \intersect TimesOf(n) = {}
    BY <1>2, <1>3
  <1>8. (\A m \in A : Earlier(m, n)) =>
          /\ {m \in A : Earlier(m, n)} = A
          /\ {t \in Times : MinuteOf(t) \in A /\ Earlier(MinuteOf(t), n)}
               = {t \in Times : MinuteOf(t) \in A}
    OBVIOUS
  <1> QED
    BY <1>4, <1>5, <1>6, <1>7, <1>8 DEF Earlier

\* Minutes that hold the sums of their times sum up to that of all their times:
\* there is no first minute at which this fails.
LEMMA SumByMinutes ==
    ASSUME NEW f \in [Times -> Nat], NEW g, NEW A \in SUBSET AllMinutes,
           \A m \in A : g[m] = SumOf(f, TimesOf(m))
    PROVE  SumOf(g, A) = SumOf(f, {t \in Times : MinuteOf(t) \in A})
  <1> DEFINE Up(n) == {m \in A : m < n}
             Upto(n) == {t \in Times : MinuteOf(t) \in A /\ MinuteOf(t) < n}
             Fails == {n \in Nat : SumOf(g, Up(n)) # SumOf(f, Upto(n))}
             Less == {p \in Nat \X Nat : p[1] < p[2]}
  <1>0. MinuteOf(MaxScanTime) \in Int /\ A \subseteq Nat
    BY WindowsAssumption, MinuteBounds DEF AllMinutes
  <1>1. IsFiniteSet(A) /\ \A S \in SUBSET A : IsFiniteSet(S)
    <2>1. IsFiniteSet(AllMinutes)
      BY <1>0, FS_Interval DEF AllMinutes
    <2> QED
      BY <2>1, FS_Subset
  <1>2. \A S \in SUBSET Times : IsFiniteSet(S)
    BY TimesHaveBuckets, FS_Subset
  <1>3. \A m \in A : g[m] \in Nat
    <2> SUFFICES ASSUME NEW m \in A PROVE SumOf(f, TimesOf(m)) \in Nat
      OBVIOUS
    <2>1. TimesOf(m) \in SUBSET Times
      BY DEF TimesOf
    <2> QED
      BY <1>2, <2>1, UnitsFinite
  <1>4. SumOf(g, Up(0)) = SumOf(f, Upto(0))
    <2>1. Up(0) = {} /\ Upto(0) = {}
      BY <1>0, BeforeNext
    <2> QED
      BY <2>1, SumEmpty
  <1>5. ASSUME NEW n \in Nat, SumOf(g, Up(n)) = SumOf(f, Upto(n))
        PROVE  SumOf(g, Up(n + 1)) = SumOf(f, Upto(n + 1))
    <2>1. CASE n \in A
      <3>1. Up(n + 1) = Up(n) \union {n} /\ Up(n) \intersect {n} = {}
        BY <1>0, <2>1, BeforeNext
      <3>2. Upto(n + 1) = Upto(n) \union TimesOf(n) /\ Upto(n) \intersect TimesOf(n) = {}
        BY <1>0, <2>1, BeforeNext
      <3>3. Up(n) \in SUBSET A /\ Upto(n) \in SUBSET Times /\ TimesOf(n) \in SUBSET Times
        BY DEF TimesOf
      <3> HIDE DEF Up, Upto
      <3>4. SumOf(g, Up(n + 1)) = SumOf(g, Up(n)) + SumOf(g, {n})
        <4>1. IsFiniteSet(Up(n)) /\ IsFiniteSet({n})
          BY <1>1, <3>3, FS_Singleton
        <4>2. \A x \in Up(n) \union {n} : g[x] \in Nat
          BY <1>3, <2>1, <3>3
        <4> QED
          BY <3>1, <4>1, <4>2, SumSplit
      <3>5. SumOf(f, Upto(n + 1)) = SumOf(f, Upto(n)) + SumOf(f, TimesOf(n))
        BY <1>2, <3>2, <3>3, SumSplit
      <3>6. SumOf(g, {n}) = g[n]
        BY <1>3, <2>1, SumSingle
      <3> QED
        BY <1>5, <2>1, <3>4, <3>5, <3>6
    <2>2. CASE n \notin A
      <3>1. Up(n + 1) = Up(n) /\ Upto(n + 1) = Upto(n)
        BY <1>0, <2>2, BeforeNext
      <3> QED
        BY <1>5, <3>1
    <2> QED
      BY <2>1, <2>2
  <1>6. Fails = {}
    <2> SUFFICES ASSUME Fails # {} PROVE FALSE
      OBVIOUS
    <2>1. Fails \in SUBSET Nat
      OBVIOUS
    <2>2. IsWellFoundedOn(Less, Nat)
      BY NatLessThanWellFounded DEF OpToRel
    <2>3. \A m, n \in Nat : m < n => <<m, n>> \in Less
      OBVIOUS
    <2> HIDE DEF Less
    <2>4. PICK n \in Fails : \A m \in Fails : ~(<<m, n>> \in Less)
      <3> HIDE DEF Fails
      <3> QED
        BY <2>1, <2>2, WFMin
    <2>5. n \in Nat /\ n # 0
      BY <1>4, <2>4
    <2>6. n - 1 \in Nat /\ n - 1 < n /\ (n - 1) + 1 = n
      BY <2>5
    <2>7. n - 1 \notin Fails
      BY <2>3, <2>4, <2>5, <2>6
    <2> QED
      BY <1>5, <2>4, <2>6, <2>7
  <1>7. PICK n \in Nat : \A m \in A : m < n
    <2>1. MinuteOf(MaxScanTime) + 1 \in Nat /\ \A m \in A : m < MinuteOf(MaxScanTime) + 1
      <3>1. MinuteOf(MaxScanTime) \in AllMinutes
        BY TimesHaveBuckets, WindowsAssumption DEF Times
      <3> QED
        BY <1>0, <3>1 DEF AllMinutes
    <2> QED
      BY <2>1
  <1>8. Up(n) = A /\ Upto(n) = {t \in Times : MinuteOf(t) \in A}
    BY <1>0, <1>7, BeforeNext
  <1>9. n \notin Fails
    BY <1>6
  <1> QED
    BY <1>8, <1>9

-----------------------------------------------------------------------------
(* The scan-spike monitor: its invariant *)

PerEnvelope == [Envelopes -> Nat]

PassFields == {"pc", "now", "left", "env", "all", "recent", "older", "spikes", "torn", "counted",
               "seen", "owed"}

AccountingTypeOK ==
    /\ time \in Times
    /\ pending \subseteq Envelopes \X Times
    /\ rows \in [Envelopes -> [Times -> Nat]]
    /\ hits \in [Envelopes -> [Times -> Nat]]
    /\ rate \in [Stores -> [Envelopes -> [AllMinutes -> [count : Nat, until : Int]]]]

\* A bucket of Redis has counted the hits of its minute, unless it may be gone.
\* It lasts until a whole baseline after its minute.
RedisCounts ==
    \A e \in Envelopes, m \in AllMinutes :
        /\ rate[Redis][e][m].count = SumOf(hits[e], TimesOf(m)) \/ m * Minute + Retain <= time
        /\ rate[Redis][e][m].until = NoEnd \/ m * Minute + Retain <= rate[Redis][e][m].until

\* What must be reported of an envelope by a pass m: the premise of FloodIsAlerted.
Flood(m, h, e) ==
    /\ e \notin m.torn
    /\ Cardinality(Envelopes) <= CandidateLimit /\ Cardinality(Envelopes) <= AlertLimit
    /\ m.owed[e] >= MinScans
    /\ m.owed[e] * (Baseline - SpikeWindow) >=
         Ratio * SpikeWindow *
           (m.older[e] + Between(h[e], MinuteOf(m.now - Baseline) * Minute, m.now - SpikeWindow - 1))

IsPass(m) ==
    /\ PassFields \subseteq DOMAIN m
    /\ m.pc \in {"recent", "baseline", "emit"}
    /\ m.now \in Times
    /\ m.seen \subseteq Envelopes /\ m.left \subseteq m.seen /\ m.spikes \subseteq m.seen
    /\ m.all \in PerEnvelope /\ m.recent \in PerEnvelope
    /\ m.older \in PerEnvelope /\ m.owed \in PerEnvelope

\* The rows of the window are those of the baseline that are not older. What is
\* owed are they and the hits of the window so far.
OwedIsThere(m, h) ==
    \A e \in Envelopes :
        /\ m.older[e] <= m.all[e]
        /\ m.owed[e] <= m.all[e] - m.older[e] + Between(h[e], m.now - SpikeWindow, m.now)

\* Until its hits are read an envelope has only its rows.
Unread(m) ==
    m.pc \in {"recent", "baseline"} =>
        \A e \in m.left : (m.pc = "baseline" /\ e = m.env) \/ m.recent[e] = m.all[e] - m.older[e]

\* Between the two reads of an envelope: the first has seen all hits of the
\* minutes it overlaps, unless there are new ones.
BetweenReads(m, h) ==
    m.pc = "baseline" =>
        /\ m.env \in m.left
        /\ m.counted \in Nat /\ m.counted <= Total(h[m.env])
        /\ m.env \notin m.torn /\ m.counted = Total(h[m.env]) =>
             m.recent[m.env] = m.all[m.env] - m.older[m.env] +
                                 SumOf(h[m.env], InMinutes(m.now - SpikeWindow, m.now))

\* A flood that was read is among the spikes, and an event follows.
FloodIsKept(m, h, box) ==
    IF m.pc = "emit"
    THEN \A e \in m.seen \intersect Rooted :
            Flood(m, h, e) => e \in m.left \/ EventId(e, m.now) \in box
    ELSE \A e \in m.seen \ m.left : Flood(m, h, e) => e \in m.spikes

\* A pass m, with the hits h and the events box at time t.
PassInv(m, t, h, box) ==
    /\ IsPass(m) /\ m.now <= t
    /\ OwedIsThere(m, h) /\ Unread(m) /\ BetweenReads(m, h) /\ FloodIsKept(m, h, box)

Monitors ==
    /\ monitor = [p \in Replicas |-> monitor[p]]
    /\ \A p \in Replicas : monitor[p] = Asleep \/ PassInv(monitor[p], time, hits, outbox)

AccountingInv == AccountingTypeOK /\ RedisCounts /\ Monitors

-----------------------------------------------------------------------------
\* Counts of times are numbers, and those of fewer times or hits are smaller.
LEMMA BetweenParts ==
    ASSUME NEW f \in [Times -> Nat], NEW a \in Int, NEW b \in Int
    PROVE  /\ Between(f, a, b) = SumOf(f, {t \in Times : a <= t /\ t <= b})
           /\ Between(f, a, b) \in Nat
           /\ IsFiniteSet({t \in Times : a <= t /\ t <= b})
           /\ {t \in Times : a <= t /\ t <= b} \subseteq Times
  <1> DEFINE S == {t \in Times : a <= t /\ t <= b}
  <1>1. S \in SUBSET Times /\ \A t \in S : f[t] \in Nat
    OBVIOUS
  <1>2. IsFiniteSet(S)
    <2> HIDE DEF S
    <2> QED
      BY <1>1, TimesHaveBuckets, FS_Subset
  <1>3. SumOf(f, S) \in Nat
    <2> HIDE DEF S
    <2> QED
      BY <1>1, <1>2, UnitsFinite
  <1>4. DOMAIN f = Times
    OBVIOUS
  <1> QED
    BY <1>1, <1>2, <1>3, <1>4 DEF Between

\* A bucket that overlaps the baseline of the moment is still there.
LEMMA BucketLasts ==
    ASSUME NEW now \in Times, NEW since \in Int, now - Baseline <= since,
           NEW m \in Int, MinuteOf(since) <= m
    PROVE  ~(m * Minute + Retain <= now)
  <1>1. /\ MinuteOf(since) \in Int /\ MinuteOf(since) * Minute \in Int
        /\ since < MinuteOf(since) * Minute + Minute
    BY MinuteBounds
  <1>2. m * Minute \in Int /\ MinuteOf(since) * Minute <= m * Minute
    BY <1>1, MinutesApart, MinuteBounds, WindowsAssumption
  <1>3. now \in Int
    BY TimesHaveBuckets
  <1> QED
    BY <1>1, <1>2, <1>3, WindowsAssumption DEF Retain

\* A read of Redis counts all hits of the minutes it overlaps, as long as those
\* reach back no further than the baseline.
LEMMA RedisReadsHits ==
    ASSUME AccountingTypeOK, RedisCounts, NEW e \in Envelopes,
           NEW since \in Int, time - Baseline <= since
    PROVE  CachedScanCount(Redis, e, since, time) = SumOf(hits[e], InMinutes(since, time))
  <1> DEFINE D == DOMAIN rate[Redis][e]
             g == [m \in D |-> rate[Redis][e][m].count]
             A == Minutes(since, time) \intersect D
  <1>1. hits[e] \in [Times -> Nat] /\ D = AllMinutes /\ time \in Times
    BY DEF AccountingTypeOK, Stores
  <1>2. \A m \in A : m \in AllMinutes /\ m \in Int /\ MinuteOf(since) <= m
    <2>1. time \in Int /\ MinuteOf(since) \in Int /\ MinuteOf(time) \in Int
      BY <1>1, TimesHaveBuckets, MinuteBounds
    <2> QED
      BY <1>1, <2>1 DEF Minutes
  <1>3. \A m \in A : g[m] = SumOf(hits[e], TimesOf(m))
    BY <1>1, <1>2, BucketLasts DEF RedisCounts
  <1>4. {t \in Times : MinuteOf(t) \in A} = InMinutes(since, time)
    BY <1>1, TimesHaveBuckets DEF InMinutes
  <1>5. A \in SUBSET AllMinutes
    BY <1>1
  <1>6. CachedScanCount(Redis, e, since, time) = SumOf(g, A)
    BY DEF CachedScanCount
  <1> HIDE DEF D, g, A
  <1>7. SumOf(g, A) = SumOf(hits[e], {t \in Times : MinuteOf(t) \in A})
    BY <1>1, <1>3, <1>5, SumByMinutes
  <1> QED
    BY <1>4, <1>6, <1>7

\* Whatever store is read, the answer is a number.
LEMMA CountIsNatural ==
    ASSUME AccountingTypeOK, NEW s \in Stores, NEW e \in Envelopes, NEW since, NEW until
    PROVE  CachedScanCount(s, e, since, until) \in Nat
  <1> DEFINE D == DOMAIN rate[s][e]
             g == [m \in D |-> rate[s][e][m].count]
             A == Minutes(since, until) \intersect D
  <1>1. D = AllMinutes /\ \A m \in A : g[m] \in Nat
    BY DEF AccountingTypeOK
  <1>2. IsFiniteSet(AllMinutes)
    BY WindowsAssumption, MinuteBounds, FS_Interval DEF AllMinutes
  <1>3. A \in SUBSET AllMinutes
    BY <1>1
  <1>4. CachedScanCount(s, e, since, until) = SumOf(g, A)
    BY DEF CachedScanCount
  <1> HIDE DEF D, g, A
  <1> QED
    BY <1>1, <1>2, <1>3, <1>4, UnitsFinite, FS_Subset

-----------------------------------------------------------------------------
\* Hits are only added, one at a time and at the moment.
HitsGrow == hits' = hits \/ \E e \in Envelopes : hits' = [hits EXCEPT ![e][time] = @ + 1]

\* What that does to the counts.
LEMMA Grown ==
    ASSUME AccountingTypeOK, HitsGrow, NEW d \in Envelopes
    PROVE  /\ hits[d] \in [Times -> Nat] /\ hits'[d] \in [Times -> Nat]
           /\ \A a, b \in Int : Between(hits[d], a, b) <= Between(hits'[d], a, b)
           /\ \A a, b \in Int : b < time => Between(hits[d], a, b) = Between(hits'[d], a, b)
           /\ Total(hits[d]) \in Nat /\ Total(hits'[d]) \in Nat
           /\ Total(hits[d]) <= Total(hits'[d])
           /\ Total(hits[d]) = Total(hits'[d]) => hits'[d] = hits[d]
  <1> DEFINE f == hits[d]
             g == hits'[d]
  <1>1. time \in Times /\ f \in [Times -> Nat]
    BY DEF AccountingTypeOK
  <1>2. g = f \/ g = [f EXCEPT ![time] = @ + 1]
    <2>1. CASE hits' = hits
      BY <2>1
    <2>2. CASE \E e \in Envelopes : hits' = [hits EXCEPT ![e][time] = @ + 1]
      BY <2>2 DEF AccountingTypeOK
    <2> QED
      BY <2>1, <2>2 DEF HitsGrow
  <1> HIDE DEF f, g
  <1>3. /\ g \in [Times -> Nat] /\ DOMAIN f = Times /\ DOMAIN g = Times
        /\ \A t \in Times : f[t] \in Nat /\ g[t] \in Nat /\ f[t] <= g[t]
        /\ \A t \in Times : t # time => f[t] = g[t]
    BY <1>1, <1>2
  <1>4. ASSUME NEW a \in Int, NEW b \in Int PROVE Between(f, a, b) <= Between(g, a, b)
    <2> DEFINE S == {t \in Times : a <= t /\ t <= b}
    <2>1. Between(f, a, b) = SumOf(f, S) /\ Between(g, a, b) = SumOf(g, S)
      BY <1>1, <1>3, BetweenParts
    <2>2. IsFiniteSet(S) /\ S \subseteq Times
      BY <1>1, BetweenParts
    <2> HIDE DEF S
    <2> QED
      BY <1>3, <2>1, <2>2, SumGrows
  <1>5. ASSUME NEW a \in Int, NEW b \in Int, b < time PROVE Between(f, a, b) = Between(g, a, b)
    <2> DEFINE S == {t \in Times : a <= t /\ t <= b}
    <2>1. Between(f, a, b) = SumOf(f, S) /\ Between(g, a, b) = SumOf(g, S)
      BY <1>1, <1>3, BetweenParts
    <2>2. \A t \in S : t # time /\ t \in Times
      BY <1>1, <1>5, TimesHaveBuckets
    <2> HIDE DEF S
    <2> QED
      BY <1>3, <2>1, <2>2, SumSame
  <1>6. Total(f) = SumOf(f, Times) /\ Total(g) = SumOf(g, Times)
    BY <1>3 DEF Total
  <1>7. SumOf(f, Times) \in Nat /\ SumOf(g, Times) \in Nat
    BY <1>3, TimesHaveBuckets, UnitsFinite
  <1>8. g # f => SumOf(g, Times) = SumOf(f, Times) + 1
    <2> SUFFICES ASSUME g # f PROVE SumOf(g, Times) = SumOf(f, Times) + 1
      OBVIOUS
    <2>1. IsFiniteSet(Times) /\ \A t \in Times : f[t] \in Nat
      BY <1>3, TimesHaveBuckets
    <2>2. g[time] = f[time] + 1
      BY <1>1, <1>2
    <2>3. \A t \in Times : t # time => g[t] = f[t]
      BY <1>3
    <2> HIDE DEF HitsGrow, AccountingTypeOK
    <2> QED
      BY <1>1, <2>1, <2>2, <2>3, SumStep
  <1>9. SumOf(f, Times) <= SumOf(g, Times) /\ (SumOf(f, Times) = SumOf(g, Times) => g = f)
    BY <1>7, <1>8
  <1> QED
    BY <1>1, <1>3, <1>4, <1>5, <1>6, <1>7, <1>9 DEF f, g

\* A pass stays sound while scans and other replicas go on.
LEMMA PassKept ==
    ASSUME AccountingTypeOK, NEW m, PassInv(m, time, hits, outbox), HitsGrow, time <= time', time' \in Times,
           outbox \subseteq outbox'
    PROVE  PassInv(m, time', hits', outbox')
  <1>0. /\ IsPass(m) /\ m.now <= time /\ OwedIsThere(m, hits) /\ Unread(m) /\ BetweenReads(m, hits)
        /\ FloodIsKept(m, hits, outbox)
    BY DEF PassInv
  <1>1. /\ time \in Int /\ time' \in Int /\ m.now \in Int
        /\ m.now - SpikeWindow \in Int /\ m.now - SpikeWindow - 1 \in Int
        /\ m.now - SpikeWindow - 1 < time /\ m.now <= time'
    BY <1>0, TimesHaveBuckets, WindowsAssumption DEF IsPass, AccountingTypeOK
  <1>2. MinuteOf(m.now - Baseline) * Minute \in Int
    BY <1>1, MinuteBounds, WindowsAssumption
  <1>3. \A e \in Envelopes :
          Between(hits[e], m.now - SpikeWindow, m.now) <= Between(hits'[e], m.now - SpikeWindow, m.now)
    BY <1>1, Grown
  <1>4. \A e \in Envelopes : Flood(m, hits', e) = Flood(m, hits, e)
    <2> SUFFICES ASSUME NEW e \in Envelopes PROVE Flood(m, hits', e) = Flood(m, hits, e)
      OBVIOUS
    <2>1. Between(hits[e], MinuteOf(m.now - Baseline) * Minute, m.now - SpikeWindow - 1)
            = Between(hits'[e], MinuteOf(m.now - Baseline) * Minute, m.now - SpikeWindow - 1)
      BY <1>1, <1>2, Grown
    <2> QED
      BY <2>1 DEF Flood
  <1>5. OwedIsThere(m, hits')
    <2> SUFFICES ASSUME NEW e \in Envelopes
                 PROVE  m.owed[e] <= m.all[e] - m.older[e]
                                       + Between(hits'[e], m.now - SpikeWindow, m.now)
      BY <1>0 DEF OwedIsThere
    <2>1. /\ m.owed[e] \in Nat /\ m.all[e] \in Nat /\ m.older[e] \in Nat
          /\ m.owed[e] <= m.all[e] - m.older[e] + Between(hits[e], m.now - SpikeWindow, m.now)
      BY <1>0 DEF OwedIsThere, IsPass, PerEnvelope
    <2>2. /\ Between(hits[e], m.now - SpikeWindow, m.now) \in Nat
          /\ Between(hits'[e], m.now - SpikeWindow, m.now) \in Nat
      BY <1>1, Grown, BetweenParts
    <2> QED
      BY <1>3, <2>1, <2>2
  <1>6. BetweenReads(m, hits')
    <2> SUFFICES ASSUME m.pc = "baseline" PROVE BetweenReads(m, hits')
      BY DEF BetweenReads
    <2>1. m.env \in m.left /\ m.env \in Envelopes
      BY <1>0 DEF BetweenReads, IsPass
    <2>2. m.counted \in Nat /\ m.counted <= Total(hits[m.env])
      BY <1>0 DEF BetweenReads
    <2>3. m.counted <= Total(hits'[m.env])
      BY <2>1, <2>2, Grown
    <2>4. m.counted = Total(hits'[m.env]) => m.counted = Total(hits[m.env]) /\ hits'[m.env] = hits[m.env]
      BY <2>1, <2>2, Grown
    <2> QED
      BY <1>0, <2>1, <2>2, <2>3, <2>4 DEF BetweenReads
  <1>7. FloodIsKept(m, hits', outbox')
    BY <1>0, <1>4 DEF FloodIsKept, IsPass
  <1> QED
    BY <1>0, <1>1, <1>5, <1>6, <1>7 DEF PassInv, IsPass, Unread

-----------------------------------------------------------------------------
\* The steps of scans and of the clock.

\* A count in a bucket keeps the types.
LEMMA BumpTyped ==
    ASSUME AccountingTypeOK, NEW s \in Stores, NEW e \in Envelopes, NEW x \in BOOLEAN
    PROVE  /\ Bump(s, e, x) \in [Stores -> [Envelopes -> [AllMinutes -> [count : Nat, until : Int]]]]
           /\ \A r \in Stores : r # s => Bump(s, e, x)[r] = rate[r]
           /\ \A d \in Envelopes, m \in AllMinutes :
                Bump(s, e, x)[s][d][m] =
                  IF d = e /\ m = MinuteOf(time) THEN Counted(rate[s][d][m], x) ELSE rate[s][d][m]
  <1>1. time \in Int /\ time + Retain \in Int /\ MinuteOf(time) \in AllMinutes
    BY TimesHaveBuckets, WindowsAssumption DEF AccountingTypeOK, Retain
  <1> DEFINE C == [count : Nat, until : Int]
             r == MinuteOf(time)
             new == Counted(rate[s][e][r], x)
  <1>2. rate[s][e][r] \in C
    BY <1>1 DEF AccountingTypeOK
  <1>3. new \in C
    BY <1>1, <1>2 DEF Counted
  <1>4. Bump(s, e, x) = [rate EXCEPT ![s] = [rate[s] EXCEPT ![e] = [rate[s][e] EXCEPT ![r] = new]]]
    BY DEF Bump, AccountingTypeOK
  <1>5. rate \in [Stores -> [Envelopes -> [AllMinutes -> C]]]
    BY DEF AccountingTypeOK
  <1>6. \A d \in Envelopes, m \in AllMinutes :
          (d = e /\ m = r) => Counted(rate[s][d][m], x) = new
    OBVIOUS
  <1> HIDE DEF C, r, new
  <1> QED
    BY <1>1, <1>3, <1>4, <1>5, <1>6 DEF C, r

\* One more row or hit of an envelope keeps its counts numbers.
LEMMA OneMoreTyped ==
    ASSUME NEW F \in [Envelopes -> [Times -> Nat]], NEW e \in Envelopes, NEW t \in Times
    PROVE  [F EXCEPT ![e][t] = @ + 1] \in [Envelopes -> [Times -> Nat]]
  <1> DEFINE g == [F[e] EXCEPT ![t] = F[e][t] + 1]
  <1>1. g \in [Times -> Nat]
    OBVIOUS
  <1>2. [F EXCEPT ![e][t] = @ + 1] = [F EXCEPT ![e] = g]
    OBVIOUS
  <1> HIDE DEF g
  <1> QED
    BY <1>1, <1>2

\* A hit that Redis counts is counted in its minute.
LEMMA BumpCounts ==
    ASSUME AccountingTypeOK, RedisCounts, NEW e \in Envelopes, NEW x \in BOOLEAN,
           rate'[Redis] = Bump(Redis, e, x)[Redis], time' = time,
           hits' = [hits EXCEPT ![e][time] = @ + 1]
    PROVE  RedisCounts'
  <1>1. /\ time \in Times /\ time \in Int /\ MinuteOf(time) \in AllMinutes
        /\ MinuteOf(time) \in Int /\ MinuteOf(time) * Minute \in Int
        /\ MinuteOf(time) * Minute <= time /\ time < MinuteOf(time) * Minute + Minute
    BY TimesHaveBuckets, MinuteBounds DEF AccountingTypeOK
  <1>2. Redis \in Stores
    BY DEF Stores
  <1>3. AccountingTypeOK /\ HitsGrow
    BY DEF HitsGrow
  <1> SUFFICES ASSUME NEW d \in Envelopes, NEW m \in AllMinutes
               PROVE  /\ \/ rate'[Redis][d][m].count = SumOf(hits'[d], TimesOf(m))
                         \/ m * Minute + Retain <= time
                      /\ \/ rate'[Redis][d][m].until = NoEnd
                         \/ m * Minute + Retain <= rate'[Redis][d][m].until
    BY DEF RedisCounts, TimesOf
  <1> DEFINE old == rate[Redis][d][m]
  <1>4. /\ old.count = SumOf(hits[d], TimesOf(m)) \/ m * Minute + Retain <= time
        /\ old.until = NoEnd \/ m * Minute + Retain <= old.until
    BY DEF RedisCounts
  <1>5. TimesOf(m) \subseteq Times /\ IsFiniteSet(TimesOf(m))
    <2>1. TimesOf(m) \in SUBSET Times
      BY DEF TimesOf
    <2> QED
      BY <2>1, TimesHaveBuckets, FS_Subset
  <1>6. hits[d] \in [Times -> Nat] /\ hits'[d] \in [Times -> Nat]
    BY <1>3, Grown
  <1>7. CASE d = e /\ m = MinuteOf(time)
    <2>1. rate'[Redis][d][m] = Counted(old, x)
      BY <1>2, <1>7, BumpTyped
    <2>2. ~(m * Minute + Retain <= time) /\ m * Minute + Retain <= time + Retain
      BY <1>1, <1>7, WindowsAssumption DEF Retain
    <2>3. time \in TimesOf(m)
      BY <1>1, <1>7 DEF TimesOf
    <2>4. /\ \A t \in TimesOf(m) : hits[d][t] \in Nat
          /\ hits'[d][time] = hits[d][time] + 1
          /\ \A t \in TimesOf(m) : t # time => hits'[d][t] = hits[d][t]
      BY <1>1, <1>5, <1>6, <1>7 DEF AccountingTypeOK
    <2>5. SumOf(hits'[d], TimesOf(m)) = SumOf(hits[d], TimesOf(m)) + 1
      BY <1>5, <2>3, <2>4, SumStep
    <2>6. Counted(old, x).count = old.count + 1
          /\ Counted(old, x).until \in {old.until, time + Retain}
      BY DEF Counted
    <2> HIDE DEF old
    <2> QED
      BY <1>4, <2>1, <2>2, <2>5, <2>6
  <1>8. CASE ~(d = e /\ m = MinuteOf(time))
    <2>1. rate'[Redis][d][m] = old
      BY <1>2, <1>8, BumpTyped
    <2>2. \A t \in TimesOf(m) : hits[d][t] = hits'[d][t]
      BY <1>1, <1>5, <1>8 DEF AccountingTypeOK, TimesOf
    <2>3. SumOf(hits[d], TimesOf(m)) = SumOf(hits'[d], TimesOf(m))
      <3> DEFINE f == hits[d]
                 g == hits'[d]
                 S == TimesOf(m)
      <3>1. \A t \in S : f[t] = g[t]
        BY <2>2
      <3> HIDE DEF f, g, S
      <3>2. SumOf(f, S) = SumOf(g, S)
        BY <3>1, SumSame
      <3> QED
        BY <3>2 DEF f, g, S
    <2> QED
      BY <1>4, <2>1, <2>3
  <1> QED
    BY <1>7, <1>8

\* Buckets are dropped only when a whole baseline is past.
LEMMA TickKeeps ==
    ASSUME AccountingInv, AccountingTick
    PROVE  AccountingInv'
  <1>1. AccountingTypeOK /\ RedisCounts
    BY DEF AccountingInv
  <1>2. time \in Nat /\ time' = time + 1 /\ time' \in Times
    BY <1>1, WindowsAssumption DEF AccountingTypeOK, AccountingTick, Times
  <1>3. \A s \in Stores, e \in Envelopes, m \in AllMinutes :
          rate'[s][e][m] = KeptCount(rate[s][e][m]) /\ rate[s][e][m] \in [count : Nat, until : Int]
    BY <1>1 DEF AccountingTypeOK, AccountingTick
  <1>4. \A c \in [count : Nat, until : Int] : KeptCount(c) \in [count : Nat, until : Int]
    BY DEF KeptCount, NoCount, NoEnd
  <1>5. rate' \in [Stores -> [Envelopes -> [AllMinutes -> [count : Nat, until : Int]]]]
    <2>1. rate' = [s \in Stores |-> [e \in Envelopes |-> [m \in AllMinutes |-> KeptCount(rate[s][e][m])]]]
      BY <1>1 DEF AccountingTypeOK, AccountingTick
    <2> QED
      BY <1>3, <1>4, <2>1
  <1>6. AccountingTypeOK'
    BY <1>1, <1>2, <1>5 DEF AccountingTypeOK, AccountingTick
  <1>7. RedisCounts'
    <2> SUFFICES ASSUME NEW e \in Envelopes, NEW m \in AllMinutes
                 PROVE  /\ \/ rate'[Redis][e][m].count = SumOf(hits[e], TimesOf(m))
                           \/ m * Minute + Retain <= time + 1
                        /\ \/ rate'[Redis][e][m].until = NoEnd
                           \/ m * Minute + Retain <= rate'[Redis][e][m].until
      BY <1>2 DEF RedisCounts, TimesOf, AccountingTick
    <2> DEFINE old == rate[Redis][e][m]
    <2>1. /\ old.count = SumOf(hits[e], TimesOf(m)) \/ m * Minute + Retain <= time
          /\ old.until = NoEnd \/ m * Minute + Retain <= old.until
      BY <1>1 DEF RedisCounts
    <2>2. rate'[Redis][e][m] = KeptCount(old) /\ old.until \in Int
      BY <1>3 DEF Stores
    <2>3. m \in Int /\ m * Minute + Retain \in Int
      BY WindowsAssumption, MinuteBounds DEF AllMinutes, Retain
    <2> HIDE DEF old
    <2> QED
      BY <1>2, <2>1, <2>2, <2>3 DEF KeptCount, NoCount
  <1>8. \A m : PassInv(m, time, hits, outbox) => PassInv(m, time', hits', outbox')
    BY <1>1, <1>2, PassKept DEF HitsGrow, AccountingTick
  <1>9. Monitors'
    BY <1>8 DEF AccountingInv, Monitors, AccountingTick
  <1> QED
    BY <1>6, <1>7, <1>9 DEF AccountingInv

\* A scan leaves a count or evidence to be written, and disturbs no pass.
LEMMA ScanKeeps ==
    ASSUME AccountingInv, NEW e \in Envelopes, NEW p,
           Compute(e) \/ CachedScan(e) \/ (p \in Replicas /\ CachedScanFailsOver(p, e))
    PROVE  AccountingInv'
  <1>1. AccountingTypeOK /\ RedisCounts /\ time \in Times /\ Redis \in Stores
    BY DEF AccountingInv, AccountingTypeOK, Stores
  <1>2. time' = time /\ outbox' = outbox /\ monitor' = monitor /\ rows' = rows
    BY DEF Compute, CachedScan, CachedScanFailsOver
  <1>3. HitsGrow
    BY DEF HitsGrow, Compute, CachedScan, CachedScanFailsOver
  <1>4. \A m : PassInv(m, time, hits, outbox) => PassInv(m, time', hits', outbox')
    BY <1>1, <1>2, <1>3, PassKept, TimesHaveBuckets
  <1>5. Monitors'
    BY <1>2, <1>4 DEF AccountingInv, Monitors
  <1>6. hits' \in [Envelopes -> [Times -> Nat]]
    <2>1. hits \in [Envelopes -> [Times -> Nat]]
      BY <1>1 DEF AccountingTypeOK
    <2> QED
      BY <1>1, <1>3, <2>1, OneMoreTyped DEF HitsGrow
  <1>7. pending' \subseteq Envelopes \X Times
    <2>1. pending' = pending \/ pending' = pending \union {<<e, time>>}
      BY DEF Compute, CachedScan, CachedScanFailsOver
    <2>2. pending \subseteq Envelopes \X Times
      BY <1>1 DEF AccountingTypeOK
    <2> QED
      BY <1>1, <2>1, <2>2
  <1> DEFINE Rates == [Stores -> [Envelopes -> [AllMinutes -> [count : Nat, until : Int]]]]
  <1>8. rate' \in Rates /\ RedisCounts'
    <2>1. CASE rate' = rate /\ hits' = hits
      BY <1>1, <1>2, <2>1 DEF AccountingTypeOK, RedisCounts, TimesOf
    <2>2. CASE rate' = Bump(Redis, e, TRUE) /\ hits' = [hits EXCEPT ![e][time] = @ + 1]
      BY <1>1, <1>2, <2>2, BumpTyped, BumpCounts
    <2>3. CASE p \in Replicas /\ rate' = Bump(p, e, TRUE) /\ hits' = hits
      <3>1. rate' \in Rates /\ rate'[Redis] = rate[Redis]
        BY <1>1, <2>3, BumpTyped, ReplicasAssumption DEF Stores
      <3> QED
        BY <1>1, <1>2, <2>3, <3>1 DEF RedisCounts, TimesOf
    <2>4. ASSUME NEW x \in BOOLEAN, p \in Replicas,
                 rate' = [Bump(p, e, TRUE) EXCEPT ![Redis] = Bump(Redis, e, x)[Redis]],
                 hits' = [hits EXCEPT ![e][time] = @ + 1]
          PROVE  rate' \in Rates /\ RedisCounts'
      <3>1. Bump(p, e, TRUE) \in Rates /\ Bump(Redis, e, x) \in Rates
        BY <1>1, <2>4, BumpTyped DEF Stores
      <3>2. rate' \in Rates /\ rate'[Redis] = Bump(Redis, e, x)[Redis]
        BY <1>1, <2>4, <3>1
      <3> QED
        BY <1>1, <1>2, <2>4, <3>2, BumpCounts
    <2>5. CASE Compute(e)
      BY <2>1, <2>5 DEF Compute
    <2>6. CASE CachedScan(e)
      BY <2>2, <2>6 DEF CachedScan
    <2>7. CASE p \in Replicas /\ CachedScanFailsOver(p, e)
      BY <2>3, <2>4, <2>7 DEF CachedScanFailsOver
    <2> QED
      BY <2>5, <2>6, <2>7
  <1>9. AccountingTypeOK'
    BY <1>1, <1>2, <1>6, <1>7, <1>8 DEF AccountingTypeOK
  <1> QED
    BY <1>5, <1>8, <1>9 DEF AccountingInv

\* The evidence of a scan is written or fails to be.
LEMMA EvidenceKeeps ==
    ASSUME AccountingInv, NEW d \in pending, WriteRow(d) \/ RowFails(d)
    PROVE  AccountingInv'
  <1>1. AccountingTypeOK /\ RedisCounts /\ time \in Times
    BY DEF AccountingInv, AccountingTypeOK
  <1>2. UNCHANGED <<time, outbox, monitor, hits, rate>> /\ pending' \subseteq pending
    BY DEF WriteRow, RowFails
  <1>3. \A m : PassInv(m, time, hits, outbox) => PassInv(m, time', hits', outbox')
    BY <1>1, <1>2, PassKept, TimesHaveBuckets DEF HitsGrow
  <1>4. Monitors'
    BY <1>2, <1>3 DEF AccountingInv, Monitors
  <1>5. d[1] \in Envelopes /\ d[2] \in Times
    BY <1>1 DEF AccountingTypeOK
  <1>6. rows' \in [Envelopes -> [Times -> Nat]]
    <2>1. rows' = rows \/ rows' = [rows EXCEPT ![d[1]][d[2]] = @ + 1]
      BY DEF WriteRow, RowFails
    <2>2. rows \in [Envelopes -> [Times -> Nat]]
      BY <1>1 DEF AccountingTypeOK
    <2>3. [rows EXCEPT ![d[1]][d[2]] = @ + 1] \in [Envelopes -> [Times -> Nat]]
      BY <1>5, <2>2, OneMoreTyped
    <2> QED
      BY <2>1, <2>2, <2>3
  <1>7. AccountingTypeOK'
    BY <1>1, <1>2, <1>6 DEF AccountingTypeOK
  <1>8. RedisCounts'
    BY <1>1, <1>2 DEF RedisCounts, TimesOf
  <1> QED
    BY <1>4, <1>7, <1>8 DEF AccountingInv

-----------------------------------------------------------------------------
\* The steps of a pass.

\* The pass of a replica becomes r; no other pass is disturbed.
LEMMA OneMonitor ==
    ASSUME AccountingInv, NEW p \in Replicas, NEW r, r = Asleep \/ PassInv(r, time', hits', outbox'),
           monitor' = [monitor EXCEPT ![p] = r],
           UNCHANGED <<time, dataVars>>, outbox \subseteq outbox'
    PROVE  AccountingInv'
  <1>1. AccountingTypeOK /\ RedisCounts /\ time \in Times
    BY DEF AccountingInv, AccountingTypeOK
  <1>2. AccountingTypeOK'
    BY <1>1 DEF AccountingTypeOK, dataVars
  <1>3. RedisCounts'
    BY <1>1 DEF RedisCounts, TimesOf, dataVars
  <1>4. \A m : PassInv(m, time, hits, outbox) => PassInv(m, time', hits', outbox')
    BY <1>1, PassKept, TimesHaveBuckets DEF HitsGrow, dataVars
  <1>5. Monitors'
    <2>1. monitor = [q \in Replicas |-> monitor[q]]
      BY DEF AccountingInv, Monitors
    <2>2. monitor' = [q \in Replicas |-> monitor'[q]]
      BY <2>1
    <2>3. \A q \in Replicas : monitor'[q] = IF q = p THEN r ELSE monitor[q]
      BY <2>1
    <2>4. ASSUME NEW q \in Replicas
          PROVE  monitor'[q] = Asleep \/ PassInv(monitor'[q], time', hits', outbox')
      <3>1. CASE q = p
        BY <2>3, <3>1
      <3>2. CASE q # p
        BY <1>4, <2>3, <3>2 DEF AccountingInv, Monitors
      <3> QED
        BY <3>1, <3>2
    <2> QED
      BY <2>2, <2>4 DEF Monitors
  <1> QED
    BY <1>2, <1>3, <1>5 DEF AccountingInv

\* A limit that is no limit keeps everything.
LEMMA TopIsAll ==
    ASSUME NEW S \in SUBSET Envelopes, NEW rank, NEW k \in Nat, NEW C \in Top(S, rank, k)
    PROVE  /\ C \subseteq S
           /\ Cardinality(Envelopes) <= k => C = S
  <1>1. C \in SUBSET S /\ Cardinality(C) = IF Cardinality(S) < k THEN Cardinality(S) ELSE k
    BY DEF Top
  <1>2. /\ IsFiniteSet(Envelopes) /\ IsFiniteSet(S) /\ Cardinality(S) <= Cardinality(Envelopes)
        /\ Cardinality(S) \in Nat /\ Cardinality(Envelopes) \in Nat
    BY EnvelopesAssumption, FS_Subset, FS_CardinalityType
  <1>3. Cardinality(Envelopes) <= k => Cardinality(S) = Cardinality(C)
    BY <1>1, <1>2
  <1> QED
    BY <1>1, <1>2, <1>3, FS_Subset

\* A pass begins: everything is still to be read.
LEMMA FetchKeeps ==
    ASSUME AccountingInv, NEW p \in Replicas, Fetch(p)
    PROVE  AccountingInv'
  <1> DEFINE bs == time - Baseline
             ws == time - SpikeWindow
             all == [e \in Envelopes |-> Between(rows[e], bs, MaxScanTime)]
             recent == [e \in Envelopes |-> Between(rows[e], ws, MaxScanTime)]
             older == [e \in Envelopes |-> all[e] - recent[e]]
             owed == [e \in Envelopes |-> recent[e] + Between(hits[e], ws, time)]
             seen == {e \in Envelopes : all[e] > 0}
             env == CHOOSE e \in Envelopes : TRUE
  <1>1. PICK C \in Top(seen, recent, CandidateLimit) :
          monitor' = [monitor EXCEPT ![p] =
             [pc |-> "recent", now |-> time, left |-> C, env |-> env,
              all |-> all, recent |-> recent, older |-> older,
              spikes |-> {}, torn |-> {}, counted |-> 0, seen |-> seen, owed |-> owed]]
    BY DEF Fetch
  <1> DEFINE r == [pc |-> "recent", now |-> time, left |-> C, env |-> env,
                   all |-> all, recent |-> recent, older |-> older,
                   spikes |-> {}, torn |-> {}, counted |-> 0, seen |-> seen, owed |-> owed]
  <1>2. UNCHANGED <<time, outbox, dataVars>>
    BY DEF Fetch
  <1>3. /\ AccountingTypeOK /\ time \in Times /\ time \in Int /\ bs \in Int /\ ws \in Int /\ bs <= ws
        /\ MaxScanTime \in Int
    BY TimesHaveBuckets, WindowsAssumption DEF AccountingInv, AccountingTypeOK
  <1>4. \A e \in Envelopes :
          /\ Between(rows[e], bs, MaxScanTime) \in Nat
          /\ Between(rows[e], ws, MaxScanTime) \in Nat
          /\ Between(hits[e], ws, time) \in Nat
          /\ Between(rows[e], ws, MaxScanTime) <= Between(rows[e], bs, MaxScanTime)
    <2> SUFFICES ASSUME NEW e \in Envelopes
                 PROVE  /\ Between(rows[e], bs, MaxScanTime) \in Nat
                        /\ Between(rows[e], ws, MaxScanTime) \in Nat
                        /\ Between(hits[e], ws, time) \in Nat
                        /\ Between(rows[e], ws, MaxScanTime) <= Between(rows[e], bs, MaxScanTime)
      OBVIOUS
    <2> DEFINE f == rows[e]
               S == {t \in Times : bs <= t /\ t <= MaxScanTime}
               T == {t \in Times : ws <= t /\ t <= MaxScanTime}
    <2>1. f \in [Times -> Nat] /\ hits[e] \in [Times -> Nat]
      BY <1>3 DEF AccountingTypeOK
    <2> HIDE DEF bs, ws, f
    <2>2. /\ Between(f, bs, MaxScanTime) = SumOf(f, S) /\ Between(f, bs, MaxScanTime) \in Nat
          /\ Between(f, ws, MaxScanTime) = SumOf(f, T) /\ Between(f, ws, MaxScanTime) \in Nat
          /\ IsFiniteSet(S) /\ S \subseteq Times
      BY <1>3, <2>1, BetweenParts
    <2>3. Between(hits[e], ws, time) \in Nat
      BY <1>3, <2>1, BetweenParts
    <2>4. T \subseteq S
      <3> SUFFICES ASSUME NEW t \in Times, ws <= t PROVE bs <= t
        OBVIOUS
      <3>1. t \in Int
        BY TimesHaveBuckets
      <3> HIDE DEF S, T, r, all, recent, older, owed, seen, env
      <3> QED
        BY <1>3, <3>1
    <2>5. \A t \in S : f[t] \in Nat /\ f[t] <= f[t]
      BY <2>1
    <2> HIDE DEF S, T
    <2>6. SumOf(f, T) <= SumOf(f, S)
      BY <2>2, <2>4, <2>5, SumGrows
    <2> QED
      BY <2>2, <2>3, <2>6 DEF f
  <1>5. /\ all \in PerEnvelope /\ recent \in PerEnvelope /\ older \in PerEnvelope /\ owed \in PerEnvelope
        /\ \A e \in Envelopes : older[e] <= all[e] /\ recent[e] = all[e] - older[e]
        /\ \A e \in Envelopes : owed[e] <= all[e] - older[e] + Between(hits[e], time - SpikeWindow, time)
    <2> HIDE DEF bs
    <2> QED
      BY <1>4 DEF PerEnvelope
  <1>6. seen \in SUBSET Envelopes
    OBVIOUS
  <1> HIDE DEF bs, ws, all, recent, older, owed, seen, env
  <1>7. C \subseteq seen /\ (Cardinality(Envelopes) <= CandidateLimit => C = seen)
    BY <1>6, TopIsAll, ThresholdsAssumption
  <1>8. PassInv(r, time, hits, outbox)
    <2>1. IsPass(r)
      <3>1. PassFields \subseteq DOMAIN r
        BY DEF PassFields
      <3> QED
        BY <1>3, <1>5, <1>6, <1>7, <3>1 DEF IsPass
    <2>2. OwedIsThere(r, hits)
      BY <1>5 DEF OwedIsThere
    <2>3. Unread(r) /\ BetweenReads(r, hits)
      BY <1>5, <1>6, <1>7 DEF Unread, BetweenReads
    <2>4. FloodIsKept(r, hits, outbox)
      BY <1>7 DEF FloodIsKept, Flood
    <2> QED
      BY <1>3, <2>1, <2>2, <2>3, <2>4 DEF PassInv
  <1>9. monitor' = [monitor EXCEPT ![p] = r]
    BY <1>1
  <1> HIDE DEF r
  <1>10. PassInv(r, time', hits', outbox')
    BY <1>2, <1>3, <1>8, PassKept DEF HitsGrow, dataVars
  <1> QED
    BY <1>2, <1>9, <1>10, OneMonitor

\* A monitor that is at work is in a pass.
LEMMA AtWork ==
    ASSUME AccountingInv, NEW p \in Replicas, monitor[p].pc # "asleep"
    PROVE  /\ PassInv(monitor[p], time, hits, outbox) /\ AccountingTypeOK /\ RedisCounts
           /\ time \in Int /\ monitor[p].now \in Int
  <1>1. monitor[p] # Asleep
    BY DEF Asleep
  <1>2. PassInv(monitor[p], time, hits, outbox) /\ AccountingTypeOK /\ RedisCounts
    BY <1>1 DEF AccountingInv, Monitors
  <1>3. time \in Times /\ monitor[p].now \in Times
    BY <1>2 DEF PassInv, IsPass, AccountingTypeOK
  <1>4. \A t \in Times : t \in Int
    BY TimesHaveBuckets
  <1> QED
    BY <1>2, <1>3, <1>4, Zenon

\* An envelope is torn or the read was of Redis, at the start of the pass, and
\* nothing came in since the one before it.
LEMMA TornCases ==
    ASSUME NEW m, NEW e, NEW s
    PROVE  /\ m.torn \subseteq Torn(m, e, s) /\ Torn(m, e, s) \subseteq m.torn \union {e}
           /\ e \notin Torn(m, e, s) =>
                /\ e \notin m.torn /\ s = Redis /\ time = m.now
                /\ m.pc = "baseline" => m.counted = Total(hits[e])
  BY DEF Torn

\* The first read of an envelope.
LEMMA ReadRecentKeeps ==
    ASSUME AccountingInv, NEW p \in Replicas, ReadRecent(p)
    PROVE  AccountingInv'
  <1> DEFINE m == monitor[p]
  <1>1. m.pc = "recent" /\ UNCHANGED <<time, outbox, dataVars>>
    BY DEF ReadRecent
  <1>2. PassInv(m, time, hits, outbox) /\ AccountingTypeOK /\ RedisCounts /\ m.now \in Int /\ time \in Int
    BY <1>1, AtWork
  <1>3. PICK e \in m.left, s \in {Redis, p} :
          monitor' = [monitor EXCEPT ![p] =
             [m EXCEPT !.pc = "baseline", !.env = e, !.counted = Total(hits[e]),
                       !.torn = Torn(m, e, s),
                       !.recent = [m.recent EXCEPT ![e] =
                          @ + CachedScanCount(s, e, m.now - SpikeWindow, m.now)]]]
    BY Zenon DEF ReadRecent
  <1> DEFINE c == CachedScanCount(s, e, m.now - SpikeWindow, m.now)
             k == Total(hits[e])
             T == Torn(m, e, s)
             rec == [m.recent EXCEPT ![e] = @ + c]
  <1>4. IsPass(m) /\ m.now <= time
    BY <1>2 DEF PassInv
  <1>5. PICK r : /\ r = [m EXCEPT !.pc = "baseline", !.env = e, !.counted = k, !.torn = T, !.recent = rec]
                 /\ monitor' = [monitor EXCEPT ![p] = r]
    BY <1>3, Zenon
  <1>6. e \in Envelopes /\ s \in Stores
    BY <1>4 DEF IsPass, Stores
  <1>7. c \in Nat
    BY <1>2, <1>6, CountIsNatural
  <1>8. k \in Nat
    <2>1. hits[e] \in [Times -> Nat] /\ IsFiniteSet(Times)
      BY <1>2, <1>6, TimesHaveBuckets DEF AccountingTypeOK
    <2> QED
      BY <2>1, UnitsFinite DEF Total
  <1>9. e \notin T => /\ e \notin m.torn
                      /\ c = SumOf(hits[e], InMinutes(m.now - SpikeWindow, m.now))
    <2> SUFFICES ASSUME e \notin T
                 PROVE  e \notin m.torn /\ c = SumOf(hits[e], InMinutes(m.now - SpikeWindow, m.now))
      OBVIOUS
    <2>1. e \notin m.torn /\ s = Redis /\ time = m.now
      BY TornCases
    <2>2. time - SpikeWindow \in Int /\ time - Baseline <= time - SpikeWindow
      BY <1>2, WindowsAssumption
    <2>3. CachedScanCount(Redis, e, time - SpikeWindow, time) = SumOf(hits[e], InMinutes(time - SpikeWindow, time))
      BY <1>2, <1>6, <2>2, RedisReadsHits
    <2> QED
      BY <2>1, <2>3
  <1>10. m.torn \subseteq T
    BY TornCases
  <1>11. /\ rec \in PerEnvelope /\ rec[e] = m.recent[e] + c
         /\ \A d \in Envelopes : d # e => rec[d] = m.recent[d]
    BY <1>4, <1>6, <1>7 DEF IsPass, PerEnvelope
  <1>12. m.recent[e] = m.all[e] - m.older[e]
    BY <1>1, <1>2 DEF PassInv, Unread
  <1>13. /\ PassFields \subseteq DOMAIN r
         /\ r.pc = "baseline" /\ r.env = e /\ r.counted = k /\ r.torn = T /\ r.recent = rec
         /\ r.now = m.now /\ r.left = m.left /\ r.all = m.all /\ r.older = m.older
         /\ r.spikes = m.spikes /\ r.seen = m.seen /\ r.owed = m.owed
    <2>1. PassFields \subseteq DOMAIN m
      BY <1>4 DEF IsPass
    <2> HIDE DEF c, k, T, rec, m
    <2> QED
      BY <1>5, <2>1 DEF PassFields
  <1> HIDE DEF c, k, T, rec, m
  <1>14. PassInv(r, time, hits, outbox)
    <2>1. IsPass(r)
      BY <1>4, <1>11, <1>13 DEF IsPass
    <2>2. OwedIsThere(r, hits)
      BY <1>2, <1>13 DEF PassInv, OwedIsThere
    <2>3. Unread(r)
      BY <1>1, <1>2, <1>4, <1>11, <1>13 DEF PassInv, Unread, IsPass
    <2>4. BetweenReads(r, hits)
      BY <1>3, <1>8, <1>9, <1>11, <1>12, <1>13 DEF BetweenReads, k
    <2>5. FloodIsKept(r, hits, outbox)
      <3>1. \A d : Flood(r, hits, d) => Flood(m, hits, d)
        BY <1>10, <1>13 DEF Flood
      <3> QED
        BY <1>1, <1>2, <1>13, <3>1 DEF PassInv, FloodIsKept
    <2> QED
      BY <1>4, <1>13, <2>1, <2>2, <2>3, <2>4, <2>5 DEF PassInv
  <1>15. PassInv(r, time', hits', outbox')
    BY <1>1, <1>14 DEF dataVars
  <1> QED
    BY <1>1, <1>5, <1>15, OneMonitor

\* Products of numbers grow with them.
LEMMA ProductGrows ==
    ASSUME NEW a \in Nat, NEW b \in Nat, NEW c \in Nat, a <= b
    PROVE  /\ a * c \in Nat /\ b * c \in Nat /\ a * c <= b * c
           /\ c * a \in Nat /\ c * b \in Nat /\ c * a <= c * b
  <1>1. PICK d \in Nat : b = a + d
    <2>1. b - a \in Nat /\ b = a + (b - a)
      OBVIOUS
    <2> QED
      BY <2>1
  <1>2. /\ a * c \in Nat /\ d * c \in Nat /\ (a + d) * c = a * c + d * c
        /\ c * a = a * c /\ c * (a + d) = (a + d) * c
    BY <1>1, Z3
  <1> QED
    BY <1>1, <1>2

\* The hits of the minutes that overlap the baseline are those of the minutes
\* that overlap the window, and at most the hits before the window since the
\* minute in which the baseline starts.
LEMMA HitsBeforeWindow ==
    ASSUME NEW f \in [Times -> Nat], NEW now \in Times
    PROVE  /\ SumOf(f, InMinutes(now - Baseline, now)) \in Nat
           /\ SumOf(f, InMinutes(now - SpikeWindow, now)) \in Nat
           /\ Between(f, MinuteOf(now - Baseline) * Minute, now - SpikeWindow - 1) \in Nat
           /\ Between(f, now - SpikeWindow, now) \in Nat
           /\ SumOf(f, InMinutes(now - Baseline, now)) <=
                SumOf(f, InMinutes(now - SpikeWindow, now)) +
                Between(f, MinuteOf(now - Baseline) * Minute, now - SpikeWindow - 1)
           /\ Between(f, now - SpikeWindow, now) <= SumOf(f, InMinutes(now - SpikeWindow, now))
  <1> DEFINE bs == now - Baseline
             ws == now - SpikeWindow
             first == MinuteOf(bs) * Minute
             A == InMinutes(bs, now)
             B == InMinutes(ws, now)
             X == {t \in Times : first <= t /\ t <= ws - 1}
             W == {t \in Times : ws <= t /\ t <= now}
  <1>1. now \in Int /\ bs \in Int /\ ws \in Int /\ ws - 1 \in Int
    BY TimesHaveBuckets, WindowsAssumption
  <1> HIDE DEF bs, ws
  <1>2. /\ MinuteOf(now) \in Int /\ MinuteOf(bs) \in Int /\ MinuteOf(ws) \in Int /\ first \in Int
    BY <1>1, MinuteBounds
  <1>3. A \in SUBSET Times /\ B \in SUBSET Times /\ X \in SUBSET Times /\ W \in SUBSET Times
    BY DEF InMinutes
  <1>4. A \ B \subseteq X
    <2> SUFFICES ASSUME NEW t \in Times, MinuteOf(t) \in Minutes(bs, now), MinuteOf(t) \notin Minutes(ws, now)
                 PROVE  first <= t /\ t <= ws - 1
      BY DEF InMinutes
    <2>1. t \in Int /\ MinuteOf(t) \in Int /\ MinuteOf(t) * Minute \in Int /\ MinuteOf(t) * Minute <= t
      BY TimesHaveBuckets, MinuteBounds
    <2>2. MinuteOf(bs) <= MinuteOf(t) /\ MinuteOf(t) < MinuteOf(ws)
      BY <1>2, <2>1 DEF Minutes
    <2>3. ~(ws <= t)
      BY <1>1, <1>2, <2>1, <2>2, MinuteOrder
    <2>4. first <= MinuteOf(t) * Minute
      <3>1. CASE MinuteOf(bs) = MinuteOf(t)
        BY <2>1, <3>1
      <3>2. CASE MinuteOf(bs) < MinuteOf(t)
        <4>1. first + Minute <= MinuteOf(t) * Minute
          BY <1>2, <2>1, <3>2, MinutesApart
        <4> HIDE DEF first
        <4> QED
          BY <1>2, <2>1, <4>1, WindowsAssumption
      <3> QED
        BY <1>2, <2>1, <2>2, <3>1, <3>2
    <2> HIDE DEF first
    <2> QED
      BY <1>1, <1>2, <2>1, <2>3, <2>4
  <1>5. W \subseteq B
    <2> SUFFICES ASSUME NEW t \in Times, ws <= t, t <= now PROVE MinuteOf(t) \in Minutes(ws, now)
      BY DEF InMinutes
    <2>1. t \in Int
      BY TimesHaveBuckets
    <2>2. MinuteOf(t) \in Int /\ MinuteOf(ws) <= MinuteOf(t) /\ MinuteOf(t) <= MinuteOf(now)
      BY <1>1, <2>1, MinuteBounds, MinuteOrder
    <2> QED
      BY <1>2, <2>2 DEF Minutes
  <1>6. /\ Between(f, first, ws - 1) = SumOf(f, X) /\ Between(f, first, ws - 1) \in Nat
        /\ Between(f, ws, now) = SumOf(f, W) /\ Between(f, ws, now) \in Nat
    BY <1>1, <1>2, BetweenParts
  <1> HIDE DEF A, B, X, W, first
  <1>7. ASSUME NEW S \in SUBSET Times, NEW T \in SUBSET S
        PROVE  IsFiniteSet(S) /\ SumOf(f, S) \in Nat /\ SumOf(f, T) <= SumOf(f, S)
    <2>1. IsFiniteSet(S)
      BY TimesHaveBuckets, FS_Subset
    <2>2. \A t \in S : f[t] \in Nat /\ f[t] <= f[t]
      OBVIOUS
    <2> QED
      BY <2>1, <2>2, UnitsFinite, SumGrows
  <1> DEFINE Y == A \ B
  <1>8. Y \in SUBSET Times /\ Y \in SUBSET X /\ B \intersect Y = {} /\ A \in SUBSET (B \union Y) /\ B \union Y \in SUBSET Times
    BY <1>3, <1>4
  <1> HIDE DEF Y
  <1>9. SumOf(f, B \union Y) = SumOf(f, B) + SumOf(f, Y)
    <2>1. IsFiniteSet(B) /\ IsFiniteSet(Y)
      BY <1>3, <1>7, <1>8
    <2>2. \A t \in B \union Y : f[t] \in Nat
      BY <1>3, <1>8
    <2> QED
      BY <1>8, <2>1, <2>2, SumSplit
  <1>10. /\ SumOf(f, A) \in Nat /\ SumOf(f, B) \in Nat /\ SumOf(f, X) \in Nat /\ SumOf(f, Y) \in Nat
         /\ SumOf(f, A) <= SumOf(f, B \union Y) /\ SumOf(f, Y) <= SumOf(f, X) /\ SumOf(f, W) <= SumOf(f, B)
    BY <1>3, <1>5, <1>7, <1>8
  <1>11. /\ SumOf(f, A) \in Nat /\ SumOf(f, B) \in Nat /\ Between(f, first, ws - 1) \in Nat
         /\ Between(f, ws, now) \in Nat
         /\ SumOf(f, A) <= SumOf(f, B) + Between(f, first, ws - 1)
         /\ Between(f, ws, now) <= SumOf(f, B)
    BY <1>6, <1>9, <1>10
  <1> QED
    BY <1>11 DEF A, B, first, bs, ws

\* A flood that is read in one piece is a spike.
LEMMA FloodIsSpike ==
    ASSUME NEW m, NEW e \in Envelopes, IsPass(m), OwedIsThere(m, hits), Flood(m, hits, e),
           NEW f, f = hits[e], f \in [Times -> Nat],
           m.recent[e] = m.all[e] - m.older[e] + SumOf(f, InMinutes(m.now - SpikeWindow, m.now))
    PROVE  IsSpike(m.recent[e], m.all[e] + SumOf(f, InMinutes(m.now - Baseline, m.now)))
  <1> DEFINE now == m.now
             all == m.all[e]
             older == m.older[e]
             owed == m.owed[e]
             N == SumOf(f, InMinutes(now - Baseline, now))
             R == SumOf(f, InMinutes(now - SpikeWindow, now))
             X == Between(f, MinuteOf(now - Baseline) * Minute, now - SpikeWindow - 1)
             W == Between(f, now - SpikeWindow, now)
             q == Ratio * SpikeWindow
             c == Baseline - SpikeWindow
             recent == m.recent[e]
             baseline == all + N
             prior == IF baseline < recent THEN 0 ELSE baseline - recent
  <1>1. /\ N \in Nat /\ R \in Nat /\ X \in Nat /\ W \in Nat /\ N <= R + X /\ W <= R
    <2>1. now \in Times
      BY DEF IsPass
    <2> HIDE DEF now
    <2> QED
      BY <2>1, HitsBeforeWindow
  <1>2. /\ all \in Nat /\ older \in Nat /\ owed \in Nat /\ older <= all
        /\ owed <= all - older + W
    BY DEF IsPass, PerEnvelope, OwedIsThere
  <1>3. owed >= MinScans /\ owed * c >= q * (older + X)
    BY DEF Flood
  <1>4. recent = all - older + R
    OBVIOUS
  <1>5. c \in Nat /\ MinScans \in Nat /\ Ratio \in Nat /\ SpikeWindow \in Nat
    BY WindowsAssumption, ThresholdsAssumption
  <1>6. q \in Nat
    <2>1. \A a, b \in Nat : a * b \in Nat
      OBVIOUS
    <2> QED
      BY <1>5, <2>1
  <1>7. recent >= MinScans /\ recent * c >= q * prior
    <2> HIDE DEF all, older, owed, N, R, X, W, q, c, recent
    <2>1. recent \in Nat /\ owed <= recent /\ recent >= MinScans /\ baseline \in Nat
      BY <1>1, <1>2, <1>3, <1>4, <1>5
    <2>2. prior \in Nat /\ older + X \in Nat /\ prior <= older + X
      BY <1>1, <1>2, <1>4, <2>1
    <2> HIDE DEF baseline, prior
    <2>3. owed * c \in Nat /\ recent * c \in Nat /\ owed * c <= recent * c
      BY <1>2, <1>5, <2>1, ProductGrows
    <2> DEFINE limit == older + X
    <2>4. limit \in Nat /\ prior <= limit
      BY <2>2
    <2>5. owed * c >= q * limit
      BY <1>3
    <2> HIDE DEF limit
    <2>6. q * prior \in Nat /\ q * limit \in Nat /\ q * prior <= q * limit
      BY <1>6, <2>2, <2>4, ProductGrows
    <2> QED
      BY <2>1, <2>3, <2>5, <2>6
  <1> QED
    BY <1>7 DEF IsSpike

\* The second read of an envelope, and the verdict.
LEMMA ReadBaselineKeeps ==
    ASSUME AccountingInv, NEW p \in Replicas, ReadBaseline(p)
    PROVE  AccountingInv'
  <1> DEFINE m == monitor[p]
             e == m.env
  <1>1. m.pc = "baseline" /\ UNCHANGED <<time, outbox, dataVars>>
    BY DEF ReadBaseline
  <1>2. PassInv(m, time, hits, outbox) /\ AccountingTypeOK /\ RedisCounts /\ m.now \in Int /\ time \in Int
    BY <1>1, AtWork
  <1>3. PICK s \in {Redis, p} :
          monitor' = [monitor EXCEPT ![p] =
             [m EXCEPT !.pc = "recent", !.left = m.left \ {e}, !.torn = Torn(m, e, s),
                       !.spikes = IF IsSpike(m.recent[e], m.all[e] + CachedScanCount(s, e, m.now - Baseline, m.now))
                                  THEN m.spikes \union {e} ELSE m.spikes]]
    BY DEF ReadBaseline
  <1> DEFINE b == m.all[e] + CachedScanCount(s, e, m.now - Baseline, m.now)
             L == m.left \ {e}
             T == Torn(m, e, s)
             S == IF IsSpike(m.recent[e], b) THEN m.spikes \union {e} ELSE m.spikes
  <1>4. IsPass(m) /\ m.now <= time /\ OwedIsThere(m, hits)
    BY <1>2 DEF PassInv
  <1>5. PICK r : /\ r = [m EXCEPT !.pc = "recent", !.left = L, !.torn = T, !.spikes = S]
                 /\ monitor' = [monitor EXCEPT ![p] = r]
    BY <1>3, Zenon
  <1>6. /\ e \in m.left /\ e \in m.seen /\ e \in Envelopes /\ hits[e] \in [Times -> Nat]
        /\ m.spikes \subseteq S /\ S \subseteq m.seen
    <2>1. e \in m.left /\ e \in m.seen /\ e \in Envelopes
      BY <1>1, <1>2, <1>4 DEF PassInv, BetweenReads, IsPass
    <2> QED
      BY <1>2, <1>4, <2>1 DEF AccountingTypeOK, IsPass
  <1>7. Flood(m, hits, e) /\ e \notin T => e \in S
    <2> SUFFICES ASSUME Flood(m, hits, e), e \notin T PROVE IsSpike(m.recent[e], b)
      OBVIOUS
    <2>1. e \notin m.torn /\ s = Redis /\ time = m.now /\ m.counted = Total(hits[e])
      BY <1>1, TornCases
    <2>2. time - Baseline \in Int /\ time - Baseline <= time - Baseline
      BY <1>2, WindowsAssumption
    <2>3. CachedScanCount(Redis, e, time - Baseline, time) = SumOf(hits[e], InMinutes(time - Baseline, time))
      BY <1>2, <1>6, <2>2, RedisReadsHits
    <2>4. m.recent[e] = m.all[e] - m.older[e] + SumOf(hits[e], InMinutes(m.now - SpikeWindow, m.now))
      BY <1>1, <1>2, <2>1 DEF PassInv, BetweenReads
    <2>5. b = m.all[e] + SumOf(hits[e], InMinutes(m.now - Baseline, m.now))
      BY <2>1, <2>3
    <2> HIDE DEF m, e, b
    <2> QED
      BY <1>4, <1>6, <2>4, <2>5, FloodIsSpike
  <1>8. m.torn \subseteq T
    BY TornCases
  <1>9. /\ PassFields \subseteq DOMAIN r
        /\ r.pc = "recent" /\ r.left = L /\ r.torn = T /\ r.spikes = S
        /\ r.now = m.now /\ r.all = m.all /\ r.recent = m.recent /\ r.older = m.older
        /\ r.seen = m.seen /\ r.owed = m.owed
    <2>1. PassFields \subseteq DOMAIN m
      BY <1>4 DEF IsPass
    <2> HIDE DEF L, T, S, m, e
    <2> QED
      BY <1>5, <2>1 DEF PassFields
  <1>10. L \subseteq m.left /\ e \notin L /\ \A d : d \in m.left => d \in L \/ d = e
    OBVIOUS
  <1> HIDE DEF b, L, T, S, m
  <1>11. PassInv(r, time, hits, outbox)
    <2>1. IsPass(r)
      BY <1>4, <1>6, <1>9, <1>10 DEF IsPass
    <2>2. OwedIsThere(r, hits)
      BY <1>4, <1>9 DEF OwedIsThere
    <2>3. Unread(r)
      BY <1>1, <1>2, <1>9, <1>10 DEF PassInv, Unread
    <2>4. BetweenReads(r, hits)
      BY <1>9 DEF BetweenReads
    <2>5. FloodIsKept(r, hits, outbox)
      <3>1. \A d : Flood(r, hits, d) => Flood(m, hits, d) /\ d \notin T
        BY <1>8, <1>9 DEF Flood
      <3>2. \A d \in m.seen \ m.left : Flood(m, hits, d) => d \in m.spikes
        BY <1>1, <1>2 DEF PassInv, FloodIsKept
      <3>3. ASSUME NEW d \in m.seen, d \notin L, Flood(r, hits, d) PROVE d \in S
        BY <1>6, <1>7, <1>10, <3>1, <3>2, <3>3
      <3> QED
        BY <1>9, <3>3 DEF FloodIsKept
    <2> QED
      BY <1>4, <1>9, <2>1, <2>2, <2>3, <2>4, <2>5 DEF PassInv
  <1>12. PassInv(r, time', hits', outbox')
    BY <1>1, <1>11 DEF dataVars
  <1> QED
    BY <1>1, <1>5, <1>12, OneMonitor

\* The busiest spikes are kept: all of them, when the limit admits every envelope.
LEMMA KeepKeeps ==
    ASSUME AccountingInv, NEW p \in Replicas, Keep(p)
    PROVE  AccountingInv'
  <1> DEFINE m == monitor[p]
  <1>1. m.pc = "recent" /\ m.left = {} /\ UNCHANGED <<time, outbox, dataVars>>
    BY DEF Keep
  <1>2. PassInv(m, time, hits, outbox)
    BY <1>1, AtWork
  <1>3. IsPass(m) /\ m.now <= time /\ OwedIsThere(m, hits)
    BY <1>2 DEF PassInv
  <1>4. PICK C \in Top(m.spikes, m.recent, AlertLimit) :
          monitor' = [monitor EXCEPT ![p] = [m EXCEPT !.pc = "emit", !.left = C]]
    BY DEF Keep
  <1>5. PICK r : r = [m EXCEPT !.pc = "emit", !.left = C] /\ monitor' = [monitor EXCEPT ![p] = r]
    BY <1>4, Zenon
  <1> HIDE DEF m
  <1>6. m.spikes \in SUBSET Envelopes
    BY <1>3 DEF IsPass
  <1>7. C \subseteq m.spikes /\ (Cardinality(Envelopes) <= AlertLimit => C = m.spikes)
    BY <1>6, TopIsAll, ThresholdsAssumption
  <1>8. /\ PassFields \subseteq DOMAIN r
        /\ r.pc = "emit" /\ r.left = C /\ r.torn = m.torn /\ r.spikes = m.spikes
        /\ r.now = m.now /\ r.all = m.all /\ r.recent = m.recent /\ r.older = m.older
        /\ r.seen = m.seen /\ r.owed = m.owed
    <2>1. PassFields \subseteq DOMAIN m
      BY <1>3 DEF IsPass
    <2> QED
      BY <1>5, <2>1 DEF PassFields
  <1>9. PassInv(r, time, hits, outbox)
    <2>1. IsPass(r)
      BY <1>3, <1>7, <1>8 DEF IsPass
    <2>2. OwedIsThere(r, hits)
      BY <1>3, <1>8 DEF OwedIsThere
    <2>3. Unread(r) /\ BetweenReads(r, hits)
      BY <1>8 DEF Unread, BetweenReads
    <2>4. FloodIsKept(r, hits, outbox)
      <3>1. \A d : Flood(r, hits, d) => Flood(m, hits, d) /\ Cardinality(Envelopes) <= AlertLimit
        BY <1>8 DEF Flood
      <3>2. \A d \in m.seen : Flood(m, hits, d) => d \in m.spikes
        BY <1>1, <1>2 DEF PassInv, FloodIsKept
      <3> QED
        BY <1>7, <1>8, <3>1, <3>2 DEF FloodIsKept
    <2> QED
      BY <1>3, <1>8, <2>1, <2>2, <2>3, <2>4 DEF PassInv
  <1>10. PassInv(r, time', hits', outbox')
    BY <1>1, <1>9 DEF dataVars
  <1> QED
    BY <1>1, <1>5, <1>10, OneMonitor

\* One event is inserted, or the spike has no root program and is only logged.
LEMMA EmitKeeps ==
    ASSUME AccountingInv, NEW p \in Replicas, Emit(p)
    PROVE  AccountingInv'
  <1> DEFINE m == monitor[p]
  <1>1. m.pc = "emit" /\ UNCHANGED <<time, dataVars>>
    BY DEF Emit
  <1>2. PassInv(m, time, hits, outbox)
    BY <1>1, AtWork
  <1>3. IsPass(m) /\ m.now <= time /\ OwedIsThere(m, hits)
    BY <1>2 DEF PassInv
  <1>4. PICK e \in m.left :
          /\ outbox' = IF e \in Rooted THEN outbox \union {EventId(e, m.now)} ELSE outbox
          /\ monitor' = [monitor EXCEPT ![p] = [m EXCEPT !.left = m.left \ {e}]]
    BY DEF Emit
  <1>5. PICK r : r = [m EXCEPT !.left = m.left \ {e}] /\ monitor' = [monitor EXCEPT ![p] = r]
    BY <1>4, Zenon
  <1>6. outbox \subseteq outbox' /\ (e \in Rooted => EventId(e, m.now) \in outbox')
    BY <1>4
  <1> HIDE DEF m
  <1>7. /\ PassFields \subseteq DOMAIN r
        /\ r.pc = m.pc /\ r.left = m.left \ {e} /\ r.torn = m.torn /\ r.spikes = m.spikes
        /\ r.now = m.now /\ r.all = m.all /\ r.recent = m.recent /\ r.older = m.older
        /\ r.seen = m.seen /\ r.owed = m.owed
    <2>1. PassFields \subseteq DOMAIN m
      BY <1>3 DEF IsPass
    <2> QED
      BY <1>5, <2>1 DEF PassFields
  <1>8. PassInv(r, time, hits, outbox')
    <2>1. IsPass(r)
      BY <1>3, <1>7 DEF IsPass
    <2>2. OwedIsThere(r, hits)
      BY <1>3, <1>7 DEF OwedIsThere
    <2>3. Unread(r) /\ BetweenReads(r, hits)
      BY <1>1, <1>7 DEF Unread, BetweenReads
    <2>4. FloodIsKept(r, hits, outbox')
      <3>1. \A d : Flood(r, hits, d) => Flood(m, hits, d)
        BY <1>7 DEF Flood
      <3>2. \A d \in m.seen \intersect Rooted :
              Flood(m, hits, d) => d \in m.left \/ EventId(d, m.now) \in outbox
        BY <1>1, <1>2 DEF PassInv, FloodIsKept
      <3>3. ASSUME NEW d \in m.seen \intersect Rooted, Flood(r, hits, d)
            PROVE  d \in r.left \/ EventId(d, r.now) \in outbox'
        BY <1>6, <1>7, <3>1, <3>2, <3>3
      <3> QED
        BY <1>1, <1>7, <3>3 DEF FloodIsKept
    <2> QED
      BY <1>3, <1>7, <2>1, <2>2, <2>3, <2>4 DEF PassInv
  <1>9. PassInv(r, time', hits', outbox')
    BY <1>1, <1>8 DEF dataVars
  <1> QED
    BY <1>1, <1>5, <1>6, <1>9, OneMonitor

\* A pass ends or is given up.
LEMMA PassEnds ==
    ASSUME AccountingInv, NEW p \in Replicas, Sleep(p) \/ PassFails(p)
    PROVE  AccountingInv'
  <1>1. /\ monitor' = [monitor EXCEPT ![p] = Asleep]
        /\ UNCHANGED <<time, dataVars>> /\ outbox \subseteq outbox'
    BY DEF Sleep, PassFails
  <1> QED
    BY <1>1, OneMonitor

\* In the beginning nothing is counted.
LEMMA AccountingStarts == AccountingInit => AccountingInv
  <1> SUFFICES ASSUME AccountingInit PROVE AccountingInv
    OBVIOUS
  <1>1. 0 \in Times
    BY WindowsAssumption DEF Times
  <1>2. AccountingTypeOK
    BY <1>1, EnvelopesAssumption
       DEF AccountingInit, AccountingTypeOK, PerTime, AllMinutes, NoCount, NoEnd
  <1>3. ASSUME NEW m PROVE SumOf([t \in Times |-> 0], TimesOf(m)) = 0
    <2>1. Units([t \in Times |-> 0], TimesOf(m)) = {}
      BY DEF Units, TimesOf
    <2> QED
      BY <2>1, FS_EmptySet DEF SumOf
  <1>4. RedisCounts
    <2> SUFFICES ASSUME NEW e \in Envelopes, NEW m \in AllMinutes
                 PROVE  /\ rate[Redis][e][m].count = SumOf(hits[e], TimesOf(m))
                        /\ rate[Redis][e][m].until = NoEnd
      BY DEF RedisCounts
    <2>1. rate[Redis][e][m] = NoCount
      BY DEF AccountingInit, Stores, AllMinutes
    <2>2. hits[e] = [t \in Times |-> 0]
      BY DEF AccountingInit, PerTime
    <2> QED
      BY <1>3, <2>1, <2>2 DEF NoCount
  <1>5. Monitors
    BY DEF AccountingInit, Monitors
  <1> QED
    BY <1>2, <1>4, <1>5 DEF AccountingInv

\* Every step of the scanner and of the monitors keeps the invariant.
LEMMA AccountingStep == AccountingInv /\ [AccountingNext]_accountingVars => AccountingInv'
  <1> SUFFICES ASSUME AccountingInv, [AccountingNext]_accountingVars PROVE AccountingInv'
    OBVIOUS
  <1>1. CASE AccountingTick
    BY <1>1, TickKeeps
  <1>2. CASE \E e \in Envelopes : Compute(e) \/ CachedScan(e)
    BY <1>2, ScanKeeps
  <1>3. CASE \E d \in pending : WriteRow(d) \/ RowFails(d)
    BY <1>3, EvidenceKeeps
  <1>4. CASE \E p \in Replicas, e \in Envelopes : CachedScanFailsOver(p, e)
    BY <1>4, ScanKeeps
  <1>5. ASSUME NEW p \in Replicas,
               Fetch(p) \/ ReadRecent(p) \/ ReadBaseline(p) \/ Keep(p) \/ Emit(p) \/ Sleep(p) \/ PassFails(p)
        PROVE  AccountingInv'
    BY <1>5, FetchKeeps, ReadRecentKeeps, ReadBaselineKeeps, KeepKeeps, EmitKeeps, PassEnds
  <1>6. CASE UNCHANGED accountingVars
    <2>1. \A m : PassInv(m, time, hits, outbox) => PassInv(m, time', hits', outbox')
      BY <1>6 DEF accountingVars
    <2>2. Monitors'
      BY <1>6, <2>1 DEF AccountingInv, Monitors, accountingVars
    <2>3. AccountingTypeOK'
      BY <1>6 DEF AccountingInv, AccountingTypeOK, accountingVars
    <2>4. RedisCounts'
      BY <1>6 DEF AccountingInv, RedisCounts, accountingVars
    <2> QED
      BY <2>2, <2>3, <2>4 DEF AccountingInv
  <1> QED
    BY <1>1, <1>2, <1>3, <1>4, <1>5, <1>6 DEF AccountingNext

\* In every state of the scanner's accounting.
LEMMA AccountingInvariant == AccountingSpec => []AccountingInv
  BY AccountingStarts, AccountingStep, PTL DEF AccountingSpec

\* FloodIsAlerted: a finished pass that read an envelope's counts from Redis and
\* in one piece has reported its flood, or another replica has. A bucket of Redis
\* lasts a whole baseline after its minute, so that the two reads of the pass see
\* every cached scan of the minutes they overlap; what the first read sees too
\* much, in the minute in which the window starts, it takes from the baseline.
THEOREM FloodAlwaysAlerted == AccountingSpec => []FloodIsAlerted
  <1>1. AccountingInv => FloodIsAlerted
    <2> SUFFICES ASSUME AccountingInv, NEW p \in Replicas, monitor[p] # Asleep, Finished(monitor[p]),
                        NEW e \in monitor[p].seen \intersect Rooted, Flood(monitor[p], hits, e)
                 PROVE  EventId(e, monitor[p].now) \in outbox
      <3>1. ASSUME NEW p \in Replicas, NEW e \in Envelopes,
                   LET m == monitor[p]
                       before == [d \in Envelopes |-> m.older[d] +
                          Between(hits[d], MinuteOf(m.now - Baseline) * Minute, m.now - SpikeWindow - 1)]
                   IN  /\ e \notin m.torn
                       /\ Cardinality(Envelopes) <= CandidateLimit /\ Cardinality(Envelopes) <= AlertLimit
                       /\ m.owed[e] >= MinScans
                       /\ m.owed[e] * (Baseline - SpikeWindow) >= Ratio * SpikeWindow * before[e]
            PROVE  Flood(monitor[p], hits, e)
        BY <3>1 DEF Flood
      <3>2. AccountingInv => \A p \in Replicas : monitor[p] # Asleep => monitor[p].seen \subseteq Envelopes
        BY DEF AccountingInv, Monitors, PassInv, IsPass
      <3> QED
        BY <3>1, <3>2 DEF FloodIsAlerted
    <2>1. PassInv(monitor[p], time, hits, outbox)
      BY DEF AccountingInv, Monitors
    <2> QED
      BY <2>1 DEF PassInv, FloodIsKept, Finished
  <1> QED
    BY <1>1, AccountingInvariant, PTL
=============================================================================
