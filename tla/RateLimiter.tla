---------------------------- MODULE RateLimiter ----------------------------
(***************************************************************************)
(* RequestRateLimiter.check for one key (a client, an envelope or an       *)
(* issuer): a counter per fixed window in Redis, shared by the verifier    *)
(* processes, and a sliding window in each process that answers whenever a *)
(* call to Redis fails. A call to Redis may fail before it is executed, or *)
(* be executed and lose its reply; the limiter then starts over in the     *)
(* fallback and leaves in Redis what is there.                             *)
(*                                                                         *)
(* Time is counted in ticks, Second of them to the second. A request reads *)
(* the clock once and names its window by that reading, however late its   *)
(* increment arrives; Delay bounds how late.                               *)
(***************************************************************************)
EXTENDS Integers, FiniteSets

CONSTANTS
    Requests,    \* the requests made for the key
    Servers,   \* verifier processes
    Limit,       \* requests allowed in a window
    Window,      \* window_seconds
    Second,      \* ticks of a second
    Delay,       \* ticks from a request's reading of the clock to its last call to Redis
    MaxLimiterTime      \* bound: the clock

ASSUME LimitAssumption == Limit \in Nat
ASSUME WindowAssumption == Window \in Nat \ {0} /\ Second \in Nat \ {0}
ASSUME DelayAssumption == Delay \in Nat /\ MaxLimiterTime \in Nat

VARIABLES
    limiterClock,
    counter,   \* the counter of each window in Redis: its count and its expiry
    bucket,    \* the fallback of each process: the requests whose stamps its deque holds
    step,
    server,      \* the process that serves a request
    began,     \* its reading of the clock
    number,    \* the count its increment returned
    by,        \* who decided it, "redis" or "fallback"
    ended,     \* when it was decided
    retry      \* the Retry-After it was refused with

requestVars == <<step, server, began, number, by, ended, retry>>
limiterVars == <<limiterClock, counter, bucket, step, server, began, number, by, ended, retry>>

Never == -1   \* the expiry of a key that has none
NoKey == [count |-> 0, until |-> Never]

\* int(time.time()) // window_seconds.
WindowOf(t) == (t \div Second) \div Window

Windows == 0..WindowOf(MaxLimiterTime)

LimiterInit ==
    /\ limiterClock = 0
    /\ counter = [w \in Windows |-> NoKey]
    /\ bucket = [p \in Servers |-> {}]
    /\ step = [r \in Requests |-> "idle"]
    /\ server \in [Requests -> Servers]
    /\ began = [r \in Requests |-> 0]
    /\ number = [r \in Requests |-> 0]
    /\ by = [r \in Requests |-> "none"]
    /\ ended = [r \in Requests |-> 0]
    /\ retry = [r \in Requests |-> 0]

-----------------------------------------------------------------------------
InRedis == {"incr", "expire", "ttl"}

\* Redis drops a key whose time has come.
KeptCounter(k) == IF k.until # Never /\ k.until <= limiterClock + 1 THEN NoKey ELSE k

LimiterTick ==
    /\ limiterClock < MaxLimiterTime
    /\ \A r \in Requests : step[r] \in InRedis => limiterClock < began[r] + Delay
    /\ limiterClock' = limiterClock + 1
    /\ counter' = [w \in Windows |-> KeptCounter(counter[w])]
    /\ UNCHANGED <<bucket, requestVars>>

Decide(r, outcome, who, seconds) ==
    /\ step' = [step EXCEPT ![r] = outcome]
    /\ by' = [by EXCEPT ![r] = who]
    /\ ended' = [ended EXCEPT ![r] = limiterClock]
    /\ retry' = [retry EXCEPT ![r] = seconds]

Goto(r, label) ==
    /\ step' = [step EXCEPT ![r] = label]
    /\ UNCHANGED <<by, ended, retry>>

\* A limit of zero refuses without a call.
BeginRequest(r) ==
    /\ step[r] = "idle"
    /\ began' = [began EXCEPT ![r] = limiterClock]
    /\ IF Limit = 0 THEN Decide(r, "refused", "none", Window) ELSE Goto(r, "incr")
    /\ UNCHANGED <<limiterClock, counter, bucket, server, number>>

Key(r) == counter[WindowOf(began[r])]
SetKey(r, k) == counter' = [counter EXCEPT ![WindowOf(began[r])] = k]

Incremented(r) == [Key(r) EXCEPT !.count = @ + 1]

\* incr: the first of a window also owes the key its expiry.
Incr(r) ==
    /\ step[r] = "incr"
    /\ SetKey(r, Incremented(r))
    /\ number' = [number EXCEPT ![r] = Incremented(r).count]
    /\ IF Key(r).count = 0 THEN Goto(r, "expire")
       ELSE IF Incremented(r).count <= Limit THEN Decide(r, "allowed", "redis", 0)
       ELSE Goto(r, "ttl")
    /\ UNCHANGED <<limiterClock, bucket, server, began>>

\* Mutant: the key lives for the window and no second longer.
ExpiryOfWindow == limiterClock + Window * Second

\* expire(window_key, window_seconds + 1).
Expiry == limiterClock + (Window + 1) * Second

WithExpiry(r) == IF Key(r).count = 0 THEN Key(r) ELSE [Key(r) EXCEPT !.until = Expiry]

Expire(r) ==
    /\ step[r] = "expire"
    /\ SetKey(r, WithExpiry(r))
    /\ Decide(r, "allowed", "redis", 0)
    /\ UNCHANGED <<limiterClock, bucket, server, began, number>>

\* What Redis reports, in seconds rounded to the nearest: -2 without a key, -1
\* without an expiry.
TimeToLive(k) ==
    IF k.count = 0 THEN -2
    ELSE IF k.until = Never THEN -1
    ELSE (2 * (k.until - limiterClock) + Second) \div (2 * Second)

\* Mutant: any time to live is passed on.
AnyTTL(k) == TimeToLive(k)

RetryAfter(k) == IF TimeToLive(k) > 0 THEN TimeToLive(k) ELSE Window

Ttl(r) ==
    /\ step[r] = "ttl"
    /\ Decide(r, "refused", "redis", RetryAfter(Key(r)))
    /\ UNCHANGED <<limiterClock, counter, bucket, server, began, number>>

\* There is no client, or the call fails and nothing was executed.
RedisFails(r) ==
    /\ step[r] \in InRedis
    /\ Goto(r, "fallback")
    /\ UNCHANGED <<limiterClock, counter, bucket, server, began, number>>

\* The call was executed and its reply is lost.
ReplyLost(r) ==
    /\ \/ step[r] = "incr" /\ SetKey(r, Incremented(r))
       \/ step[r] = "expire" /\ SetKey(r, WithExpiry(r))
    /\ Goto(r, "fallback")
    /\ UNCHANGED <<limiterClock, bucket, server, began, number>>

\* A stamp is the time of its request's decision. Stamps are appended in the order of
\* a monotonic clock, so that taking the old ones from the left leaves the recent ones.
Recent(b) == {q \in b : ended[q] > limiterClock - Window * Second}

\* bucket[0], of a bucket with a stamp.
Oldest(b) == CHOOSE q \in b : \A o \in b : ended[q] <= ended[o]

\* ceil(window_seconds - (now - bucket[0])), at least 1.
WaitFor(stamp) ==
    LET left == stamp + Window * Second - limiterClock
    IN  IF left <= Second THEN 1 ELSE (left + Second - 1) \div Second

\* InMemoryRequestRateLimiter.check: its lock is never held across an await.
Fallback(r) ==
    LET b == Recent(bucket[server[r]])
    IN  /\ step[r] = "fallback"
        /\ IF Cardinality(b) >= Limit
           THEN /\ Decide(r, "refused", "fallback", WaitFor(ended[Oldest(b)]))
                /\ bucket' = [bucket EXCEPT ![server[r]] = b]
           ELSE /\ Decide(r, "allowed", "fallback", 0)
                /\ bucket' = [bucket EXCEPT ![server[r]] = b \union {r}]
        /\ UNCHANGED <<limiterClock, counter, server, began, number>>

RequestStep(r) ==
    \/ BeginRequest(r)
    \/ Incr(r)
    \/ Expire(r)
    \/ Ttl(r)
    \/ RedisFails(r)
    \/ ReplyLost(r)
    \/ Fallback(r)

\* A clock at its bound and every request decided.
Decided ==
    /\ limiterClock = MaxLimiterTime
    /\ \A r \in Requests : step[r] \in {"allowed", "refused"}
    /\ UNCHANGED limiterVars

LimiterNext ==
    \/ LimiterTick
    \/ \E r \in Requests : RequestStep(r)
    \/ Decided

LimiterSpec == LimiterInit /\ [][LimiterNext]_limiterVars

-----------------------------------------------------------------------------
\* Types of the state.
LimiterTypeOK ==
    /\ limiterClock \in 0..MaxLimiterTime
    /\ counter \in [Windows -> [count : Nat, until : Nat \union {Never}]]
    /\ bucket \in [Servers -> SUBSET Requests]
    /\ step \in [Requests -> {"idle", "incr", "expire", "ttl", "fallback", "allowed", "refused"}]
    /\ server \in [Requests -> Servers]
    /\ began \in [Requests -> 0..MaxLimiterTime]
    /\ number \in [Requests -> Nat]
    /\ by \in [Requests -> {"none", "redis", "fallback"}]
    /\ ended \in [Requests -> 0..MaxLimiterTime]
    /\ retry \in [Requests -> Nat]

\* The requests Redis allowed in window w.
AllowedInWindow(w) ==
    {r \in Requests : step[r] = "allowed" /\ by[r] = "redis" /\ WindowOf(began[r]) = w}

\* The requests the fallback of p allowed in the Window seconds up to t.
AllowedBy(p, t) ==
    {r \in Requests : /\ step[r] = "allowed" /\ by[r] = "fallback" /\ server[r] = p
                      /\ ended[r] <= t /\ ended[r] > t - Window * Second}

\* The budget of a window is spent once. No interleaving of increments, late
\* ones, expiries and failures makes Redis allow more than Limit requests of a
\* window: where a request is decided within a second of reading the clock, the
\* counter of its window is still there.
BudgetHolds ==
    Delay <= Second => \A w \in Windows : Cardinality(AllowedInWindow(w)) <= Limit

\* Retry-After is long enough: when it has passed, the window that refused the
\* request is over, or the fallback has dropped one of the requests that filled
\* it, also when the counter has no expiry or is gone when its time to live is
\* asked for.
RetryAfterSuffices ==
    \A r \in Requests : step[r] = "refused" /\ Limit > 0 =>
        LET later == ended[r] + retry[r] * Second
        IN  /\ retry[r] \in 1..(Window + 1)
            /\ by[r] = "redis" => WindowOf(later) > WindowOf(began[r])
            /\ by[r] = "fallback" =>
                  Cardinality({q \in AllowedBy(server[r], ended[r]) :
                                  ended[q] > later - Window * Second}) < Limit

\* Every counter is given an expiry. It does not hold: a failed expire leaves
\* the counter of its window in Redis for good.
CountersExpire ==
    \A w \in Windows : counter[w].count > 0 /\ counter[w].until = Never =>
        \E r \in Requests : step[r] = "expire" /\ WindowOf(began[r]) = w
=============================================================================
