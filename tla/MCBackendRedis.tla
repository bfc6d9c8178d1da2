--------------------------- MODULE MCBackendRedis ---------------------------
(***************************************************************************)
(* What the backend keeps in Redis and in its processes' fallbacks, on     *)
(* small instances: verdicts, request counters and counts of cached scans. *)
(* The three families of keys are written by calls of their own that may   *)
(* each fail, and no call reads another family's keys, so a behaviour of   *)
(* one family is that of the whole in which the others rest: a run         *)
(* explores each of them in full and by itself.                            *)
(***************************************************************************)
EXTENDS VerdictCache, RateLimiter, ScanAccounting, TLC

CONSTANTS r1, r2, r3, p1, p2, q1

VARIABLE family     \* the keys that are in use

\* Which process would serve a request of a family at rest is of no account.
RedisInit ==
    /\ family \in {"verdicts", "requests", "scans"}
    /\ Init /\ LimiterInit /\ AccountingInit
    /\ family # "verdicts" => home = [s \in Scans |-> p1]

\* The monitor's last pass may end before the bound of the clock; the other two
\* families stop in states of their own.
RedisNext ==
    /\ UNCHANGED family
    /\ \/ family = "verdicts" /\ Next /\ UNCHANGED <<limiterVars, accountingVars>>
       \/ family = "requests" /\ LimiterNext /\ UNCHANGED <<vars, accountingVars>>
       \/ family = "scans" /\ AccountingNext /\ UNCHANGED <<vars, limiterVars>>
       \/ family = "scans" /\ UNCHANGED <<vars, limiterVars, accountingVars>>

RedisSpec == RedisInit /\ [][RedisNext]_<<family, vars, limiterVars, accountingVars>>

-----------------------------------------------------------------------------
\* A record that ends at tick 3 and its revoked successor.
RecordBoundaries == 1 :> 3 @@ 2 :> 3

MCProcesses == {p1, p2}
MCRequests == {r1, r2, r3}
MCServers == {q1}

\* Processes are interchangeable, and so are requests.
Symmetry == Permutations(MCProcesses) \union Permutations(MCRequests)
=============================================================================
