------------------------ MODULE VerifierCacheProofs ------------------------
(***************************************************************************)
(* The scanner's decision, the stores it is made from and the workers that *)
(* materialize rows, for any policies, requests, rows, providers, keys,    *)
(* artifacts, items and workers.                                           *)
(*                                                                         *)
(* The decision: a request's row is the first one of its snapshot, in the  *)
(* order of the cache query, that may answer for its host (AnswersFirst),  *)
(* and a green decision has gone through every check of that row with      *)
(* nothing found (GreenIsBound). The order of the query is total because   *)
(* rows are created one after the other, and finitely many rows have a     *)
(* first one: a smallest set of rows without a first one cannot exist.     *)
(*                                                                         *)
(* The stores: a row says nothing of an issuer or a destination that the   *)
(* maps in memory do not say for at least as long (RowsWithinMemory), it   *)
(* grants nothing that synced manifests do not (RowsFollowManifests), and  *)
(* a manifest that a revoked authority still owes grants it nothing in     *)
(* memory (OwedIsOut). What a synced manifest grants that is not owed      *)
(* memory grants as well (MemoryFollowsManifests).                         *)
(*                                                                         *)
(* The workers: a worker at work has seen everything that is in force      *)
(* (SeenInForce), and what it has fetched for the materializer is among    *)
(* that (FetchedIsSeen), although it was fetched in five queries.          *)
(***************************************************************************)
EXTENDS ScannerDecision, VerifierCacheStores, ReadModelQueue, FiniteSetTheorems,
        WellFoundedInduction, TLAPS

-----------------------------------------------------------------------------
(* The scanner decision *)

\* What is true of a row once a worker has written it.
RowOK(r) ==
    /\ r # NoRow
    /\ r.generated \in Nat /\ r.expires \in Nat /\ r.created \in Nat
    /\ \A resolver \in r.redirect.resolvers :
            resolver = [host |-> resolver.host, path |-> resolver.path]

\* No two rows were created at the same time, and there are finitely many: the order
\* of the cache query is total and has a first row.
Ordered(seen) ==
    /\ IsFiniteSet(seen)
    /\ \A r \in seen : RowOK(r)
    /\ \A r, t \in seen : r # t => r.created # t.created

\* Rows are created one after the other.
TableInv ==
    /\ table = [p \in Policies |-> table[p]]
    /\ writes \in Nat
    /\ Ordered(Rows)
    /\ \A p \in Policies : table[p] # NoRow => table[p].policy = p /\ table[p].created < writes
    /\ \A p, q \in Policies :
        p # q /\ table[p] # NoRow /\ table[q] # NoRow => table[p].created # table[q].created

\* A row of rows that may answer for the host.
MayAnswer(r, host) == Visible(r) /\ AcceptsRoot(AcceptedRoots, r) /\ PolicyAllowsLookupHost(r, host)

\* The row of a request is the first one it read that may answer for its host.
AnswersFirst(q, seen) ==
    q.row # NoRow =>
        /\ q.row \in seen
        /\ MayAnswer(q.row, LookupHost(q.url, q.hint))
        /\ \A t \in seen \ {q.row} : MayAnswer(t, LookupHost(q.url, q.hint)) => Before(q.row, t)

\* A green decision was made of a bound URL and a fresh row, with nothing found.
GreenIsBound(q) ==
    q.decision.color = "green" =>
        /\ NeedsRuntime(q.row, q.url, q.observed)
        /\ q.decision.policy = q.row.policy /\ q.decision.risk = 0

ScanShape(q) ==
    q = [phase |-> q.phase, url |-> q.url, hint |-> q.hint, observed |-> q.observed, row |-> q.row,
         decision |-> q.decision]

RequestInv(q, seen) ==
    /\ ScanShape(q)
    /\ q.observed \in Nat
    /\ Ordered(seen)
    /\ q.phase \in {"none", "load"} => q.row = NoRow /\ q.decision = NoDecision
    /\ q.phase = "inspect" => NeedsRuntime(q.row, q.url, q.observed)
    /\ AnswersFirst(q, seen)
    /\ GreenIsBound(q)

ScanInv ==
    /\ TableInv
    /\ provider \in Providers
    /\ DOMAIN scan = Scans /\ scan = [s \in Scans |-> scan[s]]
    /\ DOMAIN read = Scans /\ read = [s \in Scans |-> read[s]]
    /\ \A s \in Scans : RequestInv(scan[s], read[s])

-----------------------------------------------------------------------------
\* Rows with different times of creation are ordered one way or the other.
LEMMA BeforeTotal ==
    ASSUME NEW r, NEW t, r.expires \in Nat, t.expires \in Nat, r.created \in Nat, t.created \in Nat,
           r.created # t.created, ~Before(r, t)
    PROVE  Before(t, r)
  BY DEF Before

\* Among finitely many rows of different creation times one comes before all others.
\* The proof takes a smallest set of rows without a first one and removes a row.
LEMMA FirstRow ==
    ASSUME NEW M, Ordered(M), M # {}
    PROVE  \E r \in M : \A t \in M \ {r} : Before(r, t)
<1> DEFINE First(X) == \E r \in X : \A t \in X \ {r} : Before(r, t)
           Bad == {X \in SUBSET M : X # {} /\ ~First(X)}
<1> SUFFICES ASSUME Bad # {} PROVE FALSE
  OBVIOUS
<1>1. IsWellFoundedOn(StrictSubsetOrdering(M), SUBSET M)
  BY FS_StrictSubsetOrderingWellFounded, FS_FiniteSubsetsOfFinite DEF Ordered
<1>2. PICK X \in Bad : \A Y \in Bad : ~(<<Y, X>> \in StrictSubsetOrdering(M))
  <2>1. Bad \subseteq SUBSET M
    OBVIOUS
  <2> HIDE DEF Bad
  <2> QED
    BY <1>1, <2>1, WFMin
<1>3. PICK r \in X : TRUE
  OBVIOUS
<1>4. X \in SUBSET M /\ ~First(X)
  OBVIOUS
<1>5. CASE X \ {r} = {}
  BY <1>3, <1>4, <1>5
<1>6. CASE X \ {r} # {}
  <2>1. <<X \ {r}, X>> \in StrictSubsetOrdering(M)
    BY <1>3, <1>4 DEF StrictSubsetOrdering
  <2>2. First(X \ {r})
    BY <1>2, <1>4, <1>6, <2>1
  <2>3. PICK b \in X \ {r} : \A t \in (X \ {r}) \ {b} : Before(b, t)
    BY <2>2
  <2>4. /\ \A t \in X : t.expires \in Nat /\ t.created \in Nat
        /\ b.expires \in Nat /\ b.created \in Nat /\ r.expires \in Nat /\ r.created \in Nat
        /\ b.created # r.created
    BY <1>3, <1>4, <2>3 DEF Ordered, RowOK
  <2>5. CASE Before(b, r)
    BY <1>4, <2>3, <2>5
  <2>6. CASE ~Before(b, r)
    <3>1. Before(r, b)
      BY <2>4, <2>6, BeforeTotal
    <3>2. \A t \in X \ {r} : Before(r, t)
      BY <1>3, <2>3, <2>4, <3>1 DEF Before
    <3> QED
      BY <1>3, <1>4, <3>2
  <2> QED
    BY <2>5, <2>6
<1> QED
  BY <1>5, <1>6

\* Some of the rows of an ordered set are ordered.
LEMMA OrderedSubset == ASSUME NEW M, Ordered(M), NEW X \in SUBSET M PROVE Ordered(X)
<1>1. IsFiniteSet(X)
  BY FS_Subset DEF Ordered
<1> QED
  BY <1>1 DEF Ordered

\* findPolicyMatch over what loadCache keeps of the rows, or over the empty cache of a
\* failed query.
LEMMA MatchIsFirst ==
    ASSUME NEW seen, Ordered(seen), NEW host, NEW cache \in {LoadCache(seen), {}},
           NEW row, row = FindPolicyMatch(cache, AcceptedRoots, host), row # NoRow
    PROVE  /\ row \in seen /\ MayAnswer(row, host)
           /\ \A t \in seen \ {row} : MayAnswer(t, host) => Before(row, t)
<1> DEFINE matching == {r \in cache : AcceptsRoot(AcceptedRoots, r) /\ PolicyAllowsLookupHost(r, host)}
<1>1. cache = {r \in seen : Visible(r)} \/ cache = {}
  BY DEF LoadCache
<1>2. matching # {} /\ row = CHOOSE r \in matching : \A s \in matching \ {r} : Before(r, s)
  BY DEF FindPolicyMatch
<1>3. matching = {r \in seen : MayAnswer(r, host)}
  BY <1>1, <1>2 DEF MayAnswer
<1>4. Ordered(matching)
  <2> HIDE DEF matching
  <2> QED
    BY <1>3, OrderedSubset
<1>5. row \in matching /\ \A s \in matching \ {row} : Before(row, s)
  <2> HIDE DEF matching
  <2> QED
    BY <1>2, <1>4, FirstRow
<1> QED
  BY <1>3, <1>5

-----------------------------------------------------------------------------
\* Runtime safety: nothing is found only with a score of nothing.
LEMMA SignalParts == \A st, d : Signal(st, d).status = st /\ Signal(st, d).delta = d
  BY DEF Signal

\* The deterministic provider adds no risk without a finding.
LEMMA DeterministicClear ==
    ASSUME NEW lists, NEW mode, NEW host,
           DeterministicVerdict(lists, mode, host).status \notin {"blocked", "risky", "unavailable"}
    PROVE  DeterministicVerdict(lists, mode, host).delta = 0
  BY SignalParts DEF DeterministicVerdict

\* The redirect signal has a status, and no risk when it is clear.
LEMMA RedirectParts ==
    ASSUME NEW lists, NEW url, NEW via
    PROVE  LET signal == RedirectSignal(lists, url, via)
           IN  signal.status \in RuntimeStatuses /\ (signal.status = "clear" => signal.delta = 0)
  BY SignalParts DEF RedirectSignal, RuntimeStatuses

\* So has the reputation signal.
LEMMA ReputationParts ==
    ASSUME NEW lists, NEW tlds, NEW host
    PROVE  LET signal == ReputationSignal(lists, tlds, host)
           IN  signal.status \in RuntimeStatuses /\ (signal.status = "clear" => signal.delta = 0)
  BY SignalParts DEF ReputationSignal, RuntimeStatuses

\* Two signals merge into one without risk when neither finds anything.
LEMMA MergedClear ==
    ASSUME NEW a, NEW b, a.status \in RuntimeStatuses, b.status \in RuntimeStatuses,
           a.status = "clear" => a.delta = 0, b.status = "clear" => b.delta = 0,
           MergeSignals(a, b).status \notin {"blocked", "risky", "unavailable"}
    PROVE  MergeSignals(a, b).delta = 0
<1>1. MergedStatus({a.status, b.status}) \notin {"blocked", "risky", "unavailable"}
  BY SignalParts DEF MergeSignals
<1>2. a.status = "clear" /\ b.status = "clear"
  BY <1>1 DEF MergedStatus, RuntimeStatuses
<1> QED
  BY <1>2, SignalParts DEF MergeSignals

\* Whatever provider is configured, no finding means no risk.
LEMMA InspectClear ==
    ASSUME NEW p \in Providers, NEW url, NEW via,
           Inspect(p, Lists, Tlds, url, via).status \notin {"blocked", "risky", "unavailable"}
    PROVE  Inspect(p, Lists, Tlds, url, via).delta = 0
<1> DEFINE effective == EffectiveUrl(url, via)
           first == RedirectSignal(Lists, url, via)
           second == ReputationSignal(Lists, Tlds, effective.host)
<1>1. /\ p = "clear" => Inspect(p, Lists, Tlds, url, via) = Signal("clear", 0)
      /\ p = "deterministic" => Inspect(p, Lists, Tlds, url, via) =
                                    DeterministicVerdict(Lists, effective.mode, effective.host)
      /\ p = "composite" => Inspect(p, Lists, Tlds, url, via) = MergeSignals(first, second)
  BY Zenon DEF Inspect
<1>2. p \in {"clear", "deterministic", "composite"}
  BY ProvidersAssumption
<1>3. /\ first.status \in RuntimeStatuses /\ (first.status = "clear" => first.delta = 0)
      /\ second.status \in RuntimeStatuses /\ (second.status = "clear" => second.delta = 0)
  BY RedirectParts, ReputationParts
<1> HIDE DEF first, second, effective
<1>4. CASE p = "clear"
  BY <1>1, <1>4, SignalParts
<1>5. CASE p = "deterministic"
  BY <1>1, <1>5, DeterministicClear
<1>6. CASE p = "composite"
  BY <1>1, <1>3, <1>6, MergedClear
<1> QED
  BY <1>2, <1>4, <1>5, <1>6

\* makeRuntimeAwareBoundDecision: green is for a clear verdict.
LEMMA GreenNeedsClear ==
    ASSUME NEW row, NEW verdict, RuntimeAwareBoundDecision(row, verdict).color = "green"
    PROVE  /\ RuntimeAwareBoundDecision(row, verdict).policy = row.policy
           /\ RuntimeAwareBoundDecision(row, verdict).risk = verdict.delta
           /\ verdict.status \notin {"blocked", "risky", "unavailable"}
<1> DEFINE d == RuntimeAwareBoundDecision(row, verdict)
<1>1. /\ verdict.status = "blocked" => d = RedRuntimeBlockedDecision(row, verdict)
      /\ verdict.status \in {"risky", "unavailable"} => d = OrangeRuntimeCautionDecision(row, verdict)
      /\ verdict.status \notin {"blocked", "risky", "unavailable"} => d = GreenDecision(row, verdict)
  BY Zenon DEF RuntimeAwareBoundDecision
<1>2. /\ RedRuntimeBlockedDecision(row, verdict).color = "red"
      /\ OrangeRuntimeCautionDecision(row, verdict).color = "orange"
      /\ GreenDecision(row, verdict).policy = row.policy
      /\ GreenDecision(row, verdict).risk = verdict.delta
  BY DEF RedRuntimeBlockedDecision, OrangeRuntimeCautionDecision, GreenDecision, Decision
<1> HIDE DEF d
<1>3. d.color = "green"
  BY DEF d
<1> QED
  BY <1>1, <1>2, <1>3 DEF d

-----------------------------------------------------------------------------
\* The workers that write the table.

\* What a written row is: the value, with the key and the time of creation.
LEMMA WrittenRow ==
    ASSUME NEW p \in Policies, NEW value \in RowValues, TableInv, WriteRow(p, value)
    PROVE  \E row :
            /\ table' = [table EXCEPT ![p] = row]
            /\ row.policy = p
            /\ row.created = IF table[p] = NoRow THEN writes ELSE table[p].created
            /\ row # NoRow => RowOK(row)
<1> DEFINE created == IF table[p] = NoRow THEN writes ELSE table[p].created
           row == [f \in DOMAIN value \union {"policy", "created"} |->
                     CASE f = "policy" -> p [] f = "created" -> created [] OTHER -> value[f]]
<1>1. table' = [table EXCEPT ![p] = row]
  BY Zenon DEF WriteRow
<1>2. /\ row["policy"] = p /\ row["created"] = created
      /\ \A f \in DOMAIN value \ {"policy", "created"} : row[f] = value[f]
  BY Zenon
<1>3. {"generated", "expires", "redirect"} \subseteq DOMAIN value \ {"policy", "created"}
  BY RowValuesAssumption DEF RowFields
<1>4. created \in Nat
  BY DEF TableInv, Ordered, RowOK, Rows
<1> HIDE DEF row, created
<1>5. row.generated = value.generated /\ row.expires = value.expires /\ row.redirect = value.redirect
  BY <1>2, <1>3
<1>6. row # NoRow => RowOK(row)
  BY <1>2, <1>4, <1>5, RowValuesAssumption DEF RowOK
<1> QED
  BY <1>1, <1>2, <1>6 DEF created

\* A row that is written is created after all others or keeps its time.
LEMMA WritesKeepOrder ==
    ASSUME NEW p \in Policies, NEW value \in RowValues, TableInv, WriteRow(p, value)
    PROVE  TableInv'
<1>1. PICK row : /\ table' = [table EXCEPT ![p] = row]
                 /\ row.policy = p
                 /\ row.created = IF table[p] = NoRow THEN writes ELSE table[p].created
                 /\ row # NoRow => RowOK(row)
  BY WrittenRow
<1>2. writes' = writes + 1 /\ writes \in Nat
  BY DEF WriteRow, TableInv
<1>3. /\ table' = [q \in Policies |-> table'[q]]
      /\ table'[p] = row /\ \A q \in Policies \ {p} : table'[q] = table[q]
  BY <1>1 DEF TableInv
<1>4. \A q \in Policies : table[q] # NoRow => RowOK(table[q])
  BY DEF TableInv, Ordered, Rows
<1>5. \A q \in Policies : table[q] # NoRow =>
            table[q].policy = q /\ table[q].created \in Nat /\ table[q].created < writes
  BY <1>4 DEF TableInv, RowOK
<1>6. /\ row.created \in Nat /\ row.created < writes + 1
      /\ \A q \in Policies \ {p} : table[q] # NoRow => table[q].created # row.created
  BY <1>1, <1>2, <1>5 DEF TableInv
<1>7. \A q \in Policies : table'[q] # NoRow => table'[q].policy = q /\ table'[q].created < writes'
  BY <1>1, <1>2, <1>3, <1>5, <1>6
<1>8. \A q, t \in Policies :
        q # t /\ table'[q] # NoRow /\ table'[t] # NoRow => table'[q].created # table'[t].created
  BY <1>3, <1>6 DEF TableInv
<1>9. Ordered(Rows')
  <2>1. Rows' \subseteq Rows \union {row}
    BY <1>3 DEF Rows
  <2>2. IsFiniteSet(Rows')
    BY <2>1, FS_AddElement, FS_Subset DEF TableInv, Ordered
  <2>3. \A r \in Rows' : RowOK(r)
    BY <1>1, <1>3, <1>4 DEF Rows
  <2>4. \A r, t \in Rows' : r # t => r.created # t.created
    BY <1>8 DEF Rows
  <2> QED
    BY <2>2, <2>3, <2>4 DEF Ordered
<1> QED
  BY <1>2, <1>3, <1>7, <1>8, <1>9 DEF TableInv

\* A row that is removed leaves the order of the others.
LEMMA RemovalsKeepOrder == ASSUME NEW p \in Policies, TableInv, RemoveRow(p) PROVE TableInv'
<1>1. table' = [table EXCEPT ![p] = NoRow] /\ writes' = writes
  BY DEF RemoveRow
<1>2. /\ table' = [q \in Policies |-> table'[q]]
      /\ table'[p] = NoRow /\ \A q \in Policies \ {p} : table'[q] = table[q]
  BY <1>1 DEF TableInv
<1>3. Rows' \subseteq Rows
  BY <1>2 DEF Rows
<1>4. Ordered(Rows')
  BY <1>3, OrderedSubset DEF TableInv
<1> QED
  BY <1>1, <1>2, <1>4 DEF TableInv

-----------------------------------------------------------------------------
\* The request.

\* What resolving makes of a request
Resolved(q, row) ==
    IF NeedsRuntime(row, q.url, q.observed)
      THEN [q EXCEPT !.phase = "inspect", !.row = row]
    ELSE [q EXCEPT !.row = row,
                   !.phase = IF row = NoRow THEN "answered" ELSE "persist",
                   !.decision = DecisionWithoutRuntime(row, q.url, q.observed)]

\* The row a request is resolved to is the first that may answer.
LEMMA ResolveKeeps ==
    ASSUME NEW q, NEW seen, NEW cache \in {LoadCache(seen), {}}, ScanShape(q), q.observed \in Nat,
           Ordered(seen), q.row = NoRow, q.decision = NoDecision,
           NEW row, row = FindPolicyMatch(cache, AcceptedRoots, LookupHost(q.url, q.hint))
    PROVE  RequestInv(Resolved(q, row), seen)
<1> DEFINE r == Resolved(q, row)
<1>1. row # NoRow => /\ row \in seen /\ MayAnswer(row, LookupHost(q.url, q.hint))
                     /\ \A t \in seen \ {row} : MayAnswer(t, LookupHost(q.url, q.hint)) => Before(row, t)
  BY MatchIsFirst
<1> SUFFICES RequestInv(r, seen)
  OBVIOUS
<1> HIDE DEF r
<1>2. CASE NeedsRuntime(row, q.url, q.observed)
  <2>1. r = [phase |-> "inspect", url |-> q.url, hint |-> q.hint, observed |-> q.observed,
             row |-> row, decision |-> q.decision]
    BY <1>2 DEF ScanShape, Resolved, r
  <2>2. q.decision.color # "green"
    BY DEF NoDecision
  <2> QED
    BY <1>1, <1>2, <2>1, <2>2 DEF RequestInv, ScanShape, AnswersFirst, GreenIsBound
<1>3. CASE ~NeedsRuntime(row, q.url, q.observed)
  <2> DEFINE phase == IF row = NoRow THEN "answered" ELSE "persist"
             decision == DecisionWithoutRuntime(row, q.url, q.observed)
  <2>1. decision.color # "green"
    BY DEF DecisionWithoutRuntime, OrangeUnrecognizedDecision, RedDestinationMismatchDecision,
         OrangeCacheRefreshDecision, Decision
  <2>2. phase \notin {"none", "load", "inspect"}
    OBVIOUS
  <2> HIDE DEF phase, decision
  <2>3. r = [phase |-> phase, url |-> q.url, hint |-> q.hint, observed |-> q.observed,
             row |-> row, decision |-> decision]
    BY <1>3 DEF ScanShape, Resolved, r, phase, decision
  <2>4. /\ ScanShape(r) /\ r.observed \in Nat /\ r.row = row /\ r.url = q.url /\ r.hint = q.hint
        /\ r.phase = phase /\ r.decision = decision
    BY <2>3 DEF ScanShape
  <2> QED
    BY <1>1, <2>1, <2>2, <2>4 DEF RequestInv, AnswersFirst, GreenIsBound
<1> QED
  BY <1>2, <1>3

\* A request that only moves on to another phase.
LEMMA PhaseKeeps ==
    ASSUME NEW q, NEW seen, RequestInv(q, seen), NEW phase,
           phase \notin {"none", "load", "inspect"}, NEW r, r = [q EXCEPT !.phase = phase]
    PROVE  RequestInv(r, seen)
<1>1. r = [phase |-> phase, url |-> q.url, hint |-> q.hint, observed |-> q.observed,
           row |-> q.row, decision |-> q.decision]
  BY DEF RequestInv, ScanShape
<1> QED
  BY <1>1 DEF RequestInv, ScanShape, AnswersFirst, GreenIsBound

\* The provider's answer decides only the row that was resolved.
LEMMA InspectKeeps ==
    ASSUME NEW q, NEW seen, RequestInv(q, seen), q.phase = "inspect", provider \in Providers,
           NEW via, NEW d,
           d = RuntimeAwareBoundDecision(q.row, Inspect(provider, Lists, Tlds, q.url, via)),
           NEW r, r = [q EXCEPT !.phase = "persist", !.decision = d]
    PROVE  RequestInv(r, seen)
<1>1. r = [phase |-> "persist", url |-> q.url, hint |-> q.hint, observed |-> q.observed,
           row |-> q.row, decision |-> d]
  BY DEF RequestInv, ScanShape
<1>2. d.color = "green" => d.policy = q.row.policy /\ d.risk = 0
  BY GreenNeedsClear, InspectClear
<1> QED
  BY <1>1, <1>2 DEF RequestInv, ScanShape, AnswersFirst, GreenIsBound

-----------------------------------------------------------------------------
\* A step of one request leaves the others alone.
LEMMA OneRequest ==
    ASSUME ScanInv, NEW s \in Scans, NEW r, scan' = [scan EXCEPT ![s] = r],
           UNCHANGED <<table, writes, provider>>,
           read' = read, RequestInv(r, read[s])
    PROVE  ScanInv'
<1>1. /\ DOMAIN scan' = Scans /\ scan' = [t \in Scans |-> scan'[t]]
      /\ scan'[s] = r /\ \A t \in Scans \ {s} : scan'[t] = scan[t]
  BY DEF ScanInv
<1>2. TableInv'
  BY DEF ScanInv, TableInv, Rows
<1>3. \A t \in Scans : RequestInv(scan'[t], read'[t])
  BY <1>1 DEF ScanInv
<1> QED
  BY <1>1, <1>2, <1>3 DEF ScanInv

\* What receiving makes of a request
Received(q, url, hint, observed) ==
    [q EXCEPT !.phase = "load", !.url = url, !.hint = hint, !.observed = observed]

\* The fields of a request that has come in.
LEMMA ReceivedRequest ==
    ASSUME NEW q, ScanShape(q), NEW url, NEW hint, NEW observed
    PROVE  Received(q, url, hint, observed) =
               [phase |-> "load", url |-> url, hint |-> hint, observed |-> observed,
                row |-> q.row, decision |-> q.decision]
<1>1. PICK a : a = [q EXCEPT !.phase = "load", !.url = url]
  OBVIOUS
<1>2. a = [phase |-> "load", url |-> url, hint |-> q.hint, observed |-> q.observed,
           row |-> q.row, decision |-> q.decision]
  BY <1>1 DEF ScanShape
<1>3. PICK b : b = [a EXCEPT !.hint = hint, !.observed = observed]
  OBVIOUS
<1>4. b = [phase |-> "load", url |-> url, hint |-> hint, observed |-> observed,
           row |-> q.row, decision |-> q.decision]
  BY <1>2, <1>3
<1> QED
  BY <1>1, <1>3, <1>4 DEF Received

\* Every step of requests, writers and providers keeps the invariant.
LEMMA ScanStep == ScanInv /\ [Next]_vars => ScanInv'
<1> SUFFICES ASSUME ScanInv, [Next]_vars PROVE ScanInv'
  OBVIOUS
<1>1. ASSUME NEW p \in Policies, RemoveRow(p) \/ \E value \in RowValues : WriteRow(p, value)
      PROVE  ScanInv'
  <2>1. TableInv'
    BY <1>1, WritesKeepOrder, RemovalsKeepOrder DEF ScanInv
  <2>2. UNCHANGED <<scan, provider, read>>
    BY <1>1 DEF RemoveRow, WriteRow
  <2> QED
    BY <2>1, <2>2 DEF ScanInv
<1>2. ASSUME NEW s \in Scans, Refuse(s) \/ PersistFails(s) \/ Answer(s) PROVE ScanInv'
  <2>1. PICK phase \in {"refused", "failed", "answered"} : scan' = [scan EXCEPT ![s].phase = phase]
    BY <1>2 DEF Refuse, PersistFails, Answer
  <2> DEFINE r == [scan[s] EXCEPT !.phase = phase]
  <2>2. RequestInv(scan[s], read[s])
    BY DEF ScanInv
  <2>3. RequestInv(r, read[s])
    BY <2>2, PhaseKeeps
  <2>4. scan' = [scan EXCEPT ![s] = r]
    BY <2>1
  <2> HIDE DEF r
  <2> QED
    BY <1>2, <2>3, <2>4, OneRequest DEF Refuse, PersistFails, Answer
<1>3. ASSUME NEW s \in Scans, Receive(s) PROVE ScanInv'
  <2>1. PICK url \in Urls, hint \in Hints, observed \in 0 .. MaxTime :
            scan' = [scan EXCEPT ![s] = Received(Idle, url, hint, observed)]
    BY <1>3 DEF Receive, Received
  <2> DEFINE r == [phase |-> "load", url |-> url, hint |-> hint, observed |-> observed, row |-> NoRow,
                   decision |-> NoDecision]
  <2>2. scan' = [scan EXCEPT ![s] = r]
    <3>0. Idle.row = NoRow /\ Idle.decision = NoDecision /\ ScanShape(Idle)
      BY DEF Idle, ScanShape
    <3>1. Received(Idle, url, hint, observed) = r
      BY <3>0, ReceivedRequest
    <3> QED
      BY <2>1, <3>1
  <2>3. Ordered(read[s]) /\ observed \in Nat
    BY BoundsAssumption DEF ScanInv, RequestInv
  <2>4. RequestInv(r, read[s])
    BY <2>3 DEF RequestInv, ScanShape, AnswersFirst, GreenIsBound, NoDecision
  <2> HIDE DEF r
  <2> QED
    BY <1>3, <2>2, <2>4, OneRequest DEF Receive
<1>4. ASSUME NEW s \in Scans, LoadFails(s) PROVE ScanInv'
  <2> DEFINE q == scan[s]
             row == FindPolicyMatch({}, AcceptedRoots, LookupHost(q.url, q.hint))
  <2>1. scan' = [scan EXCEPT ![s] = Resolved(q, row)]
    BY <1>4 DEF LoadFails, Resolve, Resolved
  <2>2. RequestInv(q, read[s]) /\ q.phase = "load"
    BY <1>4 DEF ScanInv, LoadFails
  <2> HIDE DEF q
  <2>3. RequestInv(Resolved(q, row), read[s])
    BY <2>2, ResolveKeeps DEF RequestInv
  <2> HIDE DEF row
  <2> QED
    BY <1>4, <2>1, <2>3, OneRequest DEF LoadFails
<1>5. ASSUME NEW s \in Scans, Load(s) PROVE ScanInv'
  <2> DEFINE q == scan[s]
             row == FindPolicyMatch(LoadCache(Rows), AcceptedRoots, LookupHost(q.url, q.hint))
  <2>1. scan' = [scan EXCEPT ![s] = Resolved(q, row)] /\ read' = [read EXCEPT ![s] = Rows]
    BY <1>5 DEF Load, Resolve, Resolved
  <2>2. RequestInv(q, read[s]) /\ q.phase = "load" /\ Ordered(Rows)
    BY <1>5 DEF ScanInv, Load, TableInv
  <2>3. UNCHANGED <<table, provider, writes>>
    BY <1>5 DEF Load
  <2> HIDE DEF q
  <2>4. RequestInv(Resolved(q, row), Rows)
    BY <2>2, ResolveKeeps DEF RequestInv
  <2> HIDE DEF row
  <2>5. /\ DOMAIN scan' = Scans /\ scan' = [t \in Scans |-> scan'[t]]
        /\ DOMAIN read' = Scans /\ read' = [t \in Scans |-> read'[t]]
        /\ scan'[s] = Resolved(q, row) /\ read'[s] = Rows
        /\ \A t \in Scans \ {s} : scan'[t] = scan[t] /\ read'[t] = read[t]
    BY <2>1 DEF ScanInv
  <2>6. TableInv'
    BY <2>3 DEF ScanInv, TableInv, Rows
  <2>7. \A t \in Scans : RequestInv(scan'[t], read'[t])
    BY <2>4, <2>5 DEF ScanInv
  <2> QED
    BY <2>3, <2>5, <2>6, <2>7 DEF ScanInv
<1>6. ASSUME NEW s \in Scans, InspectRuntime(s) PROVE ScanInv'
  <2> DEFINE q == scan[s]
             via == MatchedResolvers(q.row, q.url) # {}
             d == RuntimeAwareBoundDecision(q.row, Inspect(provider, Lists, Tlds, q.url, via))
             r == [q EXCEPT !.phase = "persist", !.decision = d]
  <2>1. scan' = [scan EXCEPT ![s].phase = "persist", ![s].decision = d]
    BY <1>6 DEF InspectRuntime
  <2>2. RequestInv(q, read[s]) /\ q.phase = "inspect" /\ provider \in Providers
    BY <1>6 DEF ScanInv, InspectRuntime
  <2>3. RequestInv(r, read[s])
    <3> HIDE DEF q
    <3> QED
      BY <2>2, InspectKeeps
  <2> HIDE DEF d
  <2>4. scan' = [scan EXCEPT ![s] = r]
    BY <2>1 DEF ScanInv
  <2> HIDE DEF r
  <2> QED
    BY <1>6, <2>3, <2>4, OneRequest DEF InspectRuntime
<1>7. ASSUME NEW s \in Scans, EnqueueEvent(s) \/ InsertDecision(s) PROVE ScanInv'
  <2>1. UNCHANGED <<table, scan, provider, writes, read>>
    BY <1>7 DEF EnqueueEvent, InsertDecision
  <2> QED
    BY <2>1 DEF ScanInv, TableInv, Rows
<1>8. CASE Crash
  <2>1. /\ UNCHANGED <<table, provider, writes, read>>
        /\ scan' = [s \in Scans |->
                     IF scan[s].phase \in {"load", "inspect", "persist"}
                       THEN [scan[s] EXCEPT !.phase = "lost"] ELSE scan[s]]
    BY <1>8 DEF Crash
  <2>2. ASSUME NEW s \in Scans PROVE RequestInv(scan'[s], read'[s])
    <3>1. RequestInv(scan[s], read[s])
      BY DEF ScanInv
    <3>2. RequestInv([scan[s] EXCEPT !.phase = "lost"], read[s])
      BY <3>1, PhaseKeeps
    <3> QED
      BY <2>1, <3>1, <3>2
  <2>3. TableInv'
    BY <2>1 DEF ScanInv, TableInv, Rows
  <2> QED
    BY <2>1, <2>2, <2>3 DEF ScanInv
<1>9. CASE UNCHANGED vars
  BY <1>9 DEF vars, ScanInv, TableInv, Rows
<1> QED
  BY <1>1, <1>2, <1>3, <1>4, <1>5, <1>6, <1>7, <1>8, <1>9 DEF Next, Step

\* It holds of every behaviour of the scanner.
LEMMA ScanInvariant == Spec => []ScanInv
<1>1. ASSUME Init PROVE ScanInv
  <2>1. Ordered({})
    BY FS_EmptySet DEF Ordered
  <2>2. TableInv
    <3>1. Rows = {}
      BY <1>1 DEF Init, Rows
    <3> QED
      BY <1>1, <2>1, <3>1 DEF Init, TableInv
  <2>3. \A s \in Scans : RequestInv(scan[s], read[s])
    BY <1>1, <2>1 DEF Init, Idle, RequestInv, ScanShape, AnswersFirst, GreenIsBound, NoDecision
  <2> QED
    BY <1>1, <2>2, <2>3 DEF Init, ScanInv
<1> QED
  BY <1>1, ScanStep, PTL DEF Spec

\* A URL that is bound to a fresh row, which may answer, is authorized by that row.
LEMMA BoundIsAuthorized ==
    ASSUME NEW row, NEW url, NEW observed \in Nat, NEW host, RowOK(row), MayAnswer(row, host),
           NeedsRuntime(row, url, observed)
    PROVE  Authorizes(row, url, observed)
<1>1. /\ row.rootGrants /\ row.authorityGrants /\ ~row.placeholder
      /\ row.root \in AcceptedRoots
  BY DEF MayAnswer, Visible, AuthorityContextAllows, AcceptsRoot
<1>2. row.generated <= observed /\ observed < row.expires
  BY DEF NeedsRuntime, CacheFreshnessStatus, RowOK
<1>3. CASE MatchedResolvers(row, url) # {}
  <2>1. PICK r \in row.redirect.resolvers : r.host = url.host /\ r.path = url.path
    BY <1>3 DEF MatchedResolvers
  <2>2. [host |-> url.host, path |-> url.path] \in row.redirect.resolvers
    BY <2>1 DEF RowOK
  <2>3. RedirectBound(row, url)
    BY <1>3 DEF NeedsRuntime, Bound
  <2> QED
    BY <1>1, <1>2, <2>2, <2>3 DEF Authorizes, RedirectBound, HopsAllowed, FinalAllowed
<1>4. CASE MatchedResolvers(row, url) = {}
  <2>1. PICK n \in DOMAIN row.rules : /\ RuleAllowsHost(row.rules[n], url.host)
                                      /\ DirectDestinationMatches(row.rules[n], url)
    BY <1>4 DEF NeedsRuntime, Bound, DirectBound
  <2>2. row.rules[n] \in {row.rules[m] : m \in DOMAIN row.rules}
    OBVIOUS
  <2> QED
    BY <1>1, <1>2, <2>1, <2>2 DEF Authorizes, RuleAllowsHost, DirectDestinationMatches
<1> QED
  BY <1>3, <1>4

\* Whatever rows the workers write and remove while requests run, whatever the
\* requests, providers, failures and crashes: a scan is answered green only when a row
\* it read authorizes the URL at the observed time and the provider found nothing.
THEOREM GreenAlwaysAuthorized == Spec => []GreenWasAuthorized
<1>1. ScanInv => GreenWasAuthorized
  <2> SUFFICES ASSUME ScanInv, NEW s \in Scans, scan[s].decision.color = "green"
               PROVE  /\ \E row \in read[s] : /\ Authorizes(row, scan[s].url, scan[s].observed)
                                              /\ row.policy = scan[s].decision.policy
                      /\ scan[s].decision.risk = 0
    BY DEF GreenWasAuthorized
  <2> DEFINE q == scan[s]
  <2>1. RequestInv(q, read[s])
    BY DEF ScanInv
  <2>2. NeedsRuntime(q.row, q.url, q.observed) /\ q.decision.policy = q.row.policy /\ q.decision.risk = 0
    BY <2>1 DEF RequestInv, GreenIsBound
  <2>3. q.row \in read[s] /\ RowOK(q.row) /\ MayAnswer(q.row, LookupHost(q.url, q.hint))
    BY <2>1, <2>2 DEF RequestInv, AnswersFirst, Ordered, NeedsRuntime
  <2>4. Authorizes(q.row, q.url, q.observed)
    BY <2>1, <2>2, <2>3, BoundIsAuthorized DEF RequestInv
  <2> QED
    BY <2>2, <2>3, <2>4
<1> QED
  BY <1>1, ScanInvariant, PTL

\* An expired row answers only when every row the request read that could answer has
\* expired too, for any number of rows.
THEOREM ExpiredNeverHidesFreshRow == Spec => []ExpiredHidesNoFreshRow
<1>1. ScanInv => ExpiredHidesNoFreshRow
  <2> SUFFICES ASSUME ScanInv, NEW s \in Scans, scan[s].row # NoRow,
                      scan[s].row.expires <= scan[s].observed, NEW row \in read[s],
                      MayAnswer(row, LookupHost(scan[s].url, scan[s].hint))
               PROVE  row.expires <= scan[s].observed
    BY DEF ExpiredHidesNoFreshRow, MayAnswer, Visible, AcceptsRoot
  <2> DEFINE q == scan[s]
  <2>1. RequestInv(q, read[s])
    BY DEF ScanInv
  <2> HIDE DEF q
  <2>2. q.row \in read[s] /\ (row = q.row \/ Before(q.row, row))
    BY <2>1 DEF RequestInv, AnswersFirst, q
  <2>3. row.expires \in Nat /\ q.row.expires \in Nat /\ q.observed \in Nat
    BY <2>1, <2>2 DEF RequestInv, Ordered, RowOK
  <2> QED
    BY <2>2, <2>3 DEF Before, q
<1> QED
  BY <1>1, ScanInvariant, PTL

-----------------------------------------------------------------------------
(* The verifier cache stores *)

\* What a row says of an issuer or of a destination, the maps in memory say as well,
\* for at least as long.
RowsWithinMemory ==
    \A k \in Keys : rows[k] # None =>
        /\ rows[k].tier # None =>
              /\ issuers[k] # None /\ issuers[k].tier = rows[k].tier
              /\ rows[k].until <= issuers[k].until
        /\ rows[k].hosts # {} =>
              /\ policies[k] # None /\ policies[k].hosts = rows[k].hosts
              /\ rows[k].until <= policies[k].until

\* A row grants nothing that the manifests do not, except one that is not synced yet.
RowsFollowManifests ==
    \A k \in Keys : rows[k] # None =>
        /\ rows[k].rootOk /\ k.root \notin rootDue => RootAuthorizes(k)
        /\ rows[k].authorityOk /\ AuthorityOf(k) \notin authorityDue => AuthorityAuthorizes(k)

\* A manifest that a revoked authority still owes grants it nothing in memory.
OwedIsOut ==
    \A d \in owed :
        /\ d \in [manifest : {"root", "authority"}, authority : Authorities]
        /\ d.manifest = "root" => d.authority.authority \notin activeAuthorities[d.authority.root]
        /\ d.manifest = "authority" => \A n \in activeIssuers : AuthorityOf(n) # d.authority

StoresInv == StoresTypeOK /\ RowsWithinMemory /\ RowsFollowManifests /\ OwedIsOut

Row == [tier : Tiers \union {None}, hosts : SUBSET Hosts, rootOk : BOOLEAN,
        authorityOk : BOOLEAN, until : Nat]

\* A key names its root, its authority and its namespace.
LEMMA KeyParts ==
    ASSUME NEW k \in Keys
    PROVE  /\ k.root \in Roots /\ AuthorityOf(k) \in Authorities /\ NamespaceOf(k) \in Namespaces
           /\ AuthorityOf(NamespaceOf(k)) = AuthorityOf(k)
           /\ NamespaceOf(k).root = k.root /\ NamespaceOf(k).authority = k.authority
           /\ NamespaceOf(k).issuer = k.issuer
           /\ AuthorityOf(k).root = k.root /\ AuthorityOf(k).authority = k.authority
BY DEF Roots, Authorities, Namespaces, AuthorityOf, NamespaceOf

\* An authority is its root and its id.
LEMMA AuthorityParts ==
    ASSUME NEW a \in Authorities
    PROVE  a.root \in Roots /\ a = [root |-> a.root, authority |-> a.authority]
BY DEF Authorities, AuthorityOf, Roots

\* The first of two dates is not after either.
LEMMA FirstDateIsEarlier ==
    ASSUME NEW d \in Nat, NEW e \in Nat
    PROVE  FirstDate(d, e) \in Nat /\ FirstDate(d, e) <= d /\ FirstDate(d, e) <= e
BY DEF FirstDate

\* An insertion keeps the order one of keys.
LEMMA InsertedIsOrder ==
    ASSUME NEW order \in SUBSET (Keys \X Keys), NEW map, NEW k \in Keys
    PROVE  Inserted(order, map, k) \in SUBSET (Keys \X Keys)
BY DEF Inserted

\* So does a removal.
LEMMA RemovedIsOrder ==
    ASSUME NEW order \in SUBSET (Keys \X Keys), NEW gone
    PROVE  Removed(order, gone) \in SUBSET (Keys \X Keys)
BY DEF Removed

\* An upsert of a row that agrees with the maps it is merged from.
LEMMA UpsertedRow ==
    ASSUME StoresTypeOK, RowsFollowManifests, NEW k \in Keys, NEW tier \in Tiers \union {None},
           NEW hosts \in SUBSET Hosts, NEW until \in Nat, UpsertRow(k, tier, hosts, until)
    PROVE  /\ rows' \in [Keys -> Row \union {None}]
           /\ rowOrder' \in SUBSET (Keys \X Keys)
           /\ \A j \in Keys \ {k} : rows'[j] = rows[j]
           /\ rows'[k].tier = tier /\ rows'[k].hosts = hosts
           /\ rows'[k].rootOk => RootAuthorizes(k)
           /\ rows'[k].authorityOk => AuthorityAuthorizes(k)
           /\ rows'[k].until \in Nat /\ rows'[k].until <= until
           /\ rows[k] # None => rows'[k].until <= rows[k].until
<1> DEFINE old == RowOf(k, until).until
           new == [tier |-> tier, hosts |-> hosts, rootOk |-> RootAuthorizes(k),
                   authorityOk |-> AuthorityAuthorizes(k), until |-> FirstDate(until, old)]
<1>1. old \in Nat /\ (rows[k] # None => old = rows[k].until)
  BY DEF RowOf, StoresTypeOK
<1>2. /\ FirstDate(until, old) \in Nat /\ FirstDate(until, old) <= until
      /\ FirstDate(until, old) <= old
  <2> HIDE DEF old
  <2> QED BY <1>1, FirstDateIsEarlier
<1>3. RootAuthorizes(k) \in BOOLEAN /\ AuthorityAuthorizes(k) \in BOOLEAN
  BY DEF RootAuthorizes, AuthorityAuthorizes
<1>4. rows' = [rows EXCEPT ![k] = new] /\ rowOrder' = Inserted(rowOrder, rows, k)
  BY DEF UpsertRow
<1>5. rows \in [Keys -> Row \union {None}] /\ rowOrder \in SUBSET (Keys \X Keys)
  BY DEF StoresTypeOK, Row
<1>6. new \in Row
  <2> HIDE DEF old
  <2> QED BY <1>2, <1>3 DEF Row
<1>7. /\ new.tier = tier /\ new.hosts = hosts /\ new.rootOk = RootAuthorizes(k)
      /\ new.authorityOk = AuthorityAuthorizes(k) /\ new.until = FirstDate(until, old)
  OBVIOUS
<1>8. rows' \in [Keys -> Row \union {None}] /\ rows'[k] = new
      /\ \A j \in Keys \ {k} : rows'[j] = rows[j]
  <2> HIDE DEF new, old
  <2> QED BY <1>4, <1>5, <1>6
<1>9. rowOrder' \in SUBSET (Keys \X Keys) BY <1>4, <1>5, InsertedIsOrder
<1>10. rows'[k].rootOk => RootAuthorizes(k)
  BY <1>7, <1>8, <1>3, Zenon
<1>11. rows'[k].authorityOk => AuthorityAuthorizes(k)
  BY <1>7, <1>8, <1>3, Zenon
<1> HIDE DEF new, old
<1> QED BY <1>1, <1>2, <1>7, <1>8, <1>9, <1>10, <1>11

\* What a delete leaves.
LEMMA DeletedRows ==
    ASSUME StoresTypeOK, NEW gone, DeleteRows(gone)
    PROVE  /\ rows' \in [Keys -> Row \union {None}] /\ rowOrder' \in SUBSET (Keys \X Keys)
           /\ \A k \in Keys : rows'[k] = IF k \in gone THEN None ELSE rows[k]
<1>1. rows \in [Keys -> Row \union {None}] /\ rowOrder \in SUBSET (Keys \X Keys)
  BY DEF StoresTypeOK, Row
<1> QED BY <1>1, RemovedIsOrder DEF DeleteRows

\* What a removal of policies leaves.
LEMMA DeletedPolicies ==
    ASSUME StoresTypeOK, NEW gone, DeletePolicies(gone)
    PROVE  /\ policies' \in [Keys -> DestinationPolicyProjection \union {None}]
           /\ policyOrder' \in SUBSET (Keys \X Keys)
           /\ \A k \in Keys : policies'[k] = IF k \in gone THEN None ELSE policies[k]
<1>1. policies \in [Keys -> DestinationPolicyProjection \union {None}]
      /\ policyOrder \in SUBSET (Keys \X Keys)
  BY DEF StoresTypeOK
<1> QED BY <1>1, RemovedIsOrder DEF DeletePolicies

-----------------------------------------------------------------------------
\* Writing an issuer keeps the row within it and within the policy it had.
LEMMA UpsertIssuerKeeps ==
    ASSUME StoresInv, NEW k \in Keys, NEW rec \in IssuerRecords, UpsertIssuer(k, rec)
    PROVE  StoresInv'
<1> DEFINE hosts == RowOf(k, rec.until).hosts
<1>1. rec \in IssuerProjection /\ rec.tier \in Tiers /\ rec.until \in Nat /\ rec # None
  BY RecordsAssumption DEF IssuerProjection
<1>2. /\ hosts \in SUBSET Hosts
      /\ hosts # {} => rows[k] # None /\ hosts = rows[k].hosts
  BY DEF RowOf, StoresInv, StoresTypeOK
<1>3. StoresTypeOK /\ RowsWithinMemory /\ RowsFollowManifests /\ OwedIsOut BY DEF StoresInv
<1>4. UpsertRow(k, rec.tier, hosts, rec.until) BY DEF UpsertIssuer
<1> HIDE DEF hosts
<1>5. /\ rows' \in [Keys -> Row \union {None}]
      /\ rowOrder' \in SUBSET (Keys \X Keys)
      /\ \A j \in Keys \ {k} : rows'[j] = rows[j]
      /\ rows'[k].tier = rec.tier /\ rows'[k].hosts = hosts
      /\ rows'[k].rootOk => RootAuthorizes(k)
      /\ rows'[k].authorityOk => AuthorityAuthorizes(k)
      /\ rows'[k].until \in Nat /\ rows'[k].until <= rec.until
      /\ rows[k] # None => rows'[k].until <= rows[k].until
  BY <1>1, <1>2, <1>3, <1>4, UpsertedRow
<1>6. /\ issuers' = [issuers EXCEPT ![k] = rec] /\ ops' = ops + 1 /\ ops < MaxOps
      /\ UNCHANGED <<published, policyMap, activeAuthorities, activeIssuers, owed>>
  BY DEF UpsertIssuer, Counted
<1>7. StoresTypeOK'
  BY <1>1, <1>3, <1>5, <1>6, RecordsAssumption DEF StoresTypeOK, Row, published, policyMap
<1>8. RowsWithinMemory'
  <2> SUFFICES ASSUME NEW j \in Keys, rows'[j] # None
               PROVE /\ rows'[j].tier # None =>
                            /\ issuers'[j] # None /\ issuers'[j].tier = rows'[j].tier
                            /\ rows'[j].until <= issuers'[j].until
                     /\ rows'[j].hosts # {} =>
                            /\ policies'[j] # None /\ policies'[j].hosts = rows'[j].hosts
                            /\ rows'[j].until <= policies'[j].until
    BY DEF RowsWithinMemory
  <2>1. issuers \in [Keys -> IssuerProjection \union {None}] /\ policies' = policies
    BY <1>3, <1>6 DEF StoresTypeOK, policyMap
  <2>2. CASE j # k BY <1>3, <1>5, <1>6, <2>1, <2>2 DEF RowsWithinMemory
  <2>3. CASE j = k
    <3>1. issuers'[k] = rec BY <1>6, <2>1
    <3>2. hosts # {} => /\ policies[k] # None /\ policies[k].hosts = hosts
                        /\ rows[k].until <= policies[k].until
      BY <1>2, <1>3 DEF RowsWithinMemory
    <3>3. ASSUME hosts # {} PROVE rows'[k].until <= policies[k].until
      <4>1. rows[k] # None BY <1>2, <3>3
      <4>2. rows[k].until \in Nat /\ policies[k].until \in Nat
        BY <1>3, <3>2, <3>3, <4>1 DEF StoresTypeOK, DestinationPolicyProjection
      <4> QED BY <1>5, <3>2, <3>3, <4>1, <4>2
    <3> QED BY <1>1, <1>5, <2>1, <2>3, <3>1, <3>2, <3>3
  <2> QED BY <2>2, <2>3
<1>9. RowsFollowManifests'
  <2>1. rootManifest' = rootManifest /\ authorityManifest' = authorityManifest
        /\ rootDue' = rootDue /\ authorityDue' = authorityDue
    BY <1>6 DEF published
  <2> QED BY <1>3, <1>5, <2>1 DEF RowsFollowManifests, RootAuthorizes, AuthorityAuthorizes
<1>10. OwedIsOut' BY <1>3, <1>6 DEF OwedIsOut
<1> QED BY <1>7, <1>8, <1>9, <1>10 DEF StoresInv

\* Writing a policy keeps the row within it and within the issuer it had.
LEMMA UpsertPolicyKeeps ==
    ASSUME StoresInv, NEW k \in Keys, NEW rec \in PolicyRecords, UpsertDestinationPolicy(k, rec)
    PROVE  StoresInv'
<1> DEFINE tier == RowOf(k, rec.until).tier
<1>1. /\ rec \in DestinationPolicyProjection /\ rec.hosts \in SUBSET Hosts /\ rec.until \in Nat
      /\ rec # None
  BY RecordsAssumption DEF DestinationPolicyProjection
<1>2. /\ tier \in Tiers \union {None}
      /\ tier # None => rows[k] # None /\ tier = rows[k].tier
  BY DEF RowOf, StoresInv, StoresTypeOK
<1>3. StoresTypeOK /\ RowsWithinMemory /\ RowsFollowManifests /\ OwedIsOut BY DEF StoresInv
<1>4. UpsertRow(k, tier, rec.hosts, rec.until) BY DEF UpsertDestinationPolicy
<1> HIDE DEF tier
<1>5. /\ rows' \in [Keys -> Row \union {None}]
      /\ rowOrder' \in SUBSET (Keys \X Keys)
      /\ \A j \in Keys \ {k} : rows'[j] = rows[j]
      /\ rows'[k].tier = tier /\ rows'[k].hosts = rec.hosts
      /\ rows'[k].rootOk => RootAuthorizes(k)
      /\ rows'[k].authorityOk => AuthorityAuthorizes(k)
      /\ rows'[k].until \in Nat /\ rows'[k].until <= rec.until
      /\ rows[k] # None => rows'[k].until <= rows[k].until
  BY <1>1, <1>2, <1>3, <1>4, UpsertedRow
<1>6. /\ policies' = [policies EXCEPT ![k] = rec] /\ ops' = ops + 1 /\ ops < MaxOps
      /\ policyOrder' = Inserted(policyOrder, policies, k)
      /\ UNCHANGED <<published, issuers, activeAuthorities, activeIssuers, owed>>
  BY DEF UpsertDestinationPolicy, Counted
<1>7. policyOrder' \in SUBSET (Keys \X Keys) BY <1>3, <1>6, InsertedIsOrder DEF StoresTypeOK
<1>8. StoresTypeOK'
  BY <1>1, <1>3, <1>5, <1>6, <1>7, RecordsAssumption DEF StoresTypeOK, Row, published
<1>9. RowsWithinMemory'
  <2> SUFFICES ASSUME NEW j \in Keys, rows'[j] # None
               PROVE /\ rows'[j].tier # None =>
                            /\ issuers'[j] # None /\ issuers'[j].tier = rows'[j].tier
                            /\ rows'[j].until <= issuers'[j].until
                     /\ rows'[j].hosts # {} =>
                            /\ policies'[j] # None /\ policies'[j].hosts = rows'[j].hosts
                            /\ rows'[j].until <= policies'[j].until
    BY DEF RowsWithinMemory
  <2>1. policies \in [Keys -> DestinationPolicyProjection \union {None}] /\ issuers' = issuers
    BY <1>3, <1>6 DEF StoresTypeOK
  <2>2. CASE j # k BY <1>3, <1>5, <1>6, <2>1, <2>2 DEF RowsWithinMemory
  <2>3. CASE j = k
    <3>1. policies'[k] = rec BY <1>6, <2>1
    <3>2. tier # None => /\ issuers[k] # None /\ issuers[k].tier = tier
                         /\ rows[k].until <= issuers[k].until
      BY <1>2, <1>3 DEF RowsWithinMemory
    <3>3. ASSUME tier # None PROVE rows'[k].until <= issuers[k].until
      <4>1. rows[k] # None BY <1>2, <3>3
      <4>2. rows[k].until \in Nat /\ issuers[k].until \in Nat
        BY <1>3, <3>2, <3>3, <4>1 DEF StoresTypeOK, IssuerProjection
      <4> QED BY <1>5, <3>2, <3>3, <4>1, <4>2
    <3> QED BY <1>1, <1>5, <2>1, <2>3, <3>1, <3>2, <3>3
  <2> QED BY <2>2, <2>3
<1>10. RowsFollowManifests'
  <2>1. rootManifest' = rootManifest /\ authorityManifest' = authorityManifest
        /\ rootDue' = rootDue /\ authorityDue' = authorityDue
    BY <1>6 DEF published
  <2> QED BY <1>3, <1>5, <2>1 DEF RowsFollowManifests, RootAuthorizes, AuthorityAuthorizes
<1>11. OwedIsOut' BY <1>3, <1>6 DEF OwedIsOut
<1> QED BY <1>8, <1>9, <1>10, <1>11 DEF StoresInv

\* A manifest that is published and not synced is due; nothing else notices it.
LEMMA PublishKeeps ==
    ASSUME StoresInv,
           \/ \E r \in Roots, ids \in SUBSET AuthorityIds : PublishRootManifest(r, ids)
           \/ \E a \in Authorities, ids \in SUBSET IssuerIds : PublishAuthorityManifest(a, ids)
    PROVE  StoresInv'
<1>3. StoresTypeOK /\ RowsWithinMemory /\ RowsFollowManifests /\ OwedIsOut BY DEF StoresInv
<1>4. UNCHANGED <<memory, entries, owed>> /\ ops' = ops + 1 /\ ops < MaxOps
  BY DEF PublishRootManifest, PublishAuthorityManifest, Counted
<1>5. RowsWithinMemory' /\ OwedIsOut'
  BY <1>3, <1>4 DEF RowsWithinMemory, OwedIsOut, memory, entries
<1>6. CASE \E r \in Roots, ids \in SUBSET AuthorityIds : PublishRootManifest(r, ids)
  <2> PICK r \in Roots, ids \in SUBSET AuthorityIds : PublishRootManifest(r, ids) BY <1>6
  <2>1. /\ rootManifest' = [rootManifest EXCEPT ![r] = ids] /\ rootDue' = rootDue \union {r}
        /\ authorityManifest' = authorityManifest /\ authorityDue' = authorityDue
    BY DEF PublishRootManifest
  <2>2. StoresTypeOK'
    BY <1>3, <1>4, <2>1, RecordsAssumption DEF StoresTypeOK, memory, entries
  <2>3. RowsFollowManifests'
    BY <1>3, <1>4, <2>1, KeyParts
    DEF RowsFollowManifests, RootAuthorizes, AuthorityAuthorizes, entries, StoresTypeOK
  <2> QED BY <1>5, <2>2, <2>3 DEF StoresInv
<1>7. CASE \E a \in Authorities, ids \in SUBSET IssuerIds : PublishAuthorityManifest(a, ids)
  <2> PICK a \in Authorities, ids \in SUBSET IssuerIds : PublishAuthorityManifest(a, ids) BY <1>7
  <2>1. /\ authorityManifest' = [authorityManifest EXCEPT ![a] = ids]
        /\ authorityDue' = authorityDue \union {a}
        /\ rootManifest' = rootManifest /\ rootDue' = rootDue
    BY DEF PublishAuthorityManifest
  <2>2. StoresTypeOK'
    BY <1>3, <1>4, <2>1, RecordsAssumption DEF StoresTypeOK, memory, entries
  <2>3. RowsFollowManifests'
    BY <1>3, <1>4, <2>1, KeyParts
    DEF RowsFollowManifests, RootAuthorizes, AuthorityAuthorizes, entries, StoresTypeOK
  <2> QED BY <1>5, <2>2, <2>3 DEF StoresInv
<1> QED BY <1>6, <1>7

\* A root's manifest settles what it granted, in memory and in every row.
LEMMA RootContextKeeps ==
    ASSUME StoresInv, NEW r \in Roots, UpsertRootAuthorityContext(r)
    PROVE  StoresInv'
<1>1. StoresTypeOK /\ RowsWithinMemory /\ RowsFollowManifests /\ OwedIsOut BY DEF StoresInv
<1> DEFINE row(k) == IF k.root = r /\ rows[k] # None
                     THEN [rows[k] EXCEPT !.rootOk = RootAuthorizes(k)] ELSE rows[k]
<1>2. /\ activeAuthorities' = [activeAuthorities EXCEPT ![r] = rootManifest[r]]
      /\ rows' = [k \in Keys |-> row(k)] /\ rootDue' = rootDue \ {r}
      /\ owed' = {d \in owed : d.manifest # "root" \/ d.authority.root # r}
      /\ UNCHANGED <<rootManifest, authorityManifest, authorityDue, issuers, policyMap,
                     activeIssuers, rowOrder>>
      /\ ops' = ops + 1 /\ ops < MaxOps
  BY DEF UpsertRootAuthorityContext, Counted
<1>3. ASSUME NEW k \in Keys
      PROVE  /\ row(k) \in Row \union {None}
             /\ row(k) # None => rows[k] # None
             /\ row(k) # None => /\ row(k).tier = rows[k].tier /\ row(k).hosts = rows[k].hosts
                                 /\ row(k).until = rows[k].until
                                 /\ row(k).authorityOk = rows[k].authorityOk
             /\ k.root # r => row(k) = rows[k]
             /\ k.root = r /\ row(k) # None => row(k).rootOk = RootAuthorizes(k)
  <2>1. RootAuthorizes(k) \in BOOLEAN BY DEF RootAuthorizes
  <2>2. rows[k] \in Row \union {None} BY <1>1 DEF StoresTypeOK, Row
  <2> QED BY <2>1, <2>2 DEF Row
<1> HIDE DEF row
<1>4. \A k \in Keys : rows'[k] = row(k) BY <1>2
<1>5. StoresTypeOK'
  <2>1. rows' \in [Keys -> Row \union {None}] BY <1>2, <1>3
  <2> QED BY <1>1, <1>2, <2>1, RecordsAssumption DEF StoresTypeOK, Row, policyMap
<1>6. RowsWithinMemory' BY <1>1, <1>2, <1>3, <1>4 DEF RowsWithinMemory, policyMap
<1>7. RowsFollowManifests'
  <2> SUFFICES ASSUME NEW k \in Keys, rows'[k] # None
               PROVE /\ rows'[k].rootOk /\ k.root \notin rootDue' => RootAuthorizes(k)'
                     /\ rows'[k].authorityOk /\ AuthorityOf(k) \notin authorityDue'
                            => AuthorityAuthorizes(k)'
    BY DEF RowsFollowManifests
  <2>1. RootAuthorizes(k)' = RootAuthorizes(k) /\ AuthorityAuthorizes(k)' = AuthorityAuthorizes(k)
    BY <1>2 DEF RootAuthorizes, AuthorityAuthorizes
  <2>2. rows'[k].authorityOk /\ AuthorityOf(k) \notin authorityDue' => AuthorityAuthorizes(k)'
    BY <1>1, <1>2, <1>3, <1>4, <2>1 DEF RowsFollowManifests
  <2>3. CASE k.root = r BY <1>3, <1>4, <2>1, <2>2, <2>3
  <2>4. CASE k.root # r BY <1>1, <1>2, <1>3, <1>4, <2>1, <2>2, <2>4 DEF RowsFollowManifests
  <2> QED BY <2>3, <2>4
<1>8. OwedIsOut'
  BY <1>1, <1>2, AuthorityParts DEF OwedIsOut, StoresTypeOK
<1> QED BY <1>5, <1>6, <1>7, <1>8 DEF StoresInv

\* The same of an authority's manifest.
LEMMA IssuerContextKeeps ==
    ASSUME StoresInv, NEW a \in Authorities, UpsertDelegatedAuthorityIssuerContext(a)
    PROVE  StoresInv'
<1>1. StoresTypeOK /\ RowsWithinMemory /\ RowsFollowManifests /\ OwedIsOut BY DEF StoresInv
<1> DEFINE row(k) == IF AuthorityOf(k) = a /\ rows[k] # None
                     THEN [rows[k] EXCEPT !.authorityOk = AuthorityAuthorizes(k)] ELSE rows[k]
<1>2. /\ activeIssuers' = ReplaceIssuerContext(a)
      /\ rows' = [k \in Keys |-> row(k)] /\ authorityDue' = authorityDue \ {a}
      /\ owed' = owed \ {[manifest |-> "authority", authority |-> a]}
      /\ UNCHANGED <<rootManifest, authorityManifest, rootDue, issuers, policyMap,
                     activeAuthorities, rowOrder>>
      /\ ops' = ops + 1 /\ ops < MaxOps
  BY DEF UpsertDelegatedAuthorityIssuerContext, Counted
<1>3. ASSUME NEW k \in Keys
      PROVE  /\ row(k) \in Row \union {None}
             /\ row(k) # None => rows[k] # None
             /\ row(k) # None => /\ row(k).tier = rows[k].tier /\ row(k).hosts = rows[k].hosts
                                 /\ row(k).until = rows[k].until
                                 /\ row(k).rootOk = rows[k].rootOk
             /\ AuthorityOf(k) # a => row(k) = rows[k]
             /\ AuthorityOf(k) = a /\ row(k) # None => row(k).authorityOk = AuthorityAuthorizes(k)
  <2>1. AuthorityAuthorizes(k) \in BOOLEAN BY DEF AuthorityAuthorizes
  <2>2. rows[k] \in Row \union {None} BY <1>1 DEF StoresTypeOK, Row
  <2> QED BY <2>1, <2>2 DEF Row
<1> HIDE DEF row
<1>4. \A k \in Keys : rows'[k] = row(k) BY <1>2
<1>5. StoresTypeOK'
  <2>1. rows' \in [Keys -> Row \union {None}] BY <1>2, <1>3
  <2>2. activeIssuers' \subseteq Namespaces
    BY <1>1, <1>2 DEF ReplaceIssuerContext, StoresTypeOK
  <2> QED BY <1>1, <1>2, <2>1, <2>2, RecordsAssumption DEF StoresTypeOK, Row, policyMap
<1>6. RowsWithinMemory' BY <1>1, <1>2, <1>3, <1>4 DEF RowsWithinMemory, policyMap
<1>7. RowsFollowManifests'
  <2> SUFFICES ASSUME NEW k \in Keys, rows'[k] # None
               PROVE /\ rows'[k].rootOk /\ k.root \notin rootDue' => RootAuthorizes(k)'
                     /\ rows'[k].authorityOk /\ AuthorityOf(k) \notin authorityDue'
                            => AuthorityAuthorizes(k)'
    BY DEF RowsFollowManifests
  <2>1. RootAuthorizes(k)' = RootAuthorizes(k) /\ AuthorityAuthorizes(k)' = AuthorityAuthorizes(k)
    BY <1>2 DEF RootAuthorizes, AuthorityAuthorizes
  <2>2. rows'[k].rootOk /\ k.root \notin rootDue' => RootAuthorizes(k)'
    BY <1>1, <1>2, <1>3, <1>4, <2>1 DEF RowsFollowManifests
  <2>3. CASE AuthorityOf(k) = a BY <1>3, <1>4, <2>1, <2>2, <2>3
  <2>4. CASE AuthorityOf(k) # a BY <1>1, <1>2, <1>3, <1>4, <2>1, <2>2, <2>4 DEF RowsFollowManifests
  <2> QED BY <2>3, <2>4
<1>8. OwedIsOut'
  <2> SUFFICES ASSUME NEW d \in owed'
               PROVE /\ d \in [manifest : {"root", "authority"}, authority : Authorities]
                     /\ d.manifest = "root" =>
                            d.authority.authority \notin activeAuthorities'[d.authority.root]
                     /\ d.manifest = "authority" =>
                            \A n \in activeIssuers' : AuthorityOf(n) # d.authority
    BY DEF OwedIsOut
  <2>1. d \in owed /\ d # [manifest |-> "authority", authority |-> a] BY <1>2
  <2>2. d.manifest = "authority" => d.authority # a BY <1>1, <2>1 DEF OwedIsOut
  <2>3. d.manifest = "authority" => \A n \in activeIssuers' : AuthorityOf(n) # d.authority
    BY <1>1, <1>2, <2>1, <2>2 DEF OwedIsOut, ReplaceIssuerContext
  <2> QED BY <1>1, <1>2, <2>1, <2>3 DEF OwedIsOut
<1> QED BY <1>5, <1>6, <1>7, <1>8 DEF StoresInv

\* A status event reaches the issuer and its real rows alike.
LEMMA RetierKeeps ==
    ASSUME StoresInv, NEW n \in Namespaces, NEW tier \in Tiers, UpdateIssuerAssuranceTier(n, tier)
    PROVE  StoresInv'
<1>1. StoresTypeOK /\ RowsWithinMemory /\ RowsFollowManifests /\ OwedIsOut BY DEF StoresInv
<1> DEFINE row(k) == IF NamespaceOf(k) = n /\ rows[k] # None /\ rows[k].tier # None
                     THEN [rows[k] EXCEPT !.tier = tier] ELSE rows[k]
           issuer(k) == IF NamespaceOf(k) = n /\ issuers[k] # None
                        THEN [issuers[k] EXCEPT !.tier = tier] ELSE issuers[k]
<1>2. /\ rows' = [k \in Keys |-> row(k)] /\ issuers' = [k \in Keys |-> issuer(k)]
      /\ UNCHANGED <<published, policyMap, activeAuthorities, activeIssuers, rowOrder, owed>>
      /\ ops' = ops + 1 /\ ops < MaxOps
  BY DEF UpdateIssuerAssuranceTier, Retier, Counted
<1>3. ASSUME NEW k \in Keys
      PROVE  /\ row(k) \in Row \union {None}
             /\ row(k) # None => rows[k] # None
             /\ row(k) # None => /\ row(k).rootOk = rows[k].rootOk
                                 /\ row(k).authorityOk = rows[k].authorityOk
                                 /\ row(k).hosts = rows[k].hosts
                                 /\ row(k).until = rows[k].until
                                 /\ row(k).tier # None => rows[k].tier # None
             /\ NamespaceOf(k) # n => row(k) = rows[k]
             /\ NamespaceOf(k) = n /\ row(k) # None /\ row(k).tier # None => row(k).tier = tier
  <2>1. rows[k] \in Row \union {None} BY <1>1 DEF StoresTypeOK, Row
  <2> QED BY <2>1 DEF Row
<1>4. ASSUME NEW k \in Keys
      PROVE  /\ issuer(k) \in IssuerProjection \union {None}
             /\ issuers[k] # None => issuer(k) # None /\ issuer(k).until = issuers[k].until
             /\ NamespaceOf(k) # n => issuer(k) = issuers[k]
             /\ NamespaceOf(k) = n /\ issuers[k] # None => issuer(k).tier = tier
  <2>1. issuers[k] \in IssuerProjection \union {None} BY <1>1 DEF StoresTypeOK
  <2> QED BY <2>1, RecordsAssumption DEF IssuerProjection
<1> HIDE DEF row, issuer
<1>5. \A k \in Keys : rows'[k] = row(k) /\ issuers'[k] = issuer(k) BY <1>2
<1>6. StoresTypeOK'
  <2>1. rows' \in [Keys -> Row \union {None}] BY <1>2, <1>3
  <2>2. issuers' \in [Keys -> IssuerProjection \union {None}] BY <1>2, <1>4
  <2> QED
    BY <1>1, <1>2, <2>1, <2>2, RecordsAssumption DEF StoresTypeOK, Row, published, policyMap
<1>7. RowsWithinMemory'
  <2> SUFFICES ASSUME NEW k \in Keys, rows'[k] # None
               PROVE /\ rows'[k].tier # None =>
                            /\ issuers'[k] # None /\ issuers'[k].tier = rows'[k].tier
                            /\ rows'[k].until <= issuers'[k].until
                     /\ rows'[k].hosts # {} =>
                            /\ policies'[k] # None /\ policies'[k].hosts = rows'[k].hosts
                            /\ rows'[k].until <= policies'[k].until
    BY DEF RowsWithinMemory
  <2>1. rows[k] # None /\ policies' = policies BY <1>2, <1>3, <1>5 DEF policyMap
  <2>2. rows'[k].tier # None => /\ issuers[k] # None /\ issuers[k].tier = rows[k].tier
                                /\ rows[k].until <= issuers[k].until
    BY <1>1, <1>3, <1>5, <2>1 DEF RowsWithinMemory
  <2>3. rows'[k].hosts # {} =>
            /\ policies'[k] # None /\ policies'[k].hosts = rows'[k].hosts
            /\ rows'[k].until <= policies'[k].until
    BY <1>1, <1>3, <1>5, <2>1 DEF RowsWithinMemory
  <2>4. CASE NamespaceOf(k) = n BY <1>3, <1>4, <1>5, <2>2, <2>3, <2>4
  <2>5. CASE NamespaceOf(k) # n BY <1>3, <1>4, <1>5, <2>2, <2>3, <2>5
  <2> QED BY <2>4, <2>5
<1>8. RowsFollowManifests'
  BY <1>1, <1>2, <1>3, <1>5
  DEF RowsFollowManifests, RootAuthorizes, AuthorityAuthorizes, published
<1>9. OwedIsOut' BY <1>1, <1>2 DEF OwedIsOut
<1> QED BY <1>6, <1>7, <1>8, <1>9 DEF StoresInv

\* A row goes with, or before, what it was merged from.
LEMMA RemovalsKeep ==
    ASSUME StoresInv,
           \/ \E n \in Namespaces : RemoveIssuer(n)
           \/ \E k \in Keys : RemoveDestinationPolicy(k)
    PROVE  StoresInv'
<1>1. StoresTypeOK /\ RowsWithinMemory /\ RowsFollowManifests /\ OwedIsOut BY DEF StoresInv
<1>2. PICK gone :
        /\ DeletePolicies(gone) /\ DeleteRows(gone)
        /\ \/ issuers' = [k \in Keys |-> IF k \in gone THEN None ELSE issuers[k]]
           \/ issuers' = issuers
        /\ UNCHANGED <<published, activeAuthorities, activeIssuers, owed>>
        /\ ops' = ops + 1 /\ ops < MaxOps
  <2>1. ASSUME NEW n \in Namespaces, RemoveIssuer(n)
        PROVE  LET gone == {k \in Keys : NamespaceOf(k) = n}
               IN  /\ DeletePolicies(gone) /\ DeleteRows(gone)
                   /\ issuers' = [k \in Keys |-> IF k \in gone THEN None ELSE issuers[k]]
                   /\ UNCHANGED <<published, activeAuthorities, activeIssuers, owed>>
                   /\ ops' = ops + 1 /\ ops < MaxOps
    BY <2>1 DEF RemoveIssuer, DeleteIssuerRows, Counted
  <2>2. ASSUME NEW k \in Keys, RemoveDestinationPolicy(k)
        PROVE  /\ DeletePolicies({k}) /\ DeleteRows({k}) /\ issuers' = issuers
               /\ UNCHANGED <<published, activeAuthorities, activeIssuers, owed>>
               /\ ops' = ops + 1 /\ ops < MaxOps
    BY <2>2 DEF RemoveDestinationPolicy, Counted
  <2> QED BY <2>1, <2>2, Zenon
<1>3. /\ rows' \in [Keys -> Row \union {None}] /\ rowOrder' \in SUBSET (Keys \X Keys)
      /\ \A k \in Keys : rows'[k] = IF k \in gone THEN None ELSE rows[k]
  BY <1>1, <1>2, DeletedRows
<1>4. /\ policies' \in [Keys -> DestinationPolicyProjection \union {None}]
      /\ policyOrder' \in SUBSET (Keys \X Keys)
      /\ \A k \in Keys : policies'[k] = IF k \in gone THEN None ELSE policies[k]
  BY <1>1, <1>2, DeletedPolicies
<1>5. /\ issuers' \in [Keys -> IssuerProjection \union {None}]
      /\ \A k \in Keys : k \notin gone => issuers'[k] = issuers[k]
  BY <1>1, <1>2 DEF StoresTypeOK
<1>6. StoresTypeOK'
  BY <1>1, <1>2, <1>3, <1>4, <1>5, RecordsAssumption DEF StoresTypeOK, Row, published
<1>7. RowsWithinMemory' BY <1>1, <1>3, <1>4, <1>5 DEF RowsWithinMemory
<1>8. RowsFollowManifests'
  BY <1>1, <1>2, <1>3 DEF RowsFollowManifests, RootAuthorizes, AuthorityAuthorizes, published
<1>9. OwedIsOut' BY <1>1, <1>2 DEF OwedIsOut
<1> QED BY <1>6, <1>7, <1>8, <1>9 DEF StoresInv

\* A revoked authority loses both grants at once and owes both manifests.
LEMMA RevocationKeeps ==
    ASSUME StoresInv, NEW a \in Authorities, RemoveDelegatedAuthority(a)
    PROVE  StoresInv'
<1>1. StoresTypeOK /\ RowsWithinMemory /\ RowsFollowManifests /\ OwedIsOut BY DEF StoresInv
<1> DEFINE gone == {k \in Keys : AuthorityOf(k) = a}
<1>2. /\ DeletePolicies(gone) /\ DeleteRows(gone)
      /\ issuers' = [k \in Keys |-> IF AuthorityOf(k) = a THEN None ELSE issuers[k]]
      /\ activeAuthorities' = [activeAuthorities EXCEPT ![a.root] = @ \ {a.authority}]
      /\ activeIssuers' = DropIssuerContext(a)
      /\ owed' = owed \union {[manifest |-> m, authority |-> a] : m \in {"root", "authority"}}
      /\ UNCHANGED published /\ ops' = ops + 1 /\ ops < MaxOps
  BY DEF RemoveDelegatedAuthority, Counted
<1>3. /\ rows' \in [Keys -> Row \union {None}] /\ rowOrder' \in SUBSET (Keys \X Keys)
      /\ \A k \in Keys : rows'[k] = IF k \in gone THEN None ELSE rows[k]
  BY <1>1, <1>2, DeletedRows
<1>4. /\ policies' \in [Keys -> DestinationPolicyProjection \union {None}]
      /\ policyOrder' \in SUBSET (Keys \X Keys)
      /\ \A k \in Keys : policies'[k] = IF k \in gone THEN None ELSE policies[k]
  BY <1>1, <1>2, DeletedPolicies
<1>5. /\ issuers' \in [Keys -> IssuerProjection \union {None}]
      /\ \A k \in Keys : k \notin gone => issuers'[k] = issuers[k]
  BY <1>1, <1>2 DEF StoresTypeOK
<1>6. activeIssuers' \subseteq activeIssuers /\ \A n \in activeIssuers' : AuthorityOf(n) # a
  BY <1>2 DEF DropIssuerContext
<1>7. /\ activeAuthorities' \in [Roots -> SUBSET AuthorityIds]
      /\ \A r \in Roots : activeAuthorities'[r] \subseteq activeAuthorities[r]
      /\ a.authority \notin activeAuthorities'[a.root]
  BY <1>1, <1>2, AuthorityParts DEF StoresTypeOK
<1>8. StoresTypeOK'
  BY <1>1, <1>2, <1>3, <1>4, <1>5, <1>6, <1>7, RecordsAssumption DEF StoresTypeOK, Row, published
<1>9. RowsWithinMemory' BY <1>1, <1>3, <1>4, <1>5 DEF RowsWithinMemory
<1>10. RowsFollowManifests'
  BY <1>1, <1>2, <1>3 DEF RowsFollowManifests, RootAuthorizes, AuthorityAuthorizes, published
<1>11. OwedIsOut' BY <1>1, <1>2, <1>6, <1>7, AuthorityParts DEF OwedIsOut
<1> QED BY <1>8, <1>9, <1>10, <1>11 DEF StoresInv

\* The invariant holds of every behaviour of the stores.
LEMMA StoresInvariant == StoresSpec => []StoresInv
<1>1. StoresInit => StoresInv
  BY RecordsAssumption, KeyParts
  DEF StoresInit, StoresInv, StoresTypeOK, RowsWithinMemory, RowsFollowManifests, OwedIsOut,
      Roots, Authorities, AuthorityIds, IssuerIds, Namespaces, AuthorityOf
<1>2. ASSUME StoresInv, StoresNext PROVE StoresInv'
  BY <1>2, UpsertIssuerKeeps, UpsertPolicyKeeps, PublishKeeps, RootContextKeeps,
     IssuerContextKeeps, RetierKeeps, RemovalsKeep, RevocationKeeps, Zenon DEF StoresNext
<1>3. ASSUME StoresInv, UNCHANGED storesVars PROVE StoresInv'
  BY <1>3
  DEF storesVars, StoresInv, StoresTypeOK, RowsWithinMemory, RowsFollowManifests, OwedIsOut,
      RootAuthorizes, AuthorityAuthorizes
<1>4. StoresInv /\ [StoresNext]_storesVars => StoresInv' BY <1>2, <1>3
<1> QED BY <1>1, <1>4, PTL DEF StoresSpec

-----------------------------------------------------------------------------
\* An answer comes from an eligible policy with an issuer.
LEMMA MatchIsEligible ==
    ASSUME NEW ps, NEW order, NEW known, NEW context, NEW h,
           FirstPolicyMatch(ps, order, known, context, h) # None
    PROVE  \E k \in Keys :
              /\ Eligible(k, ps[k], context, h) /\ known[k] # None
              /\ FirstPolicyMatch(ps, order, known, context, h)
                     = MaterializeIssuer(k, known[k], ps[k])
<1> DEFINE match == {k \in Keys : Eligible(k, ps[k], context, h)}
           first == {k \in match : \A j \in match \ {k} : <<k, j>> \in order}
           answer == {MaterializeIssuer(k, known[k], ps[k]) : k \in {j \in first : known[j] # None}}
<1>1. FirstPolicyMatch(ps, order, known, context, h)
          = IF answer = {} THEN None ELSE CHOOSE found \in answer : TRUE
  BY DEF FirstPolicyMatch
<1>2. FirstPolicyMatch(ps, order, known, context, h) \in answer
  <2> HIDE DEF answer
  <2> QED BY <1>1
<1> QED BY <1>2

\* A revoked delegated authority answers from memory for none of its issuers, whatever is
\* upserted for them, until its root's manifest and its own have been synced again: for
\* any keys, hosts, records and number of artifacts (removeDelegatedAuthority and the two
\* context writers of makeInMemoryVerifierCache).
THEOREM RevokedAuthorityAlwaysStaysOut == StoresSpec => []RevokedAuthorityStaysOut
<1>1. ASSUME StoresInv PROVE RevokedAuthorityStaysOut
  <2> SUFFICES ASSUME NEW h \in Hosts, MemoryResolve(h) # None, NEW d \in owed
               PROVE  d.authority # AuthorityOf(MemoryResolve(h).key)
    BY DEF RevokedAuthorityStaysOut
  <2>1. PICK k \in Keys :
          /\ Eligible(k, policies[k], MemoryContext, h) /\ issuers[k] # None
          /\ MemoryResolve(h) = MaterializeIssuer(k, issuers[k], policies[k])
    BY MatchIsEligible DEF MemoryResolve
  <2>2. MemoryResolve(h).key = k BY <2>1 DEF MaterializeIssuer
  <2>3. k.authority \in activeAuthorities[k.root] /\ NamespaceOf(k) \in activeIssuers
    BY <2>1, KeyParts DEF Eligible, MemoryContext
  <2>4. /\ d \in [manifest : {"root", "authority"}, authority : Authorities]
        /\ d.manifest = "root" => d.authority.authority \notin activeAuthorities[d.authority.root]
        /\ d.manifest = "authority" => \A n \in activeIssuers : AuthorityOf(n) # d.authority
    BY <1>1 DEF StoresInv, OwedIsOut
  <2> QED BY <2>2, <2>3, <2>4, KeyParts
<1> QED BY <1>1, StoresInvariant, PTL

\* A manifest that is synced and that no revocation suspends grants in memory what it
\* grants where it is published.
MemoryFollowsManifests ==
    \A k \in Keys :
        /\ RootAuthorizes(k) =>
              \/ k.root \in rootDue
              \/ [manifest |-> "root", authority |-> AuthorityOf(k)] \in owed
              \/ k.authority \in activeAuthorities[k.root]
        /\ AuthorityAuthorizes(k) =>
              \/ AuthorityOf(k) \in authorityDue
              \/ [manifest |-> "authority", authority |-> AuthorityOf(k)] \in owed
              \/ NamespaceOf(k) \in activeIssuers

\* The two writers of the context and the revocation keep memory in step.
LEMMA MemoryFollows == StoresSpec => []MemoryFollowsManifests
<1>1. StoresInit => MemoryFollowsManifests
  BY KeyParts DEF StoresInit, MemoryFollowsManifests, RootAuthorizes, AuthorityAuthorizes
<1>2. ASSUME StoresInv, MemoryFollowsManifests, [StoresNext]_storesVars
      PROVE  MemoryFollowsManifests'
  <2> USE DEF RootAuthorizes, AuthorityAuthorizes
  <2>t. StoresTypeOK BY <1>2 DEF StoresInv
  <2>1. CASE UNCHANGED <<published, activeAuthorities, activeIssuers, owed>>
    BY <1>2, <2>1 DEF MemoryFollowsManifests, published
  <2>2. ASSUME NEW r \in Roots, NEW ids \in SUBSET AuthorityIds, PublishRootManifest(r, ids)
        PROVE  MemoryFollowsManifests'
    BY <1>2, <2>2, <2>t DEF PublishRootManifest, MemoryFollowsManifests, memory, StoresTypeOK
  <2>3. ASSUME NEW a \in Authorities, NEW ids \in SUBSET IssuerIds, PublishAuthorityManifest(a, ids)
        PROVE  MemoryFollowsManifests'
    BY <1>2, <2>3, <2>t DEF PublishAuthorityManifest, MemoryFollowsManifests, memory, StoresTypeOK
  <2>4. ASSUME NEW r \in Roots, UpsertRootAuthorityContext(r) PROVE MemoryFollowsManifests'
    <3> SUFFICES ASSUME NEW k \in Keys
                 PROVE  /\ RootAuthorizes(k)' =>
                              \/ k.root \in rootDue'
                              \/ [manifest |-> "root", authority |-> AuthorityOf(k)] \in owed'
                              \/ k.authority \in activeAuthorities'[k.root]
                        /\ AuthorityAuthorizes(k)' =>
                              \/ AuthorityOf(k) \in authorityDue'
                              \/ [manifest |-> "authority", authority |-> AuthorityOf(k)] \in owed'
                              \/ NamespaceOf(k) \in activeIssuers'
      BY DEF MemoryFollowsManifests
    <3>1. /\ rootManifest' = rootManifest /\ authorityManifest' = authorityManifest
          /\ authorityDue' = authorityDue /\ activeIssuers' = activeIssuers
          /\ activeAuthorities' = [activeAuthorities EXCEPT ![r] = rootManifest[r]]
          /\ rootDue' = rootDue \ {r}
          /\ owed' = {d \in owed : d.manifest # "root" \/ d.authority.root # r}
      BY <2>4 DEF UpsertRootAuthorityContext
    <3>2. k.root \in Roots /\ AuthorityOf(k).root = k.root BY KeyParts
    <3> DEFINE m == [manifest |-> "root", authority |-> AuthorityOf(k)]
               n == [manifest |-> "authority", authority |-> AuthorityOf(k)]
    <3>3. m.manifest = "root" /\ m.authority = AuthorityOf(k) /\ n.manifest = "authority" OBVIOUS
    <3>4. m \in owed /\ k.root # r => m \in owed' BY <3>1, <3>2, <3>3
    <3>5. n \in owed => n \in owed' BY <3>1, <3>3
    <3> HIDE DEF m, n
    <3>6. /\ k.root \notin rootDue /\ m \notin owed /\ RootAuthorizes(k)
                => k.authority \in activeAuthorities[k.root]
          /\ AuthorityOf(k) \notin authorityDue /\ n \notin owed /\ AuthorityAuthorizes(k)
                => NamespaceOf(k) \in activeIssuers
      BY <1>2 DEF MemoryFollowsManifests, m, n
    <3>7. CASE k.root = r
      BY <2>t, <3>1, <3>2, <3>5, <3>6, <3>7 DEF StoresTypeOK, n
    <3>8. CASE k.root # r
      BY <2>t, <3>1, <3>2, <3>4, <3>5, <3>6, <3>8 DEF StoresTypeOK, m, n
    <3> QED BY <3>7, <3>8
  <2>5. ASSUME NEW a \in Authorities, UpsertDelegatedAuthorityIssuerContext(a)
        PROVE  MemoryFollowsManifests'
    <3> SUFFICES ASSUME NEW k \in Keys
                 PROVE  /\ RootAuthorizes(k)' =>
                              \/ k.root \in rootDue'
                              \/ [manifest |-> "root", authority |-> AuthorityOf(k)] \in owed'
                              \/ k.authority \in activeAuthorities'[k.root]
                        /\ AuthorityAuthorizes(k)' =>
                              \/ AuthorityOf(k) \in authorityDue'
                              \/ [manifest |-> "authority", authority |-> AuthorityOf(k)] \in owed'
                              \/ NamespaceOf(k) \in activeIssuers'
      BY DEF MemoryFollowsManifests
    <3>1. /\ rootManifest' = rootManifest /\ authorityManifest' = authorityManifest
          /\ rootDue' = rootDue /\ activeAuthorities' = activeAuthorities
          /\ authorityDue' = authorityDue \ {a}
          /\ activeIssuers' = ReplaceIssuerContext(a)
          /\ owed' = owed \ {[manifest |-> "authority", authority |-> a]}
      BY <2>5 DEF UpsertDelegatedAuthorityIssuerContext
    <3>2. /\ NamespaceOf(k) \in Namespaces /\ AuthorityOf(NamespaceOf(k)) = AuthorityOf(k)
          /\ NamespaceOf(k).issuer = k.issuer
      BY KeyParts
    <3>3. CASE AuthorityOf(k) = a
      BY <1>2, <3>1, <3>2, <3>3 DEF MemoryFollowsManifests, ReplaceIssuerContext
    <3>4. CASE AuthorityOf(k) # a
      BY <1>2, <3>1, <3>2, <3>4 DEF MemoryFollowsManifests, ReplaceIssuerContext
    <3> QED BY <3>3, <3>4
  <2>6. ASSUME NEW a \in Authorities, RemoveDelegatedAuthority(a) PROVE MemoryFollowsManifests'
    <3> SUFFICES ASSUME NEW k \in Keys
                 PROVE  /\ RootAuthorizes(k)' =>
                              \/ k.root \in rootDue'
                              \/ [manifest |-> "root", authority |-> AuthorityOf(k)] \in owed'
                              \/ k.authority \in activeAuthorities'[k.root]
                        /\ AuthorityAuthorizes(k)' =>
                              \/ AuthorityOf(k) \in authorityDue'
                              \/ [manifest |-> "authority", authority |-> AuthorityOf(k)] \in owed'
                              \/ NamespaceOf(k) \in activeIssuers'
      BY DEF MemoryFollowsManifests
    <3>1. /\ rootManifest' = rootManifest /\ authorityManifest' = authorityManifest
          /\ rootDue' = rootDue /\ authorityDue' = authorityDue
          /\ activeAuthorities' = [activeAuthorities EXCEPT ![a.root] = @ \ {a.authority}]
          /\ activeIssuers' = DropIssuerContext(a)
          /\ owed' = owed \union {[manifest |-> m, authority |-> a] : m \in {"root", "authority"}}
      BY <2>6 DEF RemoveDelegatedAuthority, published
    <3>2. /\ AuthorityOf(NamespaceOf(k)) = AuthorityOf(k) /\ k.root \in Roots
          /\ AuthorityOf(k) = [root |-> k.root, authority |-> k.authority]
          /\ a = [root |-> a.root, authority |-> a.authority] /\ a.root \in Roots
      BY KeyParts, AuthorityParts
    <3>3. CASE AuthorityOf(k) = a
      BY <3>1, <3>3
    <3>4. CASE AuthorityOf(k) # a
      <4>1. k.root # a.root \/ k.authority # a.authority BY <3>2, <3>4
      <4>2. k.authority \in activeAuthorities[k.root] => k.authority \in activeAuthorities'[k.root]
        BY <2>t, <3>1, <3>2, <4>1 DEF StoresTypeOK
      <4>3. NamespaceOf(k) \in activeIssuers => NamespaceOf(k) \in activeIssuers'
        BY <3>1, <3>2, <3>4 DEF DropIssuerContext
      <4> QED BY <1>2, <3>1, <4>2, <4>3 DEF MemoryFollowsManifests
    <3> QED BY <3>3, <3>4
  <2>7. CASE UNCHANGED storesVars BY <2>1, <2>7 DEF storesVars, published
  <2>8. ASSUME NEW k \in Keys,
               \/ \E rec \in IssuerRecords : UpsertIssuer(k, rec)
               \/ \E rec \in PolicyRecords : UpsertDestinationPolicy(k, rec)
               \/ RemoveDestinationPolicy(k)
        PROVE  MemoryFollowsManifests'
    BY <2>1, <2>8 DEF UpsertIssuer, UpsertDestinationPolicy, RemoveDestinationPolicy
  <2>9. ASSUME NEW n \in Namespaces,
               RemoveIssuer(n) \/ \E tier \in Tiers : UpdateIssuerAssuranceTier(n, tier)
        PROVE  MemoryFollowsManifests'
    BY <2>1, <2>9 DEF RemoveIssuer, UpdateIssuerAssuranceTier
  <2> QED BY <1>2, <2>2, <2>3, <2>4, <2>5, <2>6, <2>7, <2>8, <2>9, Zenon DEF StoresNext
<1> QED BY <1>1, <1>2, StoresInvariant, PTL DEF StoresSpec

\* What the Postgres cache answers for a host, the in-memory cache fed the same artifacts
\* holds as well, with the same tier and no earlier expiry; and its issuer is authorized in
\* memory too, unless a manifest above it waits to be synced or its revoked authority owes
\* one: for any keys, hosts, records and number of artifacts
\* (makePostgresVerifierCacheWriter beside makeInMemoryVerifierCache).
THEOREM PostgresAlwaysWithinMemory == StoresSpec => []PostgresWithinMemory
<1>1. ASSUME StoresInv, MemoryFollowsManifests PROVE PostgresWithinMemory
  <2> SUFFICES ASSUME NEW h \in Hosts, PostgresResolve(h) # None
               PROVE  /\ \E m \in HeldInMemory(h) :
                            /\ m.key = PostgresResolve(h).key /\ m.tier = PostgresResolve(h).tier
                            /\ PostgresResolve(h).until <= m.until
                      /\ \/ NamespaceOf(PostgresResolve(h).key) \in MemoryContext
                         \/ Unsettled(NamespaceOf(PostgresResolve(h).key))
    BY DEF PostgresWithinMemory
  <2>1. PICK k \in Keys :
          /\ Eligible(k, Loaded[k], SeededContext, h)
          /\ PostgresResolve(h) = MaterializeIssuer(k, Loaded[k], Loaded[k])
    BY MatchIsEligible DEF PostgresResolve
  <2>2. RowDecodes(rows[k]) /\ Loaded[k] = rows[k] BY <2>1 DEF Eligible, Loaded
  <2>3. rows[k] # None /\ rows[k].rootOk /\ rows[k].authorityOk /\ rows[k].tier # None
    BY <2>2 DEF RowDecodes
  <2>4. h \in rows[k].hosts BY <2>1, <2>2 DEF Eligible
  <2>5. /\ issuers[k] # None /\ issuers[k].tier = rows[k].tier
        /\ rows[k].until <= issuers[k].until
        /\ policies[k] # None /\ policies[k].hosts = rows[k].hosts
        /\ rows[k].until <= policies[k].until
    BY <1>1, <2>3, <2>4 DEF StoresInv, RowsWithinMemory
  <2>6. /\ PostgresResolve(h).key = k /\ PostgresResolve(h).tier = rows[k].tier
        /\ PostgresResolve(h).until = FirstDate(rows[k].until, rows[k].until)
    BY <2>1, <2>2 DEF MaterializeIssuer
  <2>7. NamespaceOf(k) \in MemoryContext \/ Unsettled(NamespaceOf(k))
    <3> SUFFICES ASSUME ~Unsettled(NamespaceOf(k)) PROVE NamespaceOf(k) \in MemoryContext
      OBVIOUS
    <3>1. /\ k.root \notin rootDue /\ AuthorityOf(k) \notin authorityDue
          /\ \A d \in owed : d.authority # AuthorityOf(k)
      BY KeyParts DEF Unsettled
    <3>2. RootAuthorizes(k) /\ AuthorityAuthorizes(k)
      BY <1>1, <2>3, <3>1 DEF StoresInv, RowsFollowManifests
    <3>3. \A m : [manifest |-> m, authority |-> AuthorityOf(k)] \notin owed BY <3>1
    <3>4. k.authority \in activeAuthorities[k.root] /\ NamespaceOf(k) \in activeIssuers
      BY <1>1, <3>1, <3>2, <3>3 DEF MemoryFollowsManifests
    <3> QED BY <3>4, KeyParts DEF MemoryContext
  <2>8. MaterializeIssuer(k, issuers[k], policies[k]) \in HeldInMemory(h)
    BY <2>4, <2>5 DEF HeldInMemory
  <2>9. rows[k].until \in Nat /\ issuers[k].until \in Nat /\ policies[k].until \in Nat
    BY <1>1, <2>3, <2>5
    DEF StoresInv, StoresTypeOK, IssuerProjection, DestinationPolicyProjection
  <2>10. FirstDate(rows[k].until, rows[k].until) <= FirstDate(issuers[k].until, policies[k].until)
    BY <2>5, <2>9 DEF FirstDate
  <2>11. /\ MaterializeIssuer(k, issuers[k], policies[k]).key = k
         /\ MaterializeIssuer(k, issuers[k], policies[k]).tier = issuers[k].tier
         /\ MaterializeIssuer(k, issuers[k], policies[k]).until
                = FirstDate(issuers[k].until, policies[k].until)
    BY DEF MaterializeIssuer
  <2> QED BY <2>5, <2>6, <2>7, <2>8, <2>10, <2>11
<1> QED BY <1>1, StoresInvariant, MemoryFollows, PTL

-----------------------------------------------------------------------------
(* The read model workers *)

\* The state of a worker is a record, a function of the artifacts' roles in it.
WorkersShaped ==
    /\ worker = [w \in Workers |-> worker[w]]
    /\ \A w \in Workers :
          /\ worker[w] = [pc |-> worker[w].pc, batch |-> worker[w].batch,
                          stage |-> worker[w].stage, chain |-> worker[w].chain,
                          seen |-> worker[w].seen, ok |-> worker[w].ok, bad |-> worker[w].bad]
          /\ worker[w].chain = [r \in Roles |-> worker[w].chain[r]]
          /\ worker[w].stage \in Nat

EntryShaped ==
    entryRow # NoEntry =>
        entryRow = [sources |-> entryRow.sources, expires |-> entryRow.expires,
                    freshness |-> entryRow.freshness, context |-> entryRow.context]

\* A worker at work has seen everything that is in force, and what it has fetched to
\* materialize its item is among what it has seen.
SeenInForce ==
    \A w \in Workers : worker[w].pc # "idle" => \A r \in Roles : store[r] \in worker[w].seen

FetchedIsSeen ==
    \A w \in Workers : worker[w].pc = "materialize" =>
        \A i \in 1 .. 5 : i < worker[w].stage =>
            worker[w].chain[MaterializerOrder[i]] \in worker[w].seen

QueueInv == WorkersShaped /\ EntryShaped /\ SeenInForce /\ FetchedIsSeen

\* One worker's fields change to those of u.
Becomes(w, u) ==
    /\ worker' = [worker EXCEPT ![w] = u]
    /\ u = [pc |-> u.pc, batch |-> u.batch, stage |-> u.stage, chain |-> u.chain,
            seen |-> u.seen, ok |-> u.ok, bad |-> u.bad]
    /\ u.chain = [r \in Roles |-> u.chain[r]]
    /\ u.stage \in Nat

\* A step of one worker keeps the invariant if what it turns into keeps its part.
LEMMA OneWorker ==
  ASSUME QueueInv, EntryShaped', store' = store, NEW w \in Workers, NEW u, Becomes(w, u),
         u.pc # "idle" => \A r \in Roles : store[r] \in u.seen,
         u.pc = "materialize" => \A i \in 1 .. 5 : i < u.stage =>
                                     u.chain[MaterializerOrder[i]] \in u.seen
  PROVE  QueueInv'
<1>1. \A v \in Workers : worker'[v] = IF v = w THEN u ELSE worker[v]
  BY DEF QueueInv, WorkersShaped, Becomes
<1>2. WorkersShaped'
  <2>1. worker' = [v \in Workers |-> worker'[v]] BY DEF QueueInv, WorkersShaped, Becomes
  <2> QED BY <1>1, <2>1 DEF QueueInv, WorkersShaped, Becomes
<1>3. SeenInForce' BY <1>1 DEF QueueInv, SeenInForce
<1>4. FetchedIsSeen' BY <1>1 DEF QueueInv, FetchedIsSeen
<1> QED BY <1>2, <1>3, <1>4 DEF QueueInv

\* A settled item leaves the worker at the beginning of the next.
LEMMA SettledShape ==
  ASSUME QueueInv, NEW w \in Workers, NEW ok \in BOOLEAN
  PROVE  LET u == Settled(w, ok)
         IN  /\ u = [pc |-> u.pc, batch |-> u.batch, stage |-> u.stage, chain |-> u.chain,
                     seen |-> u.seen, ok |-> u.ok, bad |-> u.bad]
             /\ u.chain = NoChain /\ u.stage = 1 /\ u.seen = worker[w].seen
<1> DEFINE x == worker[w]
           rest == Tail(x.batch)
           next == IF rest = <<>> THEN "complete" ELSE FirstPhase
           done == [x EXCEPT !.batch = rest, !.stage = 1, !.chain = NoChain, !.pc = next]
<1>1. x = [pc |-> x.pc, batch |-> x.batch, stage |-> x.stage, chain |-> x.chain,
           seen |-> x.seen, ok |-> x.ok, bad |-> x.bad]
  BY DEF QueueInv, WorkersShaped
<1> HIDE DEF x, rest, next
<1>2. PICK y : y = done OBVIOUS
<1>5. y = [pc |-> next, batch |-> rest, stage |-> 1, chain |-> NoChain,
           seen |-> x.seen, ok |-> x.ok, bad |-> x.bad]
  BY <1>1, <1>2
<1> HIDE DEF done
<1>3. CASE ok
  <2>1. Settled(w, ok) = [y EXCEPT !.ok = @ \union {Current(w)}]
    BY <1>2, <1>3 DEF Settled, done, next, rest, x
  <2> QED BY <1>5, <2>1 DEF x
<1>4. CASE ~ok
  <2>1. Settled(w, ok) = [y EXCEPT !.bad = @ \union {Current(w)}]
    BY <1>2, <1>4 DEF Settled, done, next, rest, x
  <2> QED BY <1>5, <2>1 DEF x
<1> QED BY <1>3, <1>4

\* A worker that is done with an item keeps the invariant.
LEMMA SettlingKeeps ==
  ASSUME QueueInv, EntryShaped', store' = store, NEW w \in Workers, NEW ok \in BOOLEAN,
         worker[w].pc # "idle", worker' = [worker EXCEPT ![w] = Settled(w, ok)]
  PROVE  QueueInv'
<1> DEFINE u == Settled(w, ok)
<1>1. /\ u = [pc |-> u.pc, batch |-> u.batch, stage |-> u.stage, chain |-> u.chain,
              seen |-> u.seen, ok |-> u.ok, bad |-> u.bad]
      /\ u.chain = NoChain /\ u.stage = 1 /\ u.seen = worker[w].seen
  BY SettledShape
<1>2. NoChain = [r \in Roles |-> NoChain[r]] BY DEF NoChain
<1>3. worker' = [worker EXCEPT ![w] = u] OBVIOUS
<1> HIDE DEF u
<1>4. Becomes(w, u)
  <2>1. u.chain = [r \in Roles |-> u.chain[r]] BY <1>1, <1>2
  <2>2. u.stage \in Nat BY <1>1
  <2> QED BY <1>1, <1>3, <2>1, <2>2, Zenon DEF Becomes
<1>5. \A r \in Roles : store[r] \in u.seen BY <1>1 DEF QueueInv, SeenInForce
<1> QED BY <1>1, <1>4, <1>5, OneWorker

\* A fetch adds what is in force to the chain.
LEMMA FetchKeeps ==
  ASSUME QueueInv, NEW w \in Workers, NEW pc \in {"authorize", "materialize"}, NEW order,
         order \in [1 .. 5 -> Roles], pc = "materialize" => order = MaterializerOrder,
         Fetch(w, pc, order)
  PROVE  QueueInv'
<1> DEFINE x == worker[w]
           r == order[x.stage]
<1>1. /\ x.pc = pc /\ x.stage \in 1 .. 5 /\ store' = store /\ entryRow' = entryRow
      /\ worker' = IF store[r] = NoArtifact
                     THEN [worker EXCEPT ![w] = Settled(w, FALSE)]
                     ELSE [worker EXCEPT ![w].chain[r] = store[r], ![w].stage = @ + 1]
  BY DEF Fetch
<1>2. EntryShaped' BY <1>1 DEF QueueInv, EntryShaped
<1>3. CASE store[r] = NoArtifact
  <2>1. worker' = [worker EXCEPT ![w] = Settled(w, FALSE)] BY <1>1, <1>3
  <2>2. worker[w].pc # "idle" BY <1>1
  <2> QED BY <1>1, <1>2, <2>1, <2>2, SettlingKeeps
<1>4. CASE store[r] # NoArtifact
  <2>1. /\ x = [pc |-> x.pc, batch |-> x.batch, stage |-> x.stage, chain |-> x.chain,
                seen |-> x.seen, ok |-> x.ok, bad |-> x.bad]
        /\ x.chain = [q \in Roles |-> x.chain[q]] /\ x.stage \in Nat
        /\ worker = [v \in Workers |-> worker[v]]
    BY DEF QueueInv, WorkersShaped
  <2>2. PICK u : u = [x EXCEPT !.chain = [x.chain EXCEPT ![r] = store[r]], !.stage = x.stage + 1]
    OBVIOUS
  <2>3. worker' = [worker EXCEPT ![w] = u] BY <1>1, <1>4, <2>1, <2>2
  <2>4. r \in Roles BY <1>1
  <2>5. store[r] \in x.seen /\ \A q \in Roles : store[q] \in x.seen
    BY <1>1, <2>4 DEF QueueInv, SeenInForce
  <2> HIDE DEF r
  <2>6. /\ u = [pc |-> x.pc, batch |-> x.batch, stage |-> x.stage + 1,
                chain |-> [x.chain EXCEPT ![r] = store[r]],
                seen |-> x.seen, ok |-> x.ok, bad |-> x.bad]
    BY <2>1, <2>2
  <2>7. Becomes(w, u) BY <2>1, <2>3, <2>6 DEF Becomes
  <2>8. u.pc = "materialize" => \A i \in 1 .. 5 : i < u.stage =>
                                     u.chain[MaterializerOrder[i]] \in u.seen
    <3> SUFFICES ASSUME u.pc = "materialize", NEW i \in 1 .. 5, i < u.stage
                 PROVE  u.chain[MaterializerOrder[i]] \in u.seen
      OBVIOUS
    <3>1. order = MaterializerOrder /\ x.pc = "materialize" BY <1>1, <2>6
    <3>2. MaterializerOrder[i] \in Roles BY <3>1
    <3>3. CASE MaterializerOrder[i] = r BY <2>1, <2>4, <2>5, <2>6, <3>3
    <3>4. CASE MaterializerOrder[i] # r
      <4>1. i < x.stage BY <1>1, <2>1, <2>6, <3>1, <3>4 DEF r
      <4>2. x.chain[MaterializerOrder[i]] \in x.seen
        BY <3>1, <4>1 DEF QueueInv, FetchedIsSeen
      <4> QED BY <2>1, <2>6, <3>2, <3>4, <4>2
    <3> QED BY <3>3, <3>4
  <2> QED BY <1>1, <1>2, <2>5, <2>6, <2>7, <2>8, OneWorker
<1> QED BY <1>3, <1>4

\* Both lists of fetches name the five roles.
LEMMA Orders ==
  /\ AuthorizerOrder \in [1 .. 5 -> Roles] /\ MaterializerOrder \in [1 .. 5 -> Roles]
  /\ \A r \in Roles : \E i \in 1 .. 5 : MaterializerOrder[i] = r
BY DEF AuthorizerOrder, MaterializerOrder, Roles

\* A worker that is told nothing new about the artifacts.
LEMMA WorkerKeeps ==
  ASSUME QueueInv, NEW w \in Workers,
         \/ WorkerStep(w) \/ MaterializeThenFail(w) \/ FailItem(w) \/ WorkerCrash(w)
  PROVE  QueueInv'
<1> USE DEF IdleWorker
<1> DEFINE x == worker[w]
<1>0. /\ x = [pc |-> x.pc, batch |-> x.batch, stage |-> x.stage, chain |-> x.chain,
              seen |-> x.seen, ok |-> x.ok, bad |-> x.bad]
      /\ x.chain = [q \in Roles |-> x.chain[q]] /\ x.stage \in Nat
      /\ worker = [v \in Workers |-> worker[v]]
  BY DEF QueueInv, WorkersShaped
<1>1. NoChain = [r \in Roles |-> NoChain[r]] BY DEF NoChain
<1>2. IdleWorker = [pc |-> "idle", batch |-> <<>>, stage |-> 0, chain |-> NoChain, seen |-> {},
                    ok |-> {}, bad |-> {}]
  OBVIOUS
<1> HIDE DEF IdleWorker
<1>2a. CASE Claim(w) /\ ~RowsDecode(NextRows)
  <2>1. worker' = worker /\ store' = store /\ entryRow' = entryRow BY <1>2a DEF Claim
  <2> QED BY <2>1 DEF QueueInv, WorkersShaped, EntryShaped, SeenInForce, FetchedIsSeen
<1>3. CASE Claim(w) /\ RowsDecode(NextRows)
  <2>1. PICK b : b = SelectSeq([k \in ItemIds |-> k], LAMBDA k : k \in NextRows) OBVIOUS
  <2>2. PICK u : u = [IdleWorker EXCEPT !.pc = FirstPhase, !.stage = 1,
                                        !.seen = {store[r] : r \in Roles}, !.batch = b]
    OBVIOUS
  <2>3. worker' = [worker EXCEPT ![w] = u] /\ store' = store /\ entryRow' = entryRow
    BY <1>3, <2>1, <2>2 DEF Claim
  <2>4. u = [pc |-> FirstPhase, batch |-> b, stage |-> 1, chain |-> NoChain,
             seen |-> {store[r] : r \in Roles}, ok |-> {}, bad |-> {}]
    BY <1>2, <2>2
  <2>5. Becomes(w, u) BY <1>1, <2>3, <2>4 DEF Becomes
  <2>6. EntryShaped' BY <2>3 DEF QueueInv, EntryShaped
  <2>7. \A r \in Roles : store[r] \in u.seen BY <2>4
  <2> QED BY <2>3, <2>4, <2>5, <2>6, <2>7, OneWorker
<1>4. CASE FetchToAuthorize(w) BY <1>4, FetchKeeps, Orders DEF FetchToAuthorize
<1>5. CASE FetchToMaterialize(w) BY <1>5, FetchKeeps, Orders DEF FetchToMaterialize
<1>6. CASE Authorize(w)
  <2>1. EntryShaped' /\ store' = store BY <1>6 DEF Authorize, QueueInv, EntryShaped
  <2>2. x.pc = "authorize" BY <1>6 DEF Authorize
  <2>3. CASE Authorized(x.chain)
    <3>1. PICK u : u = [x EXCEPT !.pc = "materialize", !.stage = 1, !.chain = NoChain] OBVIOUS
    <3>2. worker' = [worker EXCEPT ![w].pc = "materialize", ![w].stage = 1, ![w].chain = NoChain]
      BY <1>6, <2>3 DEF Authorize
    <3>3. worker' = [worker EXCEPT ![w] = u] BY <1>0, <3>1, <3>2
    <3>4. u = [pc |-> "materialize", batch |-> x.batch, stage |-> 1, chain |-> NoChain,
               seen |-> x.seen, ok |-> x.ok, bad |-> x.bad]
      BY <1>0, <3>1
    <3>5. Becomes(w, u) BY <1>1, <3>3, <3>4 DEF Becomes
    <3>6. \A r \in Roles : store[r] \in u.seen BY <2>2, <3>4 DEF QueueInv, SeenInForce
    <3> QED BY <2>1, <3>4, <3>5, <3>6, OneWorker
  <2>4. CASE ~Authorized(x.chain)
    <3>1. worker' = [worker EXCEPT ![w] = Settled(w, FALSE)] BY <1>6, <2>4 DEF Authorize
    <3> QED BY <2>1, <2>2, <3>1, SettlingKeeps
  <2> QED BY <2>3, <2>4
<1>7. CASE Materialize(w) \/ MaterializeThenFail(w) \/ FailItem(w)
  <2>1. /\ x.pc # "idle" /\ store' = store
        /\ \E ok \in BOOLEAN : worker' = [worker EXCEPT ![w] = Settled(w, ok)]
    BY <1>7 DEF Materialize, MaterializeThenFail, FailItem
  <2>2. entryRow' = entryRow \/ entryRow' = RowOfEntry(MaterializedEntry(Current(w), x.chain))
    BY <1>7 DEF Materialize, MaterializeThenFail, FailItem
  <2>3. EntryShaped' BY <2>2 DEF QueueInv, EntryShaped, RowOfEntry
  <2> QED BY <2>1, <2>3, SettlingKeeps
<1>8. CASE MarkCompleted(w)
  <2>1. PICK u : u = [x EXCEPT !.pc = "fail"] OBVIOUS
  <2>2. worker' = [worker EXCEPT ![w] = u] /\ store' = store /\ entryRow' = entryRow /\ x.pc # "idle"
    BY <1>0, <1>8, <2>1 DEF MarkCompleted
  <2>3. u = [pc |-> "fail", batch |-> x.batch, stage |-> x.stage, chain |-> x.chain,
             seen |-> x.seen, ok |-> x.ok, bad |-> x.bad]
    BY <1>0, <2>1
  <2>4. Becomes(w, u) BY <1>0, <2>2, <2>3 DEF Becomes
  <2>5. EntryShaped' BY <2>2 DEF QueueInv, EntryShaped
  <2>6. \A r \in Roles : store[r] \in u.seen BY <2>2, <2>3 DEF QueueInv, SeenInForce
  <2> QED BY <2>2, <2>3, <2>4, <2>5, <2>6, OneWorker
<1>9. CASE MarkFailed(w) \/ WorkerCrash(w)
  <2>1. worker' = [worker EXCEPT ![w] = IdleWorker] /\ store' = store /\ entryRow' = entryRow
    BY <1>9 DEF MarkFailed, WorkerCrash
  <2>2. Becomes(w, IdleWorker) BY <1>1, <1>2, <2>1 DEF Becomes
  <2>3. EntryShaped' BY <2>1 DEF QueueInv, EntryShaped
  <2> QED BY <1>2, <2>1, <2>2, <2>3, OneWorker
<1> QED BY <1>2a, <1>3, <1>4, <1>5, <1>6, <1>7, <1>8, <1>9 DEF WorkerStep

\* A publication is seen by every worker at work.
LEMMA PublicationKeeps ==
  ASSUME QueueInv, NEW a \in Artifacts, Publish(a) PROVE QueueInv'
<1>1. a.role \in Roles BY ChainAssumption DEF ArtifactRecord
<1>2. \A r \in Roles : store'[r] \in {store[r], a} BY DEF Publish
<1>3. worker' = [w \in Workers |-> IF worker[w].pc = "idle" THEN worker[w]
                     ELSE [worker[w] EXCEPT !.seen = @ \union {a}]]
  BY DEF Publish
<1>4. ASSUME NEW w \in Workers
      PROVE  /\ worker'[w] = [pc |-> worker[w].pc, batch |-> worker[w].batch,
                          stage |-> worker[w].stage, chain |-> worker[w].chain,
                          seen |-> worker'[w].seen, ok |-> worker[w].ok, bad |-> worker[w].bad]
             /\ worker'[w].pc = worker[w].pc /\ worker'[w].stage = worker[w].stage
             /\ worker'[w].chain = worker[w].chain
             /\ worker[w].pc # "idle" => worker'[w].seen = worker[w].seen \union {a}
  <2> DEFINE x == worker[w]
  <2>1. x = [pc |-> x.pc, batch |-> x.batch, stage |-> x.stage, chain |-> x.chain,
             seen |-> x.seen, ok |-> x.ok, bad |-> x.bad]
    BY DEF QueueInv, WorkersShaped
  <2>2. x.pc = "idle" => worker'[w] = x BY <1>3
  <2>3. x.pc # "idle" => worker'[w] = [x EXCEPT !.seen = @ \union {a}] BY <1>3
  <2> QED BY <2>1, <2>2, <2>3
<1>5. WorkersShaped'
  <2>1. worker' = [w \in Workers |-> worker'[w]] BY <1>3
  <2> QED BY <1>4, <2>1 DEF QueueInv, WorkersShaped
<1>6. EntryShaped' BY DEF Publish, QueueInv, EntryShaped
<1>7. \A w \in Workers :
          /\ worker'[w].pc = worker[w].pc /\ worker'[w].stage = worker[w].stage
          /\ worker'[w].chain = worker[w].chain
          /\ worker[w].pc # "idle" => worker'[w].seen = worker[w].seen \union {a}
  BY <1>4
<1>8. SeenInForce'
  <2> SUFFICES ASSUME NEW w \in Workers, worker'[w].pc # "idle", NEW r \in Roles
               PROVE  store'[r] \in worker'[w].seen
    BY DEF SeenInForce
  <2>1. store[r] \in worker[w].seen BY <1>7 DEF QueueInv, SeenInForce
  <2> QED BY <1>2, <1>7, <2>1
<1>9. FetchedIsSeen'
  <2> SUFFICES ASSUME NEW w \in Workers, worker'[w].pc = "materialize", NEW i \in 1 .. 5,
                      i < worker'[w].stage
               PROVE  worker'[w].chain[MaterializerOrder[i]] \in worker'[w].seen
    BY DEF FetchedIsSeen
  <2>1. worker[w].chain[MaterializerOrder[i]] \in worker[w].seen
    BY <1>7 DEF QueueInv, FetchedIsSeen
  <2> QED BY <1>7, <2>1
<1> QED BY <1>5, <1>6, <1>8, <1>9 DEF QueueInv

\* The invariant holds of every behaviour of the workers.
LEMMA QueueInvariant == QueueSpec => []QueueInv
<1>1. ASSUME QueueInit PROVE QueueInv
  <2>1. worker = [w \in Workers |-> IdleWorker] /\ entryRow = NoEntry BY <1>1 DEF QueueInit
  <2>2. IdleWorker = [pc |-> "idle", batch |-> <<>>, stage |-> 0, chain |-> NoChain, seen |-> {},
                      ok |-> {}, bad |-> {}]
    BY DEF IdleWorker
  <2>3. NoChain = [r \in Roles |-> NoChain[r]] BY DEF NoChain
  <2>4. WorkersShaped BY <2>1, <2>2, <2>3 DEF WorkersShaped
  <2>5. SeenInForce /\ FetchedIsSeen BY <2>1, <2>2 DEF SeenInForce, FetchedIsSeen
  <2> QED BY <2>1, <2>4, <2>5 DEF QueueInv, EntryShaped
<1>2. ASSUME QueueInv, [QueueNext]_queueVars PROVE QueueInv'
  <2>1. CASE GrantContext
    BY <1>2, <2>1 DEF GrantContext, QueueInv, WorkersShaped, EntryShaped, SeenInForce, FetchedIsSeen
  <2>2. ASSUME NEW k \in ItemIds, Lapse(k) PROVE QueueInv'
    BY <1>2, <2>2 DEF Lapse, QueueInv, WorkersShaped, EntryShaped, SeenInForce, FetchedIsSeen
  <2>3. CASE UNCHANGED queueVars
    BY <1>2, <2>3 DEF queueVars, QueueInv, WorkersShaped, EntryShaped, SeenInForce, FetchedIsSeen
  <2> QED BY <1>2, <2>1, <2>2, <2>3, WorkerKeeps, PublicationKeeps DEF QueueNext
<1> QED BY <1>1, <1>2, PTL DEF QueueSpec

\* For all workers, items, artifacts and batch sizes, through crashes, failed queries,
\* lapsed claims and publications between any two fetches: a row is written only from
\* artifacts that were in force at or after its item's claim, with an active issuer and
\* an active status event (the materializer and the queue worker's loop).
THEOREM RowsNeverOlderThanClaim == QueueSpec => RowIsNoOlderThanClaim
<1> DEFINE Wrote == entryRow' # entryRow /\ ~entryRow'.context =>
              \E w \in Workers :
                 /\ worker[w].pc = "materialize"
                 /\ \A r \in Roles : entryRow'.sources[r] \in worker[w].seen
                 /\ entryRow'.sources["status"].active /\ entryRow'.sources["issuer"].active
<1>1. ASSUME QueueInv, QueueNext PROVE Wrote
  <2> SUFFICES ASSUME entryRow' # entryRow, ~entryRow'.context
               PROVE  \E w \in Workers :
                 /\ worker[w].pc = "materialize"
                 /\ \A r \in Roles : entryRow'.sources[r] \in worker[w].seen
                 /\ entryRow'.sources["status"].active /\ entryRow'.sources["issuer"].active
    OBVIOUS
  <2>1. ~GrantContext
    BY <1>1 DEF GrantContext, QueueInv, EntryShaped
  <2>2. PICK w \in Workers : Materialize(w) \/ MaterializeThenFail(w)
    BY <1>1, <2>1 DEF QueueNext, WorkerStep, Claim, FetchToAuthorize, FetchToMaterialize, Fetch,
       Authorize, MarkCompleted, MarkFailed, FailItem, WorkerCrash, Publish, Lapse
  <2>3. /\ worker[w].pc = "materialize" /\ worker[w].stage = 6
        /\ ChainMaterializes(worker[w].chain)
        /\ entryRow' = RowOfEntry(MaterializedEntry(Current(w), worker[w].chain))
    BY <2>2 DEF Materialize, MaterializeThenFail
  <2>4. entryRow'.sources = worker[w].chain BY <2>3 DEF RowOfEntry, MaterializedEntry
  <2>5. worker[w].chain["status"].active /\ worker[w].chain["issuer"].active
    BY <2>3 DEF ChainMaterializes, StatusEventActive, IssuerActive
  <2>6. \A r \in Roles : worker[w].chain[r] \in worker[w].seen
    BY <1>1, <2>3, Orders DEF QueueInv, FetchedIsSeen
  <2> QED BY <2>3, <2>4, <2>5, <2>6
<1>2. QueueInv /\ [QueueNext]_queueVars => [Wrote]_queueVars BY <1>1
<1> QED BY <1>2, QueueInvariant, PTL DEF QueueSpec, RowIsNoOlderThanClaim
==============================================================================
