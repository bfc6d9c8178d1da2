--------------------------- MODULE ScannerDecision ---------------------------
(***************************************************************************)
(* The scanner decision HTTP runtime. A request is parsed, the verifier    *)
(* cache rows are read, the URL is resolved against them, a bound URL is   *)
(* inspected, the event and then the row of a governed decision are        *)
(* written, and only then the decision is answered. Every arrow but the first is an await:   *)
(* rows are written and removed by the synchronisation workers, queries    *)
(* fail and the process dies between any two of them.                      *)
(***************************************************************************)
EXTENDS ScannerPolicy, FiniteSets

CONSTANTS
    Policies,       \* primary keys of the rows
    RowValues,      \* what a worker may write for a policy
    Scans,          \* requests
    Urls, Hints,    \* what a request may carry
    AcceptedRoots,  \* accepted_root_program_ids
    Providers,      \* runtime safety providers a deployment may have
    Lists, Tlds,    \* the providers' lists
    MaxTime, MaxWrites, MaxFaults   \* bounds

ASSUME BoundsAssumption == MaxTime \in Nat /\ MaxWrites \in Nat /\ MaxFaults \in Nat

\* The columns of verifier_cache_entries that a decision depends on.
RowFields ==
    {"root", "rootGrants", "authorityGrants", "placeholder", "decodable", "redirect", "rules",
     "generated", "expires"}

ASSUME RowValuesAssumption ==
    \A value \in RowValues :
        /\ DOMAIN value = RowFields
        /\ value.generated \in Nat /\ value.expires \in Nat
        /\ \A r \in value.redirect.resolvers : r = [host |-> r.host, path |-> r.path]
ASSUME ProvidersAssumption == Providers \subseteq {"clear", "deterministic", "composite"}
ASSUME ListsAssumption == HostLists \subseteq DOMAIN Lists /\ NoHost \notin Tlds

VARIABLES
    table,      \* verifier_cache_entries: policy -> row or NoRow
    scan,       \* what the runtime knows of each request
    outbox,     \* event_outbox: the scanner.decision.recorded event of a request
    decisions,  \* scanner_decisions: the recorded decision of a request
    provider,   \* the provider of this deployment
    writes, faults,
    read        \* history: the rows of the table when each request read it

vars == <<table, scan, outbox, decisions, provider, writes, faults, read>>

Phases == {"none", "load", "inspect", "persist", "answered", "refused", "failed", "lost"}
NoDecision == [color |-> "none"]

Idle == [phase |-> "none", url |-> NoUrl, hint |-> NoHost, observed |-> 0,
         row |-> NoRow, decision |-> NoDecision]

Rows == {table[p] : p \in Policies} \ {NoRow}

Init ==
    /\ table = [p \in Policies |-> NoRow]
    /\ scan = [s \in Scans |-> Idle]
    /\ outbox = [s \in Scans |-> NoDecision]
    /\ decisions = [s \in Scans |-> NoDecision]
    /\ provider \in Providers
    /\ writes = 0
    /\ faults = 0
    /\ read = [s \in Scans |-> {}]

-----------------------------------------------------------------------------
\* The workers that write the table.

\* on conflict ... do update: created_at stays what it was.
WriteRow(p, value) ==
    /\ writes < MaxWrites
    /\ LET created == IF table[p] = NoRow THEN writes ELSE table[p].created
           row == [f \in DOMAIN value \union {"policy", "created"} |->
                     CASE f = "policy" -> p [] f = "created" -> created [] OTHER -> value[f]]
       IN  /\ table[p] # row
           /\ table' = [table EXCEPT ![p] = row]
    /\ writes' = writes + 1
    /\ UNCHANGED <<scan, outbox, decisions, provider, faults, read>>

RemoveRow(p) ==
    /\ table[p] # NoRow
    /\ table' = [table EXCEPT ![p] = NoRow]
    /\ UNCHANGED <<scan, outbox, decisions, provider, writes, faults, read>>

-----------------------------------------------------------------------------
\* The request.

\* readJsonBody and parseScannerDecisionRequest answer 400 or 413; a payload
\* that is no URL fails in parseDestinationUrl and is answered 422.
Refuse(s) ==
    /\ scan[s].phase = "none"
    /\ scan' = [scan EXCEPT ![s].phase = "refused"]
    /\ UNCHANGED <<table, outbox, decisions, provider, writes, faults, read>>

\* observed_at is the client's when it sends one, else the server's clock: both
\* are any time here.
Receive(s) ==
    /\ scan[s].phase = "none"
    /\ \E url \in Urls, hint \in Hints, observed \in 0 .. MaxTime :
         scan' = [scan EXCEPT ![s] =
                    [Idle EXCEPT !.phase = "load", !.url = url, !.hint = hint,
                                 !.observed = observed]]
    /\ UNCHANGED <<table, outbox, decisions, provider, writes, faults, read>>

\* resolveByDestination over the rows that were read, then everything up to the
\* next await.
Resolve(s, cache) ==
    LET q == scan[s]
        row == FindPolicyMatch(cache, AcceptedRoots, LookupHost(q.url, q.hint))
    IN  scan' = [scan EXCEPT ![s] =
            IF NeedsRuntime(row, q.url, q.observed)
              THEN [q EXCEPT !.phase = "inspect", !.row = row]
            ELSE [q EXCEPT !.row = row,
                           !.phase = IF row = NoRow THEN "answered" ELSE "persist",
                           !.decision = DecisionWithoutRuntime(row, q.url, q.observed)]]

Load(s) ==
    /\ scan[s].phase = "load"
    /\ Resolve(s, LoadCache(Rows))
    /\ read' = [read EXCEPT ![s] = Rows]
    /\ UNCHANGED <<table, outbox, decisions, provider, writes, faults>>

\* loadCacheOrMiss: a failed query reads as an empty cache.
LoadFails(s) ==
    /\ scan[s].phase = "load"
    /\ faults < MaxFaults
    /\ faults' = faults + 1
    /\ Resolve(s, {})
    /\ UNCHANGED <<table, outbox, decisions, provider, writes, read>>

InspectRuntime(s) ==
    /\ scan[s].phase = "inspect"
    /\ LET q == scan[s]
           via == MatchedResolvers(q.row, q.url) # {}
           verdict == Inspect(provider, Lists, Tlds, q.url, via)
       IN  scan' = [scan EXCEPT ![s].phase = "persist",
                                ![s].decision = RuntimeAwareBoundDecision(q.row, verdict)]
    /\ UNCHANGED <<table, outbox, decisions, provider, writes, faults, read>>

\* persistBatch of makeScannerDecisionPersistenceEventBus: the pool executes one
\* command after the other, each a transaction of its own. The event is first.
EnqueueEvent(s) ==
    /\ scan[s].phase = "persist"
    /\ outbox[s] = NoDecision
    /\ outbox' = [outbox EXCEPT ![s] = scan[s].decision]
    /\ UNCHANGED <<table, scan, decisions, provider, writes, faults, read>>

InsertDecision(s) ==
    /\ scan[s].phase = "persist"
    /\ outbox[s] # NoDecision
    /\ decisions[s] = NoDecision
    /\ decisions' = [decisions EXCEPT ![s] = scan[s].decision]
    /\ UNCHANGED <<table, scan, outbox, provider, writes, faults, read>>

\* writeJson 200
Answer(s) ==
    /\ scan[s].phase = "persist"
    /\ decisions[s] # NoDecision
    /\ scan' = [scan EXCEPT ![s].phase = "answered"]
    /\ UNCHANGED <<table, outbox, decisions, provider, writes, faults, read>>

\* A command fails, before or after its commit, or before the first one the decision
\* does not pass decodeScannerDecision: writeError, 500.
PersistFails(s) ==
    /\ scan[s].phase = "persist"
    /\ faults < MaxFaults
    /\ faults' = faults + 1
    /\ scan' = [scan EXCEPT ![s].phase = "failed"]
    /\ UNCHANGED <<table, outbox, decisions, provider, writes, read>>

\* The runtime dies: requests in flight get no answer.
Crash ==
    /\ faults < MaxFaults
    /\ \E s \in Scans : scan[s].phase \in {"load", "inspect", "persist"}
    /\ faults' = faults + 1
    /\ scan' = [s \in Scans |->
                  IF scan[s].phase \in {"load", "inspect", "persist"}
                    THEN [scan[s] EXCEPT !.phase = "lost"] ELSE scan[s]]
    /\ UNCHANGED <<table, outbox, decisions, provider, writes, read>>

Step(s) == Load(s) \/ InspectRuntime(s) \/ EnqueueEvent(s) \/ InsertDecision(s) \/ Answer(s)

Next ==
    \/ \E p \in Policies : RemoveRow(p) \/ \E value \in RowValues : WriteRow(p, value)
    \/ \E s \in Scans : Refuse(s) \/ Receive(s) \/ LoadFails(s) \/ PersistFails(s) \/ Step(s)
    \/ Crash

Spec == Init /\ [][Next]_vars

-----------------------------------------------------------------------------
\* Every request is in a phase of the handler, and what it carries fits it.
TypeOK ==
    /\ \A p \in Policies : table[p] # NoRow => table[p].policy = p
    /\ \A s \in Scans :
         /\ scan[s].phase \in Phases
         /\ scan[s].phase \in {"inspect", "persist"} => scan[s].row # NoRow
         /\ scan[s].phase \in {"persist", "answered"} => scan[s].decision # NoDecision
         /\ scan[s].decision # NoDecision =>
              scan[s].decision.risk \in 0 .. 100 /\ scan[s].decision.hold \in {0, 800}
    /\ writes \in 0 .. MaxWrites
    /\ faults \in 0 .. MaxFaults

\* What must be true of a row for a scan to be green: it is in context of an
\* accepted root, its period covers the observed time, and it approves the
\* destination as a whole, directly or through one of its own resolvers.
Authorizes(row, url, observed) ==
    /\ row.rootGrants /\ row.authorityGrants /\ ~row.placeholder
    /\ row.root \in AcceptedRoots
    /\ row.generated <= observed /\ observed < row.expires
    /\ \/ \E rule \in {row.rules[n] : n \in DOMAIN row.rules} :
            /\ \E h \in rule.hosts : url.host = h \/ (rule.subdomains /\ EndsWithDomain(url.host, h))
            /\ rule.prefixes # {} => \E p \in rule.prefixes : StartsWith(url.path, p)
            /\ rule.query = "none" => url.keys = {}
            /\ rule.allowedKeys # {} => url.keys \subseteq rule.allowedKeys
       \/ /\ [host |-> url.host, path |-> url.path] \in row.redirect.resolvers
          /\ url.final \in row.redirect.finals
          /\ url.hops # BadHops /\ url.hops <= row.redirect.maxHops
          /\ url.nested => row.redirect.nested

\* A scan is answered green only when a row of the table, as it was when the
\* request read it, authorizes the URL at the observed time and the provider
\* found nothing: a resolver's host, an issuer hint, a row without authority
\* context or of a root nobody accepts never make one green.
GreenWasAuthorized ==
    \A s \in Scans : scan[s].phase = "answered" /\ scan[s].decision.color = "green" =>
        /\ \E row \in read[s] :
              /\ Authorizes(row, scan[s].url, scan[s].observed)
              /\ row.policy = scan[s].decision.policy
        /\ scan[s].decision.risk = 0

\* A scan is answered from an expired row only when every row it read that
\* could answer for its host has expired too: a fresh row is never hidden
\* behind an expired one (the order of the cache query).
ExpiredHidesNoFreshRow ==
    \A s \in Scans : scan[s].row # NoRow /\ scan[s].row.expires <= scan[s].observed =>
        \A row \in read[s] :
            \/ row.expires <= scan[s].observed
            \/ ~AuthorityContextAllows(row) \/ row.placeholder
            \/ row.root \notin AcceptedRoots
            \/ ~PolicyAllowsLookupHost(row, LookupHost(scan[s].url, scan[s].hint))

=============================================================================
