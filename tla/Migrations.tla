----------------------------- MODULE Migrations -----------------------------
(***************************************************************************)
(* The migration programs of the network database: postgres-migrations-    *)
(* apply, which runs the pending SQL files and records each in the ledger  *)
(* qr_trust.schema_migrations; postgres-reference-schema-apply, which runs *)
(* the same SQL without the ledger; and postgres-migrations-status, the    *)
(* read-only gate before the workers start. Nothing serializes them: the   *)
(* lookup of a migration, its transaction and the queries of the gate are  *)
(* separate statements, and only Postgres arbitrates between programs.     *)
(*                                                                         *)
(* A migration is [id, checksum, creates]: its number, the hash of its SQL *)
(* and the tables the SQL creates if they do not exist. A release is what  *)
(* a checkout of the repository carries: its plan, a sequence of           *)
(* migrations, and the tables it expects.                                  *)
(***************************************************************************)
EXTENDS Naturals, Sequences

CONSTANTS
    Appliers,       \* runs of postgres-migrations-apply, each may be repeated
    Gates,          \* runs of postgres-migrations-status
    Releases,       \* the checkouts those programs may be started from
    DirectReleases, \* the checkouts postgres-reference-schema-apply is run from
    Ids,            \* migration ids, naturals in the order of the id strings
    Checksums, Tables,
    MaxFaults       \* bound: failed commands, lost connections and killed processes

None == "none"
Migration == [id : Ids, checksum : Checksums, creates : SUBSET Tables]

ASSUME IdsAssumption == Ids \subseteq Nat
ASSUME ChecksumsAssumption == None \notin Checksums
ASSUME ReleasesAssumption ==
    /\ Releases # {}
    /\ Releases \union DirectReleases \subseteq [plan : Seq(Migration), expected : SUBSET Tables]
ASSUME ProgramsAssumption == Appliers \intersect Gates = {}
ASSUME FaultsAssumption == MaxFaults \in Nat

VARIABLES
    schema,     \* the schema qr_trust exists
    ledgerTable,\* the table schema_migrations exists
    ledger,     \* its rows: the checksum recorded for an id, or None
    shape,      \* the checksum of the SQL that created a table, None if it does not exist
    runs,       \* history: the checksums whose SQL a migration run committed for an id
    pc,         \* where each applier and each gate is
    release,    \* what it was started from
    at,         \* the applier's place in its plan
    created,    \* tables its open transaction has created
    seen,       \* what a gate has read so far
    faults

database == <<schema, ledgerTable, ledger, shape, runs>>
vars == <<schema, ledgerTable, ledger, shape, runs, pc, release, at, created, seen, faults>>

Installed == {t \in Tables : shape[t] # None}

\* assertValidMigrationPlan: unique ids in ascending order
PlanIsValid(plan) ==
    \A i, j \in 1..Len(plan) : i < j => plan[i].id < plan[j].id

Init ==
    /\ schema = FALSE /\ ledgerTable = FALSE
    /\ ledger = [i \in Ids |-> None]
    /\ shape = [t \in Tables |-> None]
    /\ runs = [i \in Ids |-> <<>>]
    /\ pc = [p \in Appliers \union Gates |-> "start"]
    /\ release \in [Appliers \union Gates -> Releases]
    /\ at = [a \in Appliers |-> 1]
    /\ created = [a \in Appliers |-> {}]
    /\ seen = [g \in Gates |-> [ledgerTable |-> FALSE, tables |-> {}]]
    /\ faults = 0

-----------------------------------------------------------------------------
Goto(p, l) == pc' = [pc EXCEPT ![p] = l]

\* The program ends and its place in the plan with it.
Ends(a, verdict) == Goto(a, verdict) /\ at' = [at EXCEPT ![a] = 1]

Plan(p) == release[p].plan
Current(a) == Plan(a)[at[a]]

\* loadPostgresMigrations throws before the first statement.
Load(a) ==
    /\ pc[a] = "start"
    /\ Goto(a, IF PlanIsValid(Plan(a)) THEN "ledger" ELSE "failed")
    /\ UNCHANGED <<database, release, at, created, seen, faults>>

\* migrationLedgerSql
EnsureLedger(a) ==
    /\ pc[a] = "ledger"
    /\ schema' = TRUE /\ ledgerTable' = TRUE
    /\ Goto(a, "lookup")
    /\ UNCHANGED <<ledger, shape, runs, release, at, created, seen, faults>>

\* Mutant: a recorded migration is skipped whatever its checksum.
LookupIgnoresDrift(a) ==
    /\ pc[a] = "lookup" /\ at[a] <= Len(Plan(a))
    /\ IF ledger[Current(a).id] = None
       THEN Goto(a, "begin") /\ UNCHANGED at
       ELSE UNCHANGED pc /\ at' = [at EXCEPT ![a] = @ + 1]
    /\ UNCHANGED <<database, release, created, seen, faults>>

\* fetchAppliedMigration, outside any transaction: a recorded migration is skipped
\* when its checksum is the file's and ends the program when it is not.
Lookup(a) ==
    /\ pc[a] = "lookup" /\ at[a] <= Len(Plan(a))
    /\ LET recorded == ledger[Current(a).id]
       IN  CASE recorded = None -> Goto(a, "begin") /\ UNCHANGED at
             [] recorded = Current(a).checksum -> UNCHANGED pc /\ at' = [at EXCEPT ![a] = @ + 1]
             [] OTHER -> Ends(a, "failed")
    /\ UNCHANGED <<database, release, created, seen, faults>>

\* begin, then the SQL of the file: create table if not exists. Postgres makes a
\* second creator of a table wait until the first one's transaction has ended.
RunSql(a) ==
    /\ pc[a] = "begin"
    /\ LET missing == Current(a).creates \ Installed
       IN  /\ \A b \in Appliers \ {a} : created[b] \intersect missing = {}
           /\ created' = [created EXCEPT ![a] = missing]
    /\ Goto(a, "record")
    /\ UNCHANGED <<database, release, at, seen, faults>>

\* A failed statement, then rollback, release and the end of the program.
RolledBack(a) ==
    /\ created' = [created EXCEPT ![a] = {}]
    /\ Ends(a, "failed")

\* Mutant: insert ... on conflict do nothing.
RecordUnlessThere(a) ==
    /\ pc[a] = "record"
    /\ Goto(a, "commit")
    /\ UNCHANGED <<database, release, at, created, seen, faults>>

\* The insert into the ledger. migration_id is its primary key: the insert waits for
\* another transaction's row of that id and fails once there is one.
Record(a) ==
    /\ pc[a] = "record"
    /\ \A b \in Appliers \ {a} : pc[b] = "commit" => Current(b).id # Current(a).id
    /\ IF ledger[Current(a).id] = None THEN Goto(a, "commit") /\ UNCHANGED <<at, created>>
       ELSE RolledBack(a)
    /\ UNCHANGED <<database, release, seen, faults>>

\* What the commit makes visible: the new tables and the ledger row.
Committed(a) ==
    LET m == Current(a)
    IN  /\ ledger' = [ledger EXCEPT ![m.id] = m.checksum]
        /\ shape' = [t \in Tables |-> IF t \in created[a] THEN m.checksum ELSE shape[t]]
        /\ runs' = [runs EXCEPT ![m.id] = Append(@, m.checksum)]
        /\ created' = [created EXCEPT ![a] = {}]
        /\ UNCHANGED <<schema, ledgerTable>>

Commit(a) ==
    /\ pc[a] = "commit"
    /\ Committed(a)
    /\ at' = [at EXCEPT ![a] = @ + 1]
    /\ Goto(a, "lookup")
    /\ UNCHANGED <<release, seen, faults>>

\* fetchQrTrustTables, after the last migration
CheckTables(a) ==
    /\ pc[a] = "lookup" /\ at[a] > Len(Plan(a))
    /\ Ends(a, IF release[a].expected \subseteq Installed THEN "passed" ELSE "failed")
    /\ UNCHANGED <<database, release, created, seen, faults>>

Fault == faults < MaxFaults /\ faults' = faults + 1

\* A statement fails or the process is killed: Postgres forgets the transaction.
ApplyFails(a) ==
    /\ pc[a] \in {"ledger", "lookup", "begin", "record", "commit"}
    /\ Fault
    /\ RolledBack(a)
    /\ UNCHANGED <<database, release, seen>>

\* The commit succeeds and its answer is lost; the rollback that follows does nothing.
CommitUnacknowledged(a) ==
    /\ pc[a] = "commit"
    /\ Fault
    /\ Committed(a)
    /\ Ends(a, "failed")
    /\ UNCHANGED <<release, seen>>

\* The operator runs the program again, perhaps from another checkout.
Rerun(a) ==
    /\ pc[a] = "failed"
    /\ Fault
    /\ Goto(a, "start")
    /\ \E r \in Releases : release' = [release EXCEPT ![a] = r]
    /\ UNCHANGED <<database, at, created, seen>>

\* postgres-reference-schema-apply: the SQL as one statement, and no ledger.
ApplyReferenceSchema ==
    \E r \in DirectReleases : \E i \in 1..Len(r.plan) :
        /\ \A a \in Appliers : created[a] \intersect r.plan[i].creates = {}
        /\ schema' = TRUE
        /\ shape' = [t \in Tables |-> IF t \in r.plan[i].creates \ Installed
                                      THEN r.plan[i].checksum ELSE shape[t]]
        /\ UNCHANGED <<ledgerTable, ledger, runs, pc, release, at, created, seen, faults>>

-----------------------------------------------------------------------------
\* postgres-migrations-status: schema, ledger table, tables and rows, one query each.
GateLoad(g) ==
    /\ pc[g] = "start"
    /\ Goto(g, IF PlanIsValid(Plan(g)) THEN "schema" ELSE "notReady")
    /\ UNCHANGED <<database, release, at, created, seen, faults>>

\* Without the schema the other queries are skipped and the verdict is known.
ReadSchema(g) ==
    /\ pc[g] = "schema"
    /\ Goto(g, IF schema THEN "ledgerTable" ELSE "notReady")
    /\ UNCHANGED <<database, release, at, created, seen, faults>>

ReadLedgerTable(g) ==
    /\ pc[g] = "ledgerTable"
    /\ seen' = [seen EXCEPT ![g].ledgerTable = ledgerTable]
    /\ Goto(g, "tables")
    /\ UNCHANGED <<database, release, at, created, faults>>

ReadTables(g) ==
    /\ pc[g] = "tables"
    /\ seen' = [seen EXCEPT ![g].tables = Installed]
    /\ Goto(g, IF seen[g].ledgerTable THEN "rows" ELSE "notReady")
    /\ UNCHANGED <<database, release, at, created, faults>>

\* migrationStatuses, unknownLedgerRows: every migration of the plan is applied, not
\* pending or drifted, and the ledger has no other row.
LedgerIsOf(plan, rows) ==
    /\ \A i \in 1..Len(plan) : rows[plan[i].id] = plan[i].checksum
    /\ \A id \in Ids : rows[id] # None => \E i \in 1..Len(plan) : plan[i].id = id

\* fetchAppliedMigrations, blockingReasons
ReadRows(g) ==
    /\ pc[g] = "rows"
    /\ Goto(g, IF LedgerIsOf(Plan(g), ledger) /\ release[g].expected \subseteq seen[g].tables
               THEN "ready" ELSE "notReady")
    /\ UNCHANGED <<database, release, at, created, seen, faults>>

\* A query fails: inspection_failed is not ready.
GateFails(g) ==
    /\ pc[g] \in {"schema", "ledgerTable", "tables", "rows"}
    /\ Fault
    /\ Goto(g, "notReady")
    /\ UNCHANGED <<database, release, at, created, seen>>

-----------------------------------------------------------------------------
ApplierStep(a) ==
    \/ Load(a) \/ EnsureLedger(a) \/ Lookup(a) \/ RunSql(a) \/ Record(a) \/ Commit(a)
    \/ CheckTables(a)
GateStep(g) ==
    \/ GateLoad(g) \/ ReadSchema(g) \/ ReadLedgerTable(g) \/ ReadTables(g) \/ ReadRows(g)

Next ==
    \/ \E a \in Appliers :
        ApplierStep(a) \/ ApplyFails(a) \/ CommitUnacknowledged(a) \/ Rerun(a)
    \/ \E g \in Gates : GateStep(g) \/ GateFails(g)
    \/ ApplyReferenceSchema

Spec == Init /\ [][Next]_vars

-----------------------------------------------------------------------------
TypeOK ==
    /\ schema \in BOOLEAN /\ ledgerTable \in BOOLEAN
    /\ ledger \in [Ids -> Checksums \union {None}]
    /\ shape \in [Tables -> Checksums \union {None}]
    /\ runs \in [Ids -> Seq(Checksums)]
    /\ pc \in [Appliers \union Gates ->
            {"start", "ledger", "lookup", "begin", "record", "commit", "passed", "failed",
             "schema", "ledgerTable", "tables", "rows", "ready", "notReady"}]
    /\ release \in [Appliers \union Gates -> Releases]
    /\ at \in [Appliers -> Nat \ {0}]
    /\ created \in [Appliers -> SUBSET Tables]
    /\ seen \in [Gates -> [ledgerTable : BOOLEAN, tables : SUBSET Tables]]
    /\ faults \in 0..MaxFaults

\* "records the applied checksum in qr_trust.schema_migrations": the SQL of a migration
\* is committed at most once, and the ledger holds its row exactly when it was, with the
\* checksum of what ran. Appliers that look the row up at the same time, a commit whose
\* answer is lost and a program that is run again do not break it.
LedgerIsHistory ==
    \A i \in Ids : runs[i] = IF ledger[i] = None THEN <<>> ELSE <<ledger[i]>>

\* The ledger holds the plan of p's release, each migration under its own checksum.
LedgerHolds(p) ==
    \A i \in 1..Len(Plan(p)) : ledger[Plan(p)[i].id] = Plan(p)[i].checksum

\* "fails on drift": an apply that passed, or a gate that said ready, spoke of a
\* database that holds its release's migrations under their checksums and all tables it
\* expects, and that stays so, although another program may have run between its reads.
VerdictIsCurrent ==
    \A p \in Appliers \union Gates :
        pc[p] \in {"passed", "ready"} => LedgerHolds(p) /\ release[p].expected \subseteq Installed

\* Not claimed by the code: a table that exists has the shape of the SQL its ledger row
\* records. create table if not exists keeps the table an older reference schema made.
TablesAreOfTheLedger ==
    \A t \in Tables : shape[t] # None => \E i \in Ids : ledger[i] = shape[t]
=============================================================================
