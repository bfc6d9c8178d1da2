----------------------- MODULE OperatorProgramsProofs -----------------------
(***************************************************************************)
(* The programs operators run, for any documents, files and releases.      *)
(*                                                                         *)
(* Migrations: for any appliers, gates and releases, any faults and any    *)
(* direct runs of the reference schema, a migration is committed at most   *)
(* once and the ledger says so, and a verdict stays true of the database.  *)
(* The database only grows (a ledger row is never replaced, a table never  *)
(* dropped), because a transaction that is about to commit has an id       *)
(* without a row and no other one has the same id. What a program has read *)
(* therefore still holds when it gives its verdict.                        *)
(*                                                                         *)
(* Evidence review: what a ready handoff and an accepted intake rest on,   *)
(* however old the reports on disk are.                                    *)
(*                                                                         *)
(* Scanner release: what a complete fleet status has read.                 *)
(***************************************************************************)
EXTENDS Migrations, EvidenceReview, ScannerRelease, FiniteSetTheorems, SequenceTheorems, TLAPS

-----------------------------------------------------------------------------
(* Migrations *)


InApply == {"lookup", "begin", "record", "commit"}
ApplierPlaces == InApply \union {"start", "ledger", "passed", "failed"}
GatePlaces == {"start", "schema", "ledgerTable", "tables", "rows", "ready", "notReady"}

\* Each program is at a place of its own code, within its plan.
PlacesOK ==
    /\ \A a \in Appliers : pc[a] \in ApplierPlaces
    /\ \A g \in Gates : pc[g] \in GatePlaces
    /\ \A a \in Appliers : pc[a] \in {"begin", "record", "commit"} => at[a] \in 1..Len(Plan(a))

\* A transaction that is about to commit is the only one of an id without a row.
CommitsAlone ==
    /\ \A a \in Appliers : pc[a] = "commit" => ledger[Current(a).id] = None
    /\ \A a, b \in Appliers :
        a # b /\ pc[a] = "commit" /\ pc[b] = "commit" => Current(a).id # Current(b).id

\* The migrations an applier has passed are in the ledger as its release has them.
PassedOver ==
    \A a \in Appliers : \A k \in 1..Len(Plan(a)) :
        k < at[a] => ledger[Plan(a)[k].id] = Plan(a)[k].checksum

\* A program that is not under way is at the beginning of its plan.
AtRest == \A a \in Appliers : pc[a] \notin InApply => at[a] = 1

SeenInstalled == \A g \in Gates : seen[g].tables \subseteq Installed

IInv ==
    /\ TypeOK /\ LedgerIsHistory /\ VerdictIsCurrent
    /\ PlacesOK /\ CommitsAlone /\ PassedOver /\ AtRest /\ SeenInstalled

\* What a program cannot undo.
Grows ==
    /\ \A i \in Ids : ledger[i] # None => ledger'[i] = ledger[i]
    /\ \A t \in Tables : shape[t] # None => shape'[t] # None

-----------------------------------------------------------------------------
\* A release's plan is a sequence of migrations.
LEMMA PlanType ==
    ASSUME TypeOK, NEW p \in Appliers \union Gates
    PROVE  /\ release[p] \in Releases
           /\ Plan(p) \in Seq(Migration)
           /\ Len(Plan(p)) \in Nat
           /\ \A k \in 1..Len(Plan(p)) :
                /\ Plan(p)[k] \in Migration /\ Plan(p)[k].id \in Ids
                /\ Plan(p)[k].checksum \in Checksums /\ Plan(p)[k].checksum # None
           /\ release[p].expected \subseteq Tables
<1>1. release[p] \in Releases
    BY DEF TypeOK
<1>2. release[p] \in [plan : Seq(Migration), expected : SUBSET Tables]
    BY <1>1, ReleasesAssumption
<1>3. Plan(p) \in Seq(Migration) /\ release[p].expected \subseteq Tables
    BY <1>2 DEF Plan
<1>4. \A k \in 1..Len(Plan(p)) : Plan(p)[k] \in Migration
    BY <1>3
<1>5. \A m \in Migration : m.id \in Ids /\ m.checksum \in Checksums /\ m.checksum # None
    BY ChecksumsAssumption DEF Migration
<1> QED
    BY <1>1, <1>3, <1>4, <1>5

\* The initial database is empty, and every program is at its start.
LEMMA InitIInv == Init => IInv
<1> SUFFICES ASSUME Init PROVE IInv
    OBVIOUS
<1>1. TypeOK
    <2>1. runs \in [Ids -> Seq(Checksums)]
        BY DEF Init
    <2>2. seen \in [Gates -> [ledgerTable : BOOLEAN, tables : SUBSET Tables]]
        BY DEF Init
    <2>3. /\ ledger \in [Ids -> Checksums \union {None}]
          /\ shape \in [Tables -> Checksums \union {None}]
        BY DEF Init
    <2>4. /\ at \in [Appliers -> Nat \ {0}] /\ created \in [Appliers -> SUBSET Tables]
          /\ faults \in 0..MaxFaults
        BY FaultsAssumption DEF Init
    <2>5. schema \in BOOLEAN /\ ledgerTable \in BOOLEAN
          /\ release \in [Appliers \union Gates -> Releases]
        BY DEF Init
    <2> QED
        BY <2>1, <2>2, <2>3, <2>4, <2>5 DEF Init, TypeOK
<1>2. LedgerIsHistory /\ VerdictIsCurrent
    BY DEF Init, LedgerIsHistory, VerdictIsCurrent
<1>3. PlacesOK /\ CommitsAlone
    BY DEF Init, PlacesOK, CommitsAlone, ApplierPlaces, GatePlaces, InApply
<1>4. PassedOver
    BY <1>1, PlanType DEF Init, PassedOver
<1>5. SeenInstalled /\ AtRest
    BY DEF Init, SeenInstalled, Installed, AtRest
<1> QED
    BY <1>1, <1>2, <1>3, <1>4, <1>5 DEF IInv

-----------------------------------------------------------------------------
\* A step of one applier that leaves the database alone keeps the invariant when the
\* place l and the index n it goes to are justified.
LEMMA ApplierQuiet ==
    ASSUME IInv, NEW a \in Appliers, NEW l \in ApplierPlaces, NEW n \in Nat \ {0},
           UNCHANGED <<schema, ledgerTable, ledger, shape, runs>>, UNCHANGED <<release, seen>>,
           pc' = [pc EXCEPT ![a] = l], at' = [at EXCEPT ![a] = n],
           created' \in [Appliers -> SUBSET Tables], faults' \in 0..MaxFaults,
           l \in {"begin", "record", "commit"} => n \in 1..Len(Plan(a)),
           l \notin InApply => n = 1,
           l = "commit" =>
               /\ n = at[a] /\ ledger[Current(a).id] = None
               /\ \A b \in Appliers \ {a} : pc[b] = "commit" => Current(b).id # Current(a).id,
           \A k \in 1..Len(Plan(a)) : k < n => ledger[Plan(a)[k].id] = Plan(a)[k].checksum,
           l = "passed" => LedgerHolds(a) /\ release[a].expected \subseteq Installed
    PROVE  IInv'
<1> USE DEF IInv
<1>1. TypeOK'
    BY DEF TypeOK, ApplierPlaces, InApply
<1>2. /\ \A p \in Appliers \union Gates : Plan(p)' = Plan(p)
      /\ Installed' = Installed
      /\ \A p \in Appliers \union Gates : LedgerHolds(p)' = LedgerHolds(p)
    BY DEF Plan, Installed, LedgerHolds
<1>3. /\ \A p \in (Appliers \union Gates) \ {a} : pc'[p] = pc[p]
      /\ pc'[a] = l /\ at'[a] = n
      /\ \A b \in Appliers \ {a} : at'[b] = at[b]
    BY DEF TypeOK
<1>4. LedgerIsHistory'
    BY DEF LedgerIsHistory
<1>5. VerdictIsCurrent'
    BY <1>2, <1>3 DEF VerdictIsCurrent, ApplierPlaces, InApply
<1>6. PlacesOK'
    BY <1>2, <1>3, ProgramsAssumption DEF PlacesOK
<1>7. CommitsAlone'
    <2>1. \A b \in Appliers \ {a} : Current(b)' = Current(b)
        BY <1>2, <1>3 DEF Current
    <2>2. l = "commit" => Current(a)' = Current(a)
        BY <1>2, <1>3 DEF Current
    <2> QED
        BY <2>1, <2>2, <1>3 DEF CommitsAlone
<1>8. PassedOver'
    BY <1>2, <1>3 DEF PassedOver
<1>9. SeenInstalled' /\ AtRest'
    BY <1>2, <1>3 DEF SeenInstalled, AtRest
<1> QED
    BY <1>1, <1>4, <1>5, <1>6, <1>7, <1>8, <1>9

\* An applier that ends, or has only loaded its plan.
LEMMA ApplierStops ==
    ASSUME IInv, NEW a \in Appliers, NEW l \in {"ledger", "passed", "failed"},
           UNCHANGED <<schema, ledgerTable, ledger, shape, runs>>, UNCHANGED <<release, seen>>,
           pc' = [pc EXCEPT ![a] = l], at' = [at EXCEPT ![a] = 1],
           created' \in [Appliers -> SUBSET Tables], faults' \in 0..MaxFaults,
           l = "passed" => LedgerHolds(a) /\ release[a].expected \subseteq Installed
    PROVE  IInv'
<1>1. l \in ApplierPlaces /\ l \notin InApply /\ l \notin {"begin", "record", "commit"}
    BY DEF ApplierPlaces, InApply
<1> DEFINE one == 1
<1>2. one \in Nat \ {0} /\ one = 1
    OBVIOUS
<1>3. \A k \in 1..Len(Plan(a)) : k < one => ledger[Plan(a)[k].id] = Plan(a)[k].checksum
    <2>1. Len(Plan(a)) \in Nat
        BY PlanType DEF IInv
    <2> QED
        BY <2>1
<1>4. at' = [at EXCEPT ![a] = one]
    OBVIOUS
<1> HIDE DEF one
<1> QED
    BY <1>1, <1>2, <1>3, <1>4, ApplierQuiet

\* A step of one gate that leaves the database alone.
LEMMA GateQuiet ==
    ASSUME IInv, NEW g \in Gates, NEW l \in GatePlaces,
           UNCHANGED <<schema, ledgerTable, ledger, shape, runs>>,
           UNCHANGED <<release, at, created>>,
           pc' = [pc EXCEPT ![g] = l],
           seen' \in [Gates -> [ledgerTable : BOOLEAN, tables : SUBSET Tables]],
           \A h \in Gates : seen'[h].tables \subseteq Installed,
           faults' \in 0..MaxFaults,
           l = "ready" => LedgerHolds(g) /\ release[g].expected \subseteq Installed
    PROVE  IInv'
<1> USE DEF IInv
<1>1. TypeOK'
    BY DEF TypeOK, GatePlaces
<1>2. /\ \A p \in Appliers \union Gates : Plan(p)' = Plan(p)
      /\ Installed' = Installed
      /\ \A p \in Appliers \union Gates : LedgerHolds(p)' = LedgerHolds(p)
    BY DEF Plan, Installed, LedgerHolds
<1>3. /\ \A p \in (Appliers \union Gates) \ {g} : pc'[p] = pc[p]
      /\ pc'[g] = l /\ g \notin Appliers
    BY ProgramsAssumption DEF TypeOK
<1>4. LedgerIsHistory'
    BY DEF LedgerIsHistory
<1>5. VerdictIsCurrent'
    BY <1>2, <1>3 DEF VerdictIsCurrent, GatePlaces
<1>6. PlacesOK'
    BY <1>2, <1>3 DEF PlacesOK
<1>7. CommitsAlone'
    <2>1. \A b \in Appliers : Current(b)' = Current(b)
        BY <1>2 DEF Current
    <2> QED
        BY <2>1, <1>3 DEF CommitsAlone
<1>8. PassedOver'
    BY <1>2 DEF PassedOver
<1>9. SeenInstalled' /\ AtRest'
    BY <1>2, <1>3 DEF SeenInstalled, AtRest
<1> QED
    BY <1>1, <1>4, <1>5, <1>6, <1>7, <1>8, <1>9

-----------------------------------------------------------------------------
\* What was recorded and installed stays so when the database grows.
LEMMA GrowthKeeps ==
    ASSUME TypeOK, Grows, UNCHANGED release, NEW p \in Appliers \union Gates
    PROVE  /\ Plan(p)' = Plan(p)
           /\ Installed \subseteq Installed'
           /\ LedgerHolds(p) => LedgerHolds(p)'
           /\ \A k \in 1..Len(Plan(p)) : ledger[Plan(p)[k].id] = Plan(p)[k].checksum
                    => ledger'[Plan(p)[k].id] = Plan(p)[k].checksum
<1>1. Plan(p)' = Plan(p)
    BY DEF Plan
<1>2. Installed \subseteq Installed'
    BY DEF Grows, Installed
<1>3. \A k \in 1..Len(Plan(p)) : ledger[Plan(p)[k].id] = Plan(p)[k].checksum
            => ledger'[Plan(p)[k].id] = Plan(p)[k].checksum
    BY PlanType DEF Grows
<1> QED
    BY <1>1, <1>2, <1>3 DEF LedgerHolds

\* The commit of a migration, acknowledged or not.
LEMMA CommitKeeps ==
    ASSUME IInv, NEW a \in Appliers, pc[a] = "commit", Committed(a),
           NEW l, NEW n, (l = "lookup" /\ n = at[a] + 1) \/ (l = "failed" /\ n = 1),
           pc' = [pc EXCEPT ![a] = l], at' = [at EXCEPT ![a] = n],
           UNCHANGED <<release, seen>>, faults' \in 0..MaxFaults
    PROVE  IInv'
<1> USE DEF IInv
<1> DEFINE m == Current(a)
<1>1. /\ at[a] \in 1..Len(Plan(a)) /\ m = Plan(a)[at[a]]
      /\ m.id \in Ids /\ m.checksum \in Checksums /\ m.checksum # None
      /\ ledger[m.id] = None
    BY PlanType DEF PlacesOK, CommitsAlone, Current
<1> HIDE DEF m
<1>2. /\ ledger' = [ledger EXCEPT ![m.id] = m.checksum]
      /\ shape' = [t \in Tables |-> IF t \in created[a] THEN m.checksum ELSE shape[t]]
      /\ runs' = [runs EXCEPT ![m.id] = Append(@, m.checksum)]
      /\ created' = [created EXCEPT ![a] = {}]
      /\ UNCHANGED <<schema, ledgerTable>>
    BY DEF Committed, m
<1>3. Grows
    BY <1>1, <1>2 DEF Grows, TypeOK
<1>4. TypeOK'
    <2>1. runs[m.id] \in Seq(Checksums) /\ Append(runs[m.id], m.checksum) \in Seq(Checksums)
        BY <1>1 DEF TypeOK
    <2>2. runs' \in [Ids -> Seq(Checksums)]
        BY <2>1, <1>1, <1>2 DEF TypeOK
    <2>3. /\ ledger' \in [Ids -> Checksums \union {None}]
          /\ shape' \in [Tables -> Checksums \union {None}]
          /\ created' \in [Appliers -> SUBSET Tables]
          /\ schema' \in BOOLEAN /\ ledgerTable' \in BOOLEAN
        BY <1>1, <1>2 DEF TypeOK
    <2>4. n \in Nat \ {0}
        BY <1>1, PlanType
    <2>5. at' \in [Appliers -> Nat \ {0}]
        BY <2>4 DEF TypeOK
    <2> QED
        BY <2>2, <2>3, <2>5 DEF TypeOK
<1>5. /\ \A p \in (Appliers \union Gates) \ {a} : pc'[p] = pc[p]
      /\ pc'[a] = l /\ at'[a] = n
      /\ \A b \in Appliers \ {a} : at'[b] = at[b]
    BY DEF TypeOK
<1>6. /\ \A p \in Appliers \union Gates : Plan(p)' = Plan(p)
      /\ \A b \in Appliers \ {a} : Current(b)' = Current(b)
    BY <1>5 DEF Plan, Current
<1>7. LedgerIsHistory'
    <2>1. \A c \in Checksums : Append(<<>>, c) = <<c>>
        OBVIOUS
    <2> QED
        BY <2>1, <1>1, <1>2 DEF LedgerIsHistory, TypeOK
<1>8. VerdictIsCurrent'
    <2> SUFFICES ASSUME NEW p \in Appliers \union Gates, pc'[p] \in {"passed", "ready"}
                 PROVE  LedgerHolds(p)' /\ release'[p].expected \subseteq Installed'
        BY DEF VerdictIsCurrent
    <2>1. p # a /\ pc[p] = pc'[p]
        BY <1>5
    <2>2. LedgerHolds(p) /\ release[p].expected \subseteq Installed
        BY <2>1 DEF VerdictIsCurrent
    <2> QED
        BY <2>2, <1>3, GrowthKeeps
<1>9. PlacesOK'
    BY <1>5, <1>6, ProgramsAssumption DEF PlacesOK, ApplierPlaces, InApply
<1>10. CommitsAlone'
    <2> SUFFICES ASSUME NEW b \in Appliers, pc'[b] = "commit"
                 PROVE  /\ b # a /\ Current(b).id # m.id
                        /\ ledger'[Current(b)'.id] = None
        BY <1>5, <1>6 DEF CommitsAlone
    <2>1. b # a /\ pc[b] = "commit"
        BY <1>5
    <2>2. Current(b).id # m.id /\ ledger[Current(b).id] = None
        BY <2>1 DEF CommitsAlone, m
    <2>3. Current(b).id \in Ids
        BY <2>1, PlanType DEF PlacesOK, Current
    <2> QED
        BY <2>1, <2>2, <2>3, <1>1, <1>2, <1>6 DEF TypeOK
<1>11. PassedOver'
    <2> SUFFICES ASSUME NEW b \in Appliers, NEW k \in 1..Len(Plan(b)), k < at'[b]
                 PROVE  ledger'[Plan(b)[k].id] = Plan(b)[k].checksum
        BY <1>6 DEF PassedOver
    <2>1. CASE k < at[b]
        BY <2>1, <1>3, GrowthKeeps DEF PassedOver
    <2>2. CASE ~(k < at[b])
        <3>1. b = a /\ k = at[a]
            BY <2>2, <1>1, <1>5, PlanType DEF TypeOK
        <3> QED
            BY <3>1, <1>1, <1>2 DEF TypeOK
    <2> QED
        BY <2>1, <2>2
<1>12. SeenInstalled'
    BY <1>3, GrowthKeeps DEF SeenInstalled
<1>13. AtRest'
    BY <1>5 DEF AtRest, InApply
<1> QED
    BY <1>13, <1>4, <1>7, <1>8, <1>9, <1>10, <1>11, <1>12

\* Tables that appear without a ledger row.
LEMMA TablesKeep ==
    ASSUME IInv, TypeOK', Grows, UNCHANGED <<ledger, runs, release, at, seen>>,
           \A p \in Appliers \union Gates :
                pc'[p] = pc[p] \/ (p \in Appliers /\ pc'[p] = "lookup")
    PROVE  IInv'
<1> USE DEF IInv
<1>1. \A p \in Appliers \union Gates : Plan(p)' = Plan(p)
    BY DEF Plan
<1>2. LedgerIsHistory'
    BY DEF LedgerIsHistory
<1>3. VerdictIsCurrent'
    BY GrowthKeeps DEF VerdictIsCurrent
<1>4. PlacesOK'
    BY <1>1, ProgramsAssumption DEF PlacesOK, ApplierPlaces, InApply
<1>5. CommitsAlone'
    BY <1>1 DEF CommitsAlone, Current
<1>6. PassedOver'
    BY <1>1 DEF PassedOver
<1>7. SeenInstalled' /\ AtRest'
    BY GrowthKeeps DEF SeenInstalled, AtRest, InApply
<1> QED
    BY <1>2, <1>3, <1>4, <1>5, <1>6, <1>7

-----------------------------------------------------------------------------
\* A fault stays within its bound.
LEMMA FaultType ==
    ASSUME TypeOK, Fault
    PROVE  faults' \in 0..MaxFaults
BY FaultsAssumption DEF TypeOK, Fault

\* A rerun starts over, perhaps from another release: the applier has passed nothing yet.
LEMMA RerunKeeps ==
    ASSUME IInv, NEW a \in Appliers, Rerun(a)
    PROVE  IInv'
<1> USE DEF IInv, database
<1>1. PICK r \in Releases : release' = [release EXCEPT ![a] = r]
    BY DEF Rerun
<1>2. /\ \A p \in (Appliers \union Gates) \ {a} :
            release'[p] = release[p] /\ pc'[p] = pc[p] /\ Plan(p)' = Plan(p)
      /\ pc'[a] = "start" /\ pc[a] = "failed"
    BY <1>1 DEF Rerun, Goto, TypeOK, Plan
<1>3. TypeOK'
    BY <1>1, FaultType DEF Rerun, Goto, TypeOK
<1>4. LedgerIsHistory' /\ SeenInstalled'
    BY DEF Rerun, LedgerIsHistory, SeenInstalled, Installed
<1>5. VerdictIsCurrent'
    BY <1>2 DEF Rerun, VerdictIsCurrent, LedgerHolds, Installed
<1>6. PlacesOK'
    BY <1>2, ProgramsAssumption DEF Rerun, PlacesOK, ApplierPlaces, InApply
<1>7. CommitsAlone'
    BY <1>2 DEF Rerun, CommitsAlone, Current
<1>8. PassedOver'
    <2>1. at[a] = 1
        BY <1>2 DEF AtRest, InApply
    <2> QED
        BY <2>1, <1>2, <1>3, PlanType DEF Rerun, PassedOver
<1>9. AtRest'
    BY <1>2 DEF Rerun, AtRest, InApply
<1> QED
    BY <1>3, <1>4, <1>5, <1>6, <1>7, <1>8, <1>9

\* Every step of an applier keeps the invariant.
LEMMA ApplierKeeps ==
    ASSUME IInv, NEW a \in Appliers,
           ApplierStep(a) \/ ApplyFails(a) \/ CommitUnacknowledged(a) \/ Rerun(a)
    PROVE  IInv'
<1>0. TypeOK /\ PlacesOK /\ PassedOver /\ AtRest
    BY DEF IInv
<1>1. /\ at[a] \in Nat \ {0} /\ faults \in 0..MaxFaults
      /\ created \in [Appliers -> SUBSET Tables]
      /\ at = [at EXCEPT ![a] = at[a]] /\ pc = [pc EXCEPT ![a] = pc[a]]
      /\ Len(Plan(a)) \in Nat
    BY <1>0, PlanType DEF TypeOK
<1>2. \A k \in 1..Len(Plan(a)) : k < at[a] => ledger[Plan(a)[k].id] = Plan(a)[k].checksum
    BY <1>0 DEF PassedOver
<1>3. /\ \A l \in {"start", "ledger", "passed", "failed"} : l \in ApplierPlaces /\ l \notin InApply
      /\ \A l \in {"lookup", "begin", "record", "commit"} : l \in ApplierPlaces /\ l \in InApply
    BY DEF ApplierPlaces, InApply
<1>4. [created EXCEPT ![a] = {}] \in [Appliers -> SUBSET Tables]
    BY <1>1
<1>5. CASE Load(a)
    <2>1. PICK l \in {"ledger", "failed"} : pc' = [pc EXCEPT ![a] = l]
        BY <1>5 DEF Load, Goto
    <2>2. at[a] = 1 /\ at' = [at EXCEPT ![a] = 1]
        BY <1>0, <1>1, <1>3, <1>5 DEF Load, AtRest
    <2>3. /\ UNCHANGED <<schema, ledgerTable, ledger, shape, runs>>
          /\ UNCHANGED <<release, seen>> /\ UNCHANGED <<created, faults>>
        BY <1>5 DEF Load, database
    <2> QED
        BY <2>1, <2>2, <2>3, <1>1, ApplierStops
<1>6. CASE EnsureLedger(a)
    <2>1. TypeOK'
        BY <1>0, <1>6 DEF EnsureLedger, Goto, TypeOK
    <2>2. Grows
        BY <1>6 DEF EnsureLedger, Grows
    <2>3. \A p \in Appliers \union Gates : pc'[p] = pc[p] \/ (p \in Appliers /\ pc'[p] = "lookup")
        <3>1. pc' = [pc EXCEPT ![a] = "lookup"] /\ DOMAIN pc = Appliers \union Gates
            BY <1>0, <1>6 DEF EnsureLedger, Goto, TypeOK
        <3>2. pc'[a] = "lookup" /\ \A p \in (Appliers \union Gates) \ {a} : pc'[p] = pc[p]
            BY <3>1
        <3> QED
            BY <3>2
    <2>4. UNCHANGED <<ledger, runs, release, at, seen>>
        BY <1>6 DEF EnsureLedger
    <2> QED
        BY <2>1, <2>2, <2>3, <2>4, TablesKeep
<1>7. CASE Lookup(a)
    <2>1. at[a] \in 1..Len(Plan(a)) /\ Current(a) = Plan(a)[at[a]] /\ pc[a] = "lookup"
          /\ Current(a).checksum # None
        <3>1. at[a] \in 1..Len(Plan(a)) /\ pc[a] = "lookup"
            BY <1>1, <1>7 DEF Lookup
        <3> QED
            BY <3>1, <1>0, PlanType DEF Current
    <2>2. /\ UNCHANGED <<schema, ledgerTable, ledger, shape, runs>>
          /\ UNCHANGED <<release, seen>> /\ UNCHANGED <<created, faults>>
        BY <1>7 DEF Lookup, database
    <2>3. CASE ledger[Current(a).id] = None
        <3>1. pc' = [pc EXCEPT ![a] = "begin"] /\ at' = [at EXCEPT ![a] = at[a]]
            BY <1>1, <1>7, <2>1, <2>3 DEF Lookup, Goto
        <3> QED
            BY <3>1, <2>1, <2>2, <1>1, <1>2, <1>3, ApplierQuiet
    <2>4. CASE ledger[Current(a).id] = Current(a).checksum /\ ledger[Current(a).id] # None
        <3>1. /\ pc' = [pc EXCEPT ![a] = "lookup"]
              /\ at' = [at EXCEPT ![a] = at[a] + 1] /\ at[a] + 1 \in Nat \ {0}
            BY <1>1, <1>7, <2>1, <2>4 DEF Lookup
        <3>2. \A k \in 1..Len(Plan(a)) : k < at[a] + 1
                    => ledger[Plan(a)[k].id] = Plan(a)[k].checksum
            BY <1>1, <1>2, <2>1, <2>4
        <3> QED
            BY <3>1, <3>2, <2>2, <1>1, <1>3, ApplierQuiet
    <2>5. CASE ledger[Current(a).id] \notin {None, Current(a).checksum}
        <3>1. pc' = [pc EXCEPT ![a] = "failed"] /\ at' = [at EXCEPT ![a] = 1]
            BY <1>7, <2>5 DEF Lookup, Ends, Goto
        <3> QED
            BY <3>1, <2>2, <1>1, <1>4, ApplierStops
    <2> QED
        BY <2>3, <2>4, <2>5
<1>8. CASE RunSql(a)
    <2>1. Current(a).creates \ Installed \subseteq Tables
        <3>1. Current(a) \in Migration
            BY <1>0, <1>8, PlanType DEF RunSql, PlacesOK, Current
        <3> QED
            BY <3>1 DEF Migration
    <2>2. created' \in [Appliers -> SUBSET Tables]
        BY <2>1, <1>1, <1>8 DEF RunSql
    <2>3. at[a] \in 1..Len(Plan(a))
        BY <1>0, <1>8 DEF RunSql, PlacesOK
    <2>4. /\ UNCHANGED <<schema, ledgerTable, ledger, shape, runs>>
          /\ UNCHANGED <<release, seen>> /\ UNCHANGED faults
          /\ pc' = [pc EXCEPT ![a] = "record"] /\ at' = [at EXCEPT ![a] = at[a]]
        BY <1>1, <1>8 DEF RunSql, Goto, database
    <2> QED
        BY <2>2, <2>3, <2>4, <1>1, <1>2, <1>3, ApplierQuiet
<1>9. CASE Record(a)
    <2>1. at[a] \in 1..Len(Plan(a))
        BY <1>0, <1>9 DEF Record, PlacesOK
    <2>2. /\ UNCHANGED <<schema, ledgerTable, ledger, shape, runs>>
          /\ UNCHANGED <<release, seen>> /\ UNCHANGED faults
          /\ \A b \in Appliers \ {a} : pc[b] = "commit" => Current(b).id # Current(a).id
        BY <1>9 DEF Record, database
    <2>3. CASE ledger[Current(a).id] = None
        <3>1. pc' = [pc EXCEPT ![a] = "commit"] /\ at' = [at EXCEPT ![a] = at[a]] /\ UNCHANGED created
            BY <1>1, <1>9, <2>3 DEF Record, Goto
        <3> QED
            BY <3>1, <2>1, <2>2, <2>3, <1>1, <1>2, <1>3, ApplierQuiet
    <2>4. CASE ledger[Current(a).id] # None
        <3>1. /\ pc' = [pc EXCEPT ![a] = "failed"] /\ at' = [at EXCEPT ![a] = 1]
              /\ created' = [created EXCEPT ![a] = {}]
            BY <1>9, <2>4 DEF Record, RolledBack, Ends, Goto
        <3> QED
            BY <3>1, <2>2, <1>1, <1>4, ApplierStops
    <2> QED
        BY <2>3, <2>4
<1>10. CASE Commit(a)
    <2> DEFINE n == at[a] + 1
    <2>1. /\ pc[a] = "commit" /\ Committed(a) /\ UNCHANGED <<release, seen>>
          /\ pc' = [pc EXCEPT ![a] = "lookup"] /\ at' = [at EXCEPT ![a] = n]
          /\ faults' \in 0..MaxFaults /\ n = at[a] + 1
        BY <1>1, <1>10 DEF Commit, Goto
    <2> DEFINE l == "lookup"
    <2>2. pc' = [pc EXCEPT ![a] = l] /\ ((l = "lookup" /\ n = at[a] + 1) \/ (l = "failed" /\ n = 1))
        BY <2>1
    <2> HIDE DEF n, l
    <2> QED
        BY <2>1, <2>2, CommitKeeps
<1>11. CASE CheckTables(a)
    <2>1. LedgerHolds(a)
        BY <1>1, <1>2, <1>11 DEF CheckTables, LedgerHolds
    <2>2. PICK l \in {"passed", "failed"} :
            /\ pc' = [pc EXCEPT ![a] = l]
            /\ l = "passed" => release[a].expected \subseteq Installed
        BY <1>11 DEF CheckTables, Ends, Goto
    <2>3. /\ at' = [at EXCEPT ![a] = 1]
          /\ UNCHANGED <<schema, ledgerTable, ledger, shape, runs>>
          /\ UNCHANGED <<release, seen>> /\ UNCHANGED <<created, faults>>
        BY <1>11 DEF CheckTables, Ends, database
    <2> QED
        BY <2>1, <2>2, <2>3, <1>1, ApplierStops
<1>12. CASE ApplyFails(a)
    <2>1. faults' \in 0..MaxFaults
        BY <1>0, <1>12, FaultType DEF ApplyFails
    <2>2. /\ pc' = [pc EXCEPT ![a] = "failed"] /\ at' = [at EXCEPT ![a] = 1]
          /\ created' = [created EXCEPT ![a] = {}]
          /\ UNCHANGED <<schema, ledgerTable, ledger, shape, runs>> /\ UNCHANGED <<release, seen>>
        BY <1>12 DEF ApplyFails, RolledBack, Ends, Goto, database
    <2> QED
        BY <2>1, <2>2, <1>4, ApplierStops
<1>13. CASE CommitUnacknowledged(a)
    <2>1. faults' \in 0..MaxFaults
        BY <1>0, <1>13, FaultType DEF CommitUnacknowledged
    <2>2. /\ pc[a] = "commit" /\ Committed(a) /\ UNCHANGED <<release, seen>>
          /\ pc' = [pc EXCEPT ![a] = "failed"] /\ at' = [at EXCEPT ![a] = 1]
        BY <1>13 DEF CommitUnacknowledged, Ends, Goto
    <2> QED
        BY <2>1, <2>2, CommitKeeps
<1>14. CASE Rerun(a)
    BY <1>14, RerunKeeps
<1> QED
    BY <1>5, <1>6, <1>7, <1>8, <1>9, <1>10, <1>11, <1>12, <1>13, <1>14 DEF ApplierStep

\* Every step of a gate keeps the invariant.
LEMMA GateKeeps ==
    ASSUME IInv, NEW g \in Gates, GateStep(g) \/ GateFails(g)
    PROVE  IInv'
<1>0. TypeOK /\ SeenInstalled
    BY DEF IInv
<1>1. \A l \in {"start", "schema", "ledgerTable", "tables", "rows", "ready", "notReady"} :
        l \in GatePlaces
    BY DEF GatePlaces
<1>2. /\ seen \in [Gates -> [ledgerTable : BOOLEAN, tables : SUBSET Tables]]
      /\ \A h \in Gates : seen[h].tables \subseteq Installed
      /\ faults \in 0..MaxFaults
    BY <1>0 DEF TypeOK, SeenInstalled
<1>3. UNCHANGED <<schema, ledgerTable, ledger, shape, runs>> /\ UNCHANGED <<release, at, created>>
    BY DEF GateStep, GateLoad, ReadSchema, ReadLedgerTable, ReadTables, ReadRows, GateFails, database
<1>4. CASE GateLoad(g) \/ ReadSchema(g)
    <2>1. PICK l \in {"schema", "ledgerTable", "notReady"} : pc' = [pc EXCEPT ![g] = l]
        BY <1>4 DEF GateLoad, ReadSchema, Goto
    <2>2. UNCHANGED <<seen, faults>>
        BY <1>4 DEF GateLoad, ReadSchema
    <2> QED
        BY <2>1, <2>2, <1>1, <1>2, <1>3, GateQuiet
<1>5. CASE ReadLedgerTable(g)
    <2>1. /\ seen' \in [Gates -> [ledgerTable : BOOLEAN, tables : SUBSET Tables]]
          /\ \A h \in Gates : seen'[h].tables \subseteq Installed
        BY <1>0, <1>2, <1>5 DEF ReadLedgerTable, TypeOK
    <2>2. pc' = [pc EXCEPT ![g] = "tables"] /\ UNCHANGED faults
        BY <1>5 DEF ReadLedgerTable, Goto
    <2> QED
        BY <2>1, <2>2, <1>1, <1>2, <1>3, GateQuiet
<1>6. CASE ReadTables(g)
    <2>1. /\ seen' \in [Gates -> [ledgerTable : BOOLEAN, tables : SUBSET Tables]]
          /\ \A h \in Gates : seen'[h].tables \subseteq Installed
        BY <1>2, <1>6 DEF ReadTables, Installed
    <2>2. PICK l \in {"rows", "notReady"} : pc' = [pc EXCEPT ![g] = l]
        BY <1>6 DEF ReadTables, Goto
    <2>3. UNCHANGED faults
        BY <1>6 DEF ReadTables
    <2> QED
        BY <2>1, <2>2, <2>3, <1>1, <1>2, <1>3, GateQuiet
<1>7. CASE ReadRows(g)
    <2>1. PICK l \in {"ready", "notReady"} :
            /\ pc' = [pc EXCEPT ![g] = l]
            /\ l = "ready" => /\ LedgerIsOf(Plan(g), ledger)
                              /\ release[g].expected \subseteq seen[g].tables
        BY <1>7 DEF ReadRows, Goto
    <2>2. l = "ready" => LedgerHolds(g) /\ release[g].expected \subseteq Installed
        BY <2>1, <1>2 DEF LedgerIsOf, LedgerHolds
    <2>3. UNCHANGED <<seen, faults>>
        BY <1>7 DEF ReadRows
    <2> QED
        BY <2>1, <2>2, <2>3, <1>1, <1>2, <1>3, GateQuiet
<1>8. CASE GateFails(g)
    <2>1. faults' \in 0..MaxFaults
        BY <1>0, <1>8, FaultType DEF GateFails
    <2>2. pc' = [pc EXCEPT ![g] = "notReady"] /\ UNCHANGED seen
        BY <1>8 DEF GateFails, Goto
    <2> QED
        BY <2>1, <2>2, <1>1, <1>2, <1>3, GateQuiet
<1> QED
    BY <1>4, <1>5, <1>6, <1>7, <1>8 DEF GateStep

\* The reference schema applied without the ledger.
LEMMA DirectKeeps == ASSUME IInv, ApplyReferenceSchema PROVE IInv'
<1>0. TypeOK
    BY DEF IInv
<1>1. PICK r \in DirectReleases : \E i \in 1..Len(r.plan) :
        shape' = [t \in Tables |-> IF t \in r.plan[i].creates \ Installed
                                   THEN r.plan[i].checksum ELSE shape[t]]
    BY DEF ApplyReferenceSchema
<1>2. PICK i \in 1..Len(r.plan) :
        shape' = [t \in Tables |-> IF t \in r.plan[i].creates \ Installed
                                   THEN r.plan[i].checksum ELSE shape[t]]
    BY <1>1
<1>3. r \in [plan : Seq(Migration), expected : SUBSET Tables]
    BY ReleasesAssumption
<1>4. r.plan[i] \in Migration
    BY <1>3
<1>5. r.plan[i].checksum \in Checksums /\ r.plan[i].checksum # None
    BY <1>4, ChecksumsAssumption DEF Migration
<1>6. shape' \in [Tables -> Checksums \union {None}]
    BY <1>0, <1>2, <1>5 DEF TypeOK
<1>7. TypeOK'
    BY <1>0, <1>6 DEF ApplyReferenceSchema, TypeOK
<1>8. Grows
    BY <1>2, <1>5 DEF ApplyReferenceSchema, Grows
<1>9. /\ UNCHANGED <<ledger, runs, release, at, seen>>
      /\ \A p \in Appliers \union Gates : pc'[p] = pc[p]
    BY DEF ApplyReferenceSchema
<1> QED
    BY <1>7, <1>8, <1>9, TablesKeep

-----------------------------------------------------------------------------
\* The invariant is inductive.
LEMMA IInvHolds == Spec => []IInv
<1>1. IInv /\ [Next]_vars => IInv'
    <2> SUFFICES ASSUME IInv, [Next]_vars PROVE IInv'
        OBVIOUS
    <2>1. CASE Next
        BY <2>1, ApplierKeeps, GateKeeps, DirectKeeps DEF Next
    <2>2. CASE UNCHANGED vars
        BY <2>2 DEF vars, IInv, TypeOK, LedgerIsHistory, VerdictIsCurrent, PlacesOK, CommitsAlone,
                    PassedOver, AtRest, SeenInstalled, Plan, Current, LedgerHolds, Installed
    <2> QED
        BY <2>1, <2>2
<1> QED
    BY InitIInv, <1>1, PTL DEF Spec

\* postgres-migrations-apply commits a migration's SQL at most once and together with
\* its ledger row, for any number of appliers, releases, faults and reruns.
THEOREM MigrationsRunOnce == Spec => []LedgerIsHistory
<1>1. IInv => LedgerIsHistory
    BY DEF IInv
<1> QED
    BY IInvHolds, <1>1, PTL

\* An apply that passed and a gate that said ready are right about the database, then
\* and ever after, although none of their reads shares a transaction.
THEOREM VerdictsAreCurrent == Spec => []VerdictIsCurrent
<1>1. IInv => VerdictIsCurrent
    BY DEF IInv
<1> QED
    BY IInvHolds, <1>1, PTL

-----------------------------------------------------------------------------
(* Evidence review: what a handoff and an accepted report rest on *)

\* Operators edit the inputs within what the programs can parse.
InputsParse ==
    inputs \in [requirements : RequirementDocs, index : IndexDocs, packets : PacketDocs,
                settings : SettingDocs, claim : ClaimDocs]

\* A report that is ready for the production drill is one of production mode with
\* nothing blocked and nothing warned about.
DrillIsProduction(doc) ==
    doc.status = "ready_for_production_drill" =>
        doc.mode = "production" /\ doc.blocking = {} /\ doc.warning = {}

\* A claim that is ready for a production candidate is one of production mode whose
\* boundaries all pass on operator-owned refs.
ClaimIsBacked(gate) ==
    gate.status = "ready_for_production_candidate" =>
        /\ gate.mode = "production_candidate"
        /\ gate.blocking = {} /\ gate.warning = {}
        /\ \A b \in DOMAIN gate.boundaries : OperatorBacked(gate.boundaries[b])

\* What the handoff is made from was made by its own program, however long ago.
ReviewInv ==
    /\ InputsParse
    /\ DrillIsProduction(report) /\ DrillIsProduction(bundle)
    /\ ClaimIsBacked(adoption)
    /\ ReadyHandoffIsProduction

\* makeDeploymentReadinessReport: in production a check passes or blocks.
LEMMA ReadinessOfProduction ==
    ASSUME NEW mode \in {"reference", "production"}, NEW present, NEW refs
    PROVE  DrillIsProduction(MakeReadiness(mode, present, refs))
<1> DEFINE r == MakeReadiness(mode, present, refs)
           checks == [k \in DOMAIN refs |-> ReadinessCheck(mode, k \in present, refs[k])]
           blocking == {k \in DOMAIN refs : checks[k] = "block"}
           warning == {k \in DOMAIN refs : checks[k] = "warn"}
           status == CASE mode = "reference" -> "ready_for_reference_drill"
                       [] mode = "production" /\ blocking # {} -> "blocked_for_production"
                       [] OTHER -> "ready_for_production_drill"
<1>1. r = [mode |-> mode, checks |-> checks, blocking |-> blocking, warning |-> warning,
           status |-> status]
  BY DEF MakeReadiness
<1>2. status = "ready_for_production_drill" => mode # "reference" /\ ~(mode = "production" /\ blocking # {})
  BY Zenon
<1>3. mode = "production" => warning = {}
  BY DEF ReadinessCheck
<1> HIDE DEF r, status, blocking, warning, checks
<1>4. r.mode = mode /\ r.blocking = blocking /\ r.warning = warning /\ r.status = status
  BY <1>1
<1> QED
  BY <1>2, <1>3, <1>4 DEF DrillIsProduction, r

\* evidenceTierFor: operator_backed means refs of the operator's store, and some.
LEMMA TierOfRefs ==
    ASSUME NEW refs, EvidenceTier(refs) = "operator_backed"
    PROVE  refs # {} /\ \A ref \in refs : ref.scheme = "ops"
<1>1. "unattached" # "operator_backed" /\ "reference_backed" # "operator_backed"
  OBVIOUS
<1> QED
  BY <1>1, Zenon DEF EvidenceTier

\* makeReferenceNetworkAdoptionStageGate, with the assertion it ends in
LEMMA AdoptionOfProduction ==
    ASSUME NEW mode, NEW required, NEW present, NEW refs,
           AssertAdoption(MakeAdoption(mode, required, present, refs))
    PROVE  ClaimIsBacked(MakeAdoption(mode, required, present, refs))
<1> DEFINE gate == MakeAdoption(mode, required, present, refs)
           made(b) == MakeBoundary(b \in present, b \in required, mode = "production_candidate", refs[b])
           boundaries == [b \in DOMAIN refs |-> made(b)]
<1> SUFFICES ASSUME gate.status = "ready_for_production_candidate"
             PROVE  /\ gate.mode = "production_candidate"
                    /\ gate.blocking = {} /\ gate.warning = {}
                    /\ \A b \in DOMAIN gate.boundaries : OperatorBacked(gate.boundaries[b])
  BY DEF ClaimIsBacked
<1>1. /\ gate.mode = mode /\ gate.boundaries = boundaries
      /\ gate.status = AdoptionStatus(mode, gate.blocking)
      /\ gate.blocking = {b \in DOMAIN refs : boundaries[b].status = "block"}
  BY DEF MakeAdoption
<1>2. mode = "production_candidate" /\ gate.blocking = {}
  BY <1>1 DEF AdoptionStatus
<1>3. gate.warning = {}
  BY <1>1, <1>2 DEF AssertAdoption
<1>4. ASSUME NEW b \in DOMAIN refs
      PROVE  OperatorBacked(made(b))
  <2>1. made(b).status # "block"
    BY <1>1, <1>2
  <2>2. made(b).status = "pass"
    BY <1>2, <2>1 DEF MakeBoundary
  <2>3. made(b).tier = "operator_backed"
    BY <1>1, <1>2, <2>2 DEF AssertAdoption
  <2>4. made(b).tier = EvidenceTier(made(b).refs)
    BY DEF MakeBoundary
  <2> QED
    BY <2>2, <2>3, <2>4, TierOfRefs DEF OperatorBacked
<1> QED
  BY <1>1, <1>2, <1>3, <1>4

\* An edit leaves inputs that parse.
LEMMA EditsParse == InputsParse /\ EditInputs => InputsParse'
<1> SUFFICES ASSUME InputsParse, EditInputs PROVE InputsParse'
  OBVIOUS
<1>1. inputs' \in {[inputs EXCEPT !.requirements = r] : r \in RequirementDocs}
                  \union {[inputs EXCEPT !.index = i] : i \in IndexDocs}
                  \union {[inputs EXCEPT !.packets = p] : p \in PacketDocs}
                  \union {[inputs EXCEPT !.settings = s] : s \in SettingDocs}
                  \union {[inputs EXCEPT !.claim = c] : c \in ClaimDocs}
  BY Zenon DEF EditInputs, EditTo
<1> QED
  BY <1>1 DEF InputsParse

\* Every program and every edit keeps the invariant of the documents.
LEMMA ReviewStep == ReviewInv /\ [ReviewNext]_reviewVars => ReviewInv'
<1> SUFFICES ASSUME ReviewInv, [ReviewNext]_reviewVars PROVE ReviewInv'
  OBVIOUS
<1> USE DEF ReviewInv
<1>1. CASE EditInputs
  BY <1>1, EditsParse DEF EditInputs, EditTo, DrillIsProduction, ClaimIsBacked,
       ReadyHandoffIsProduction
<1>2. CASE WriteTemplate \/ WriteGap \/ WriteIntake \/ WriteClosure \/ WriteValidation
  BY <1>2 DEF WriteTemplate, WriteGap, WriteIntake, WriteClosure, WriteValidation, InputsParse,
       DrillIsProduction, ClaimIsBacked,
       ReadyHandoffIsProduction
<1>3. CASE WriteReport
  <2>1. inputs.settings.mode \in {"reference", "production"}
    BY DocsAssumption DEF InputsParse
  <2>2. DrillIsProduction(report')
    BY <1>3, <2>1, ReadinessOfProduction DEF WriteReport
  <2> QED
    BY <1>3, <2>2 DEF WriteReport, InputsParse, DrillIsProduction, ClaimIsBacked,
       ReadyHandoffIsProduction
<1>4. CASE WriteBundle
  <2>1. DrillIsProduction(bundle')
    BY <1>4 DEF WriteBundle, BundledReport, DrillIsProduction
  <2> QED
    BY <1>4, <2>1 DEF WriteBundle, InputsParse, DrillIsProduction, ClaimIsBacked,
       ReadyHandoffIsProduction
<1>5. CASE WriteAdoption
  <2>1. ClaimIsBacked(adoption')
    BY <1>5, AdoptionOfProduction DEF WriteAdoption
  <2> QED
    BY <1>5, <2>1 DEF WriteAdoption, InputsParse, DrillIsProduction, ClaimIsBacked,
       ReadyHandoffIsProduction
<1>6. CASE WriteHandoff
  <2>1. ReadyHandoffIsProduction'
    BY <1>6 DEF WriteHandoff, CompatibleClaims, DrillIsProduction, ClaimIsBacked,
       ReadyHandoffIsProduction
  <2> QED
    BY <1>6, <2>1 DEF WriteHandoff, InputsParse, DrillIsProduction, ClaimIsBacked
<1>7. CASE UNCHANGED reviewVars
  BY <1>7 DEF reviewVars, InputsParse, DrillIsProduction, ClaimIsBacked,
       ReadyHandoffIsProduction
<1> QED
  BY <1>1, <1>2, <1>3, <1>4, <1>5, <1>6, <1>7 DEF ReviewNext

\* It holds of every behaviour of the review.
LEMMA ReviewInvariant == ReviewSpec => []ReviewInv
<1>1. ReviewInit => ReviewInv
  <2> SUFFICES ASSUME ReviewInit PROVE ReviewInv
    OBVIOUS
  <2>1. InputsParse
    BY DocsAssumption DEF ReviewInit, InputsParse
  <2>2. NotWritten.status = "no file"
    BY DEF NotWritten
  <2> QED
    BY <2>1, <2>2 DEF ReviewInit, ReviewInv, DrillIsProduction, ClaimIsBacked,
       ReadyHandoffIsProduction
<1> QED
  BY <1>1, ReviewStep, PTL DEF ReviewSpec

\* A handoff that calls the network ready for a production candidate rests on a
\* bundle of production mode without a blocked or warned check and on a claim whose
\* boundaries all pass on operator-owned refs, for all documents operators may write
\* and in whatever order they run the programs.
THEOREM HandoffAlwaysProduction == ReviewSpec => []ReadyHandoffIsProduction
<1>1. ReviewInv => ReadyHandoffIsProduction
  BY DEF ReviewInv
<1> QED
  BY <1>1, ReviewInvariant, PTL

-----------------------------------------------------------------------------
\* An index without duplicate findings names no uri at two places.
LEMMA NoDuplicates ==
    ASSUME NEW idx \in Index, DuplicateFindings(idx) = {},
           NEW c \in Controls, NEW d \in Controls,
           NEW i \in DOMAIN idx.controls[c].refs, NEW j \in DOMAIN idx.controls[d].refs,
           idx.controls[c].refs[i].uri = idx.controls[d].refs[j].uri
    PROVE  c = d /\ i = j
<1>1. <<c, i>> \in Positions(idx) /\ <<d, j>> \in Positions(idx)
  BY DEF Positions
<1>2. c \in Nat /\ d \in Nat /\ i \in Nat /\ j \in Nat
  BY ControlCountAssumption DEF Controls, Index
<1>3. \A p, q \in Positions(idx) : Earlier(p, q) => RefAt(idx, q).uri # RefAt(idx, p).uri
  BY DEF DuplicateFindings
<1>4. RefAt(idx, <<c, i>>).uri = RefAt(idx, <<d, j>>).uri
  BY DEF RefAt
<1>5. ~Earlier(<<c, i>>, <<d, j>>) /\ ~Earlier(<<d, j>>, <<c, i>>)
  BY <1>1, <1>3, <1>4
<1> QED
  BY <1>2, <1>5 DEF Earlier

\* A gap report without findings, of an index without placeholders and duplicates,
\* counts distinct real refs only.
LEMMA NoFindingsIsBacked ==
    ASSUME NEW req \in Requirements, NEW idx \in Index,
           GapFindings(MakeGap(req, idx)) = {}, PlaceholderFindings(idx) = {},
           DuplicateFindings(idx) = {}
    PROVE  Backed(req, idx)
<1> DEFINE refs(c) == idx.controls[c].refs
           Q(c) == {i \in DOMAIN refs(c) : IsQualified(refs(c)[i], req.controls[c].role)}
<1>1. ASSUME NEW c \in Controls, NEW i \in DOMAIN refs(c) PROVE ~refs(c)[i].placeholder
  <2>1. <<c, i>> \in Positions(idx) /\ RefAt(idx, <<c, i>>) = refs(c)[i]
    BY DEF Positions, RefAt
  <2> QED
    BY <2>1 DEF PlaceholderFindings
<1>2. ASSUME NEW c \in Controls PROVE Backing(req, idx, c) = {refs(c)[i].uri : i \in Q(c)}
  BY <1>1 DEF Backing, IsQualified
<1>3. ASSUME NEW c \in Controls PROVE Cardinality(Q(c)) >= req.controls[c].min /\ IsFiniteSet(Q(c))
  <2>1. MakeGap(req, idx).controls[c].status = "satisfied"
    BY DEF GapFindings
  <2>2. MakeGap(req, idx).controls[c] = MakeGapControl(req.controls[c], idx.controls[c])
    BY DEF MakeGap
  <2>3. MakeGapControl(req.controls[c], idx.controls[c]).status = "satisfied"
    BY <2>1, <2>2
  <2>4. IsFiniteSet(Q(c))
    <3>1. refs(c) \in Seq(Ref)
      BY DEF Index
    <3>2. Len(refs(c)) \in Nat /\ DOMAIN refs(c) = 1 .. Len(refs(c))
      BY <3>1
    <3>3. IsFiniteSet(1 .. Len(refs(c)))
      BY <3>2, FS_Interval
    <3> QED
      BY <3>2, <3>3, FS_Subset
  <2>5. Cardinality(Q(c)) \in Nat /\ req.controls[c].min \in Nat
    BY <2>4, FS_CardinalityType DEF Requirements
  <2> DEFINE provided == SelectSeq(idx.controls[c].refs, LAMBDA ref : IsQualified(ref, req.controls[c].role))
             count == Cardinality(Q(c))
             missing == IF count >= req.controls[c].min THEN 0 ELSE req.controls[c].min - count
             verdict == IF idx.controls[c].status = "blocked" THEN "blocked"
                        ELSE IF missing > 0 THEN "missing_refs" ELSE "satisfied"
  <2>7. MakeGapControl(req.controls[c], idx.controls[c]) =
            [provided |-> provided, missing |-> missing, min |-> req.controls[c].min,
             role |-> req.controls[c].role, status |-> verdict]
    BY Zenon DEF MakeGapControl
  <2> HIDE DEF provided, missing, verdict
  <2>8. verdict = "satisfied"
    BY <2>3, <2>7
  <2>9. ~(missing > 0)
    BY <2>8 DEF verdict
  <2>6. count >= req.controls[c].min
    <3> HIDE DEF Q
    <3> QED
      BY <2>5, <2>9 DEF missing
  <2> QED
    BY <2>4, <2>6
<1>4. ASSUME NEW c \in Controls PROVE Cardinality(Backing(req, idx, c)) >= req.controls[c].min
  <2> DEFINE f == [i \in Q(c) |-> refs(c)[i].uri]
  <2>1. f \in Bijection(Q(c), Backing(req, idx, c))
    <3>1. f \in [Q(c) -> Backing(req, idx, c)]
      BY <1>2
    <3>2. \A i, j \in Q(c) : f[i] = f[j] => i = j
      BY NoDuplicates
    <3>3. \A u \in Backing(req, idx, c) : \E i \in Q(c) : f[i] = u
      BY <1>2
    <3> HIDE DEF f
    <3> QED
      BY <3>1, <3>2, <3>3 DEF Bijection, Injection, Surjection, IsInjective
  <2>2. Cardinality(Q(c)) = Cardinality(Backing(req, idx, c))
    <3>1. IsFiniteSet(Q(c))
      BY <1>3
    <3> HIDE DEF Q, f
    <3> QED
      BY <2>1, <3>1, FS_Bijection DEF ExistsBijection
  <2> QED
    BY <1>3, <2>2
<1>5. ASSUME NEW c \in Controls, NEW d \in Controls, c # d
      PROVE  Backing(req, idx, c) \cap Backing(req, idx, d) = {}
  BY <1>2, <1>5, NoDuplicates
<1> QED
  BY <1>4, <1>5 DEF Backed

\* An intake or private validation that accepts was made from requirements that the
\* index of that moment meets with distinct, reviewed, real refs of its own for every
\* control, for any number of controls and refs and however old the reports on disk.
THEOREM AcceptedAlwaysBacked == ReviewSpec => AcceptedIsBacked
<1> DEFINE Step == /\ intake' # intake /\ intake'.status = "accepted_for_review" =>
                        Backed(inputs.requirements, inputs.index)
                   /\ validation' # validation /\ validation'.status = "ready_for_human_review" =>
                        Backed(inputs.requirements, inputs.index)
<1>1. ASSUME ReviewInv, [ReviewNext]_reviewVars PROVE Step
  <2> DEFINE req == inputs.requirements
             idx == inputs.index
  <2>1. req \in Requirements /\ idx \in Index
    BY <1>1, DocsAssumption DEF ReviewInv, InputsParse
  <2> HIDE DEF req, idx
  <2>2. ASSUME NEW tpl, MakeIntake(req, idx, tpl, MakeGap(req, idx)).status = "accepted_for_review"
        PROVE  Backed(req, idx)
    <3>1. GapFindings(MakeGap(req, idx)) \union PlaceholderFindings(idx) \union DuplicateFindings(idx) = {}
      BY <2>2 DEF MakeIntake
    <3> QED
      BY <2>1, <3>1, NoFindingsIsBacked
  <2>3. ASSUME intake' # intake, intake'.status = "accepted_for_review" PROVE Backed(req, idx)
    <3>1. WriteIntake
      BY <1>1, <2>3 DEF ReviewNext, reviewVars, EditInputs, EditTo, WriteTemplate, WriteGap,
           WriteClosure, WriteValidation, WriteReport, WriteBundle, WriteAdoption, WriteHandoff
    <3>2. gap = MakeGap(req, idx) /\ intake' = MakeIntake(req, idx, template, gap)
      BY <3>1 DEF WriteIntake, CanMakeIntake, GapMatches, req, idx
    <3> QED
      BY <2>2, <2>3, <3>2
  <2>4. ASSUME validation' # validation, validation'.status = "ready_for_human_review"
        PROVE  Backed(req, idx)
    <3>1. WriteValidation
      BY <1>1, <2>4 DEF ReviewNext, reviewVars, EditInputs, EditTo, WriteTemplate, WriteGap,
           WriteIntake, WriteClosure, WriteReport, WriteBundle, WriteAdoption, WriteHandoff
    <3>2. validation' = MakePrivateValidation(req, idx)
      BY <3>1 DEF WriteValidation, req, idx
    <3>3. MakeIntake(req, idx, MakeTemplate("private", req), MakeGap(req, idx)).status = "accepted_for_review"
      BY <2>4, <3>2 DEF MakePrivateValidation
    <3> QED
      BY <2>2, <3>3
  <2> QED
    BY <2>3, <2>4 DEF req, idx
<1>2. ASSUME ReviewInv, [ReviewNext]_reviewVars PROVE [Step]_reviewVars
  BY <1>1, <1>2
<1> QED
  BY <1>2, ReviewInvariant, PTL DEF ReviewSpec, AcceptedIsBacked

-----------------------------------------------------------------------------
(* Scanner release: a complete status has read a trace of every row *)

\* The rows of a packet that keeps its contract: no path is named twice.
RowsAreApart(rows) ==
    /\ Len(rows) \in Nat /\ DOMAIN rows = 1 .. Len(rows)
    /\ \A i \in DOMAIN rows : DOMAIN rows[i].refs = ArtifactKinds
    /\ UniqueArtifacts(rows)

\* The trace of the ref at m was read and spoke for the row the path belongs to.
TraceWasRead(r, m) ==
    r.refs[m].kind = "accessibility" =>
        \E n \in DOMAIN r.seen : /\ r.seen[n].path = r.refs[m].path
                                 /\ FleetTraceHolds(r.seen[n].trace, RowByPath(r.rows, r.refs[m].path))

\* The ref at m was judged: it is an issue, or it was read.
Settled(r, m) == (\E issue \in r.issues : issue.at = m) \/ TraceWasRead(r, m)

\* Where the status program of the fleet is: every ref before the current one is
\* judged, and the current one is as well once its content has been read.
FleetRunInv(r) ==
    r.program = "fleet" =>
        /\ DOMAIN r = {"program", "rows", "refs", "active", "at", "stage", "issues", "since", "seen"}
        /\ r = [x \in DOMAIN r |-> r[x]]
        /\ RowsAreApart(r.rows)
        /\ r.refs = RefsOf(r.rows, FleetKinds)
        /\ r.at \in Nat \ {0}
        /\ r.seen \in Seq({r.seen[n] : n \in DOMAIN r.seen})
        /\ \A m \in 1 .. Len(r.refs) :
            m < r.at \/ (m = r.at /\ r.stage = "track") => Settled(r, m)

ReleaseInv ==
    /\ fleet \in FleetDocs
    /\ "program" \in DOMAIN run
    /\ FleetRunInv(run)
    /\ CompleteTraceSpeaksForItsRow

-----------------------------------------------------------------------------
\* collectScannerFleetEvidenceArtifactRefs: the third ref of a row is its trace.
LEMMA TraceRefOfRow ==
    ASSUME NEW rows, Len(rows) \in Nat, NEW i \in 1 .. Len(rows)
    PROVE  /\ 3 * i \in 1 .. Len(RefsOf(rows, FleetKinds))
           /\ RefsOf(rows, FleetKinds)[3 * i].kind = "accessibility"
           /\ RefsOf(rows, FleetKinds)[3 * i].path = rows[i].refs["accessibility"]
<1> DEFINE refs == RefsOf(rows, FleetKinds)
           n == Len(rows) * 3
<1>1. Len(FleetKinds) = 3 /\ FleetKinds[3] = "accessibility"
  BY DEF FleetKinds
<1>2. refs = [m \in 1 .. n |->
                LET kind == FleetKinds[((m - 1) % 3) + 1]
                IN  [kind |-> kind, path |-> rows[((m - 1) \div 3) + 1].refs[kind]]]
  BY <1>1 DEF RefsOf
<1>3. n \in Nat /\ 3 * i \in 1 .. n
  OBVIOUS
<1>4. (3 * i - 1) % 3 = 2 /\ (3 * i - 1) \div 3 = i - 1
  OBVIOUS
<1>5. refs[3 * i] = [kind |-> FleetKinds[3], path |-> rows[i].refs[FleetKinds[3]]]
  <2>1. ((3 * i - 1) % 3) + 1 = 3 /\ ((3 * i - 1) \div 3) + 1 = i
    BY <1>4
  <2> HIDE DEF n
  <2> QED
    BY <1>2, <1>3, <2>1
<1>6. Len(refs) = n
  <2> DEFINE S == {refs[m] : m \in 1 .. n}
  <2>1. DOMAIN refs = 1 .. n /\ refs \in [1 .. n -> S]
    BY <1>2
  <2> HIDE DEF refs, n
  <2>2. refs \in Seq(S)
    BY <1>3, <2>1, SeqDef
  <2> HIDE DEF S
  <2>3. Len(refs) \in Nat /\ DOMAIN refs = 1 .. Len(refs)
    BY <2>2
  <2> QED
    BY <1>3, <2>1, <2>3
<1> QED
  BY <1>1, <1>3, <1>5, <1>6

\* rowsByEvidenceArtifactPath: when no path is named twice, a path is its row's.
LEMMA RowOfTrace ==
    ASSUME NEW rows, RowsAreApart(rows), NEW i \in DOMAIN rows
    PROVE  RowByPath(rows, rows[i].refs["accessibility"]) = rows[i]
<1> DEFINE path == rows[i].refs["accessibility"]
           naming == {j \in DOMAIN rows : \E k \in DOMAIN rows[j].refs : rows[j].refs[k] = path}
<1>1. naming = {i}
  BY DEF RowsAreApart, UniqueArtifacts, ArtifactKinds
<1>2. i \in Nat
  BY DEF RowsAreApart
<1>3. (CHOOSE j \in naming : \A l \in naming : l <= j) = i
  <2> HIDE DEF naming
  <2> QED
    BY <1>1, <1>2
<1> QED
  BY <1>3 DEF RowByPath

-----------------------------------------------------------------------------
\* Stat: an issue, or on to the content.
LEMMA StatOutcome ==
    ASSUME Stat
    PROVE  \/ \E reason : run' = Issue(reason)
           \/ run' = [run EXCEPT !.stage = IF run.program = "readiness" THEN "track" ELSE "read"]
<1> DEFINE file == files[ArtifactRef.path]
           minimum == IF run.program = "readiness" THEN ReadinessMinimumBytes(ArtifactRef.kind)
                      ELSE MinimumBytesFor(ArtifactRef.kind)
           next == [run EXCEPT !.stage = IF run.program = "readiness" THEN "track" ELSE "read"]
<1>1. run' = CASE file.kind = "none" -> Issue("missing")
               [] file.kind = "directory" -> Issue("not a file")
               [] file.kind = "file" /\ file.bytes < minimum -> Issue("too small")
               [] OTHER -> next
  BY Zenon DEF Stat
<1> HIDE DEF file, minimum, next
<1>2. \/ run' = Issue("missing") \/ run' = Issue("not a file") \/ run' = Issue("too small")
      \/ run' = next
  BY <1>1, Zenon
<1> QED
  BY <1>2 DEF next

\* Read: an issue, or the content holds and a trace is remembered.
LEMMA ReadOutcome ==
    ASSUME Read
    PROVE  \/ \E reason : run' = Issue(reason)
           \/ /\ ContentHolds(run.program, ArtifactRef, files[ArtifactRef.path],
                              RowByPath(run.rows, ArtifactRef.path))
              /\ run' = [run EXCEPT !.stage = "track",
                            !.seen = IF ArtifactRef.kind = "accessibility"
                                     THEN Append(@, [path |-> ArtifactRef.path,
                                                     trace |-> files[ArtifactRef.path].trace])
                                     ELSE @]
  BY Zenon DEF Read

\* A trace whose content holds states its row's fixture and decision state.
LEMMA ContentOfTrace ==
    ASSUME NEW ref, NEW file, NEW row, ref.kind = "accessibility", ContentHolds("fleet", ref, file, row)
    PROVE  FleetTraceHolds(file.trace, row)
  BY Zenon DEF ContentHolds

\* An artifact with an issue is judged.
LEMMA IssueKeeps ==
    ASSUME FleetRunInv(run), NEW reason, run' = Issue(reason) PROVE FleetRunInv(run')
<1> SUFFICES ASSUME run'.program = "fleet" PROVE FleetRunInv(run')
  BY DEF FleetRunInv
<1>1. run.program = "fleet"
  BY DEF Issue, FleetRunInv
<1> USE <1>1 DEF FleetRunInv
<1>2. /\ DOMAIN run' = DOMAIN run /\ run' = [x \in DOMAIN run' |-> run'[x]]
      /\ run'.program = run.program
      /\ run'.rows = run.rows /\ run'.refs = run.refs /\ run'.seen = run.seen
      /\ run'.at = run.at + 1 /\ run'.stage = "stat"
      /\ run'.issues = run.issues \union {[at |-> run.at, reason |-> reason]}
  BY DEF Issue
<1>3. ASSUME NEW m \in 1 .. Len(run.refs), m < run.at + 1 PROVE Settled(run', m)
  <2>1. CASE m = run.at
    <3>1. [at |-> run.at, reason |-> reason] \in run'.issues
      BY <1>2
    <3> QED
      BY <2>1, <3>1 DEF Settled
  <2>2. CASE m < run.at
    BY <1>2, <2>2 DEF Settled, TraceWasRead
  <2> QED
    BY <1>3, <2>1, <2>2
<1> QED
  BY <1>2, <1>3

\* A step to the next stage judges nothing, unless it remembers a trace.
LEMMA StageKeeps ==
    ASSUME FleetRunInv(run), run.program = "fleet", run' = [run EXCEPT !.stage = "read"]
    PROVE  FleetRunInv(run')
<1> USE DEF FleetRunInv
<1>1. /\ DOMAIN run' = DOMAIN run /\ run' = [x \in DOMAIN run' |-> run'[x]]
      /\ run'.program = run.program
      /\ run'.rows = run.rows /\ run'.refs = run.refs /\ run'.seen = run.seen
      /\ run'.at = run.at /\ run'.stage = "read" /\ run'.issues = run.issues
  OBVIOUS
<1>2. ASSUME NEW m \in 1 .. Len(run.refs), m < run.at PROVE Settled(run', m)
  BY <1>1, <1>2 DEF Settled, TraceWasRead
<1> QED
  BY <1>1, <1>2

\* The other programs stay what they are.
LEMMA OtherRuns ==
    ASSUME Stat \/ Read \/ Track, "program" \in DOMAIN run
    PROVE  run'.program = run.program /\ "program" \in DOMAIN run'
<1>1. CASE \E reason : run' = Issue(reason)
  BY <1>1 DEF Issue
<1>2. CASE run' = Present
  BY <1>2 DEF Present
<1>3. CASE \E stage : run' = [run EXCEPT !.stage = stage]
  BY <1>3
<1>4. CASE \E stage, read : run' = [run EXCEPT !.stage = stage, !.seen = read]
  BY <1>4
<1>5. CASE Stat
  BY <1>1, <1>3, <1>5, StatOutcome
<1>6. CASE Read
  BY <1>1, <1>4, <1>6, ReadOutcome
<1>7. CASE Track
  BY <1>1, <1>2, <1>7 DEF Track
<1> QED
  BY <1>5, <1>6, <1>7

\* A trace that was read settles its ref or is an issue.
LEMMA ReadKeeps == ASSUME FleetRunInv(run), run.program = "fleet", Read PROVE FleetRunInv(run')
<1> DEFINE ref == ArtifactRef
           row == RowByPath(run.rows, ref.path)
           e == [path |-> ref.path, trace |-> files[ref.path].trace]
<1>1. CASE \E reason : run' = Issue(reason)
  BY <1>1, IssueKeeps
<1>2. CASE /\ ContentHolds(run.program, ref, files[ref.path], row)
           /\ run' = [run EXCEPT !.stage = "track",
                         !.seen = IF ref.kind = "accessibility" THEN Append(@, e) ELSE @]
  <2> USE DEF FleetRunInv
  <2>1. /\ DOMAIN run' = DOMAIN run /\ run' = [x \in DOMAIN run' |-> run'[x]]
        /\ run'.program = run.program
        /\ run'.rows = run.rows /\ run'.refs = run.refs /\ run'.issues = run.issues
        /\ run'.at = run.at /\ run'.stage = "track"
        /\ run'.seen = IF ref.kind = "accessibility" THEN Append(run.seen, e) ELSE run.seen
    BY <1>2
  <2> DEFINE S == {run.seen[n] : n \in DOMAIN run.seen}
  <2>2. run.seen \in Seq(S)
    OBVIOUS
  <2>3. /\ run'.seen \in Seq({run'.seen[n] : n \in DOMAIN run'.seen})
        /\ \A n \in DOMAIN run.seen : n \in DOMAIN run'.seen /\ run'.seen[n] = run.seen[n]
        /\ ref.kind = "accessibility" => \E n \in DOMAIN run'.seen : run'.seen[n] = e
    <3>1. CASE ref.kind # "accessibility"
      BY <2>1, <3>1
    <3>2. CASE ref.kind = "accessibility"
      <4> DEFINE T == S \union {e}
                 s == run.seen
                 t == run'.seen
      <4>1. t = Append(s, e)
        BY <2>1, <3>2
      <4>2. s \in Seq(T) /\ e \in T
        BY <2>2
      <4> HIDE DEF T, S, e, s, t
      <4>3. /\ t \in Seq(T) /\ Len(t) = Len(s) + 1 /\ Len(s) \in Nat
            /\ t[Len(s) + 1] = e
            /\ \A n \in 1 .. Len(s) : t[n] = s[n]
        BY <4>1, <4>2
      <4>4. DOMAIN t = 1 .. Len(t) /\ DOMAIN s = 1 .. Len(s)
        BY <4>2, <4>3
      <4>5. t \in Seq({t[n] : n \in DOMAIN t})
        BY <4>3, <4>4
      <4> QED
        BY <4>3, <4>4, <4>5 DEF s, t
    <3> QED
      BY <3>1, <3>2
  <2>4. ASSUME NEW m \in 1 .. Len(run.refs), m < run.at PROVE Settled(run', m)
    <3>1. Settled(run, m)
      BY <2>4
    <3> QED
      BY <2>1, <2>3, <3>1 DEF Settled, TraceWasRead
  <2>5. TraceWasRead(run', run.at)
    <3> SUFFICES ASSUME ref.kind = "accessibility" PROVE TraceWasRead(run', run.at)
      BY <2>1 DEF TraceWasRead, ArtifactRef
    <3>1. FleetTraceHolds(files[ref.path].trace, row)
      BY <1>2, ContentOfTrace
    <3>2. PICK n \in DOMAIN run'.seen : run'.seen[n] = e
      BY <2>3
    <3>3. run'.seen[n].path = ref.path /\ run'.seen[n].trace = files[ref.path].trace
      BY <3>2
    <3>4. run'.refs[run.at] = ref /\ run'.rows = run.rows
      BY <2>1 DEF ArtifactRef
    <3> HIDE DEF e, ref
    <3> QED
      BY <3>1, <3>3, <3>4 DEF TraceWasRead
  <2> QED
    BY <2>1, <2>3, <2>4, <2>5 DEF Settled
<1> QED
  BY <1>1, <1>2, ReadOutcome

\* The index settles the ref that was read before.
LEMMA TrackKeeps == ASSUME FleetRunInv(run), run.program = "fleet", Track PROVE FleetRunInv(run')
<1>1. CASE run' = Issue("untracked")
  BY <1>1, IssueKeeps
<1>2. CASE run' = Present
  <2> USE DEF FleetRunInv
  <2>1. /\ DOMAIN run' = DOMAIN run /\ run' = [x \in DOMAIN run' |-> run'[x]]
        /\ run'.program = run.program
        /\ run'.rows = run.rows /\ run'.refs = run.refs /\ run'.seen = run.seen
        /\ run'.at = run.at + 1 /\ run'.stage = "stat" /\ run'.issues = run.issues
    BY <1>2 DEF Present
  <2>2. run.stage = "track"
    BY DEF Track, Working
  <2>3. ASSUME NEW m \in 1 .. Len(run.refs), m < run.at + 1 PROVE Settled(run', m)
    <3>1. Settled(run, m)
      BY <2>2, <2>3
    <3> QED
      BY <2>1, <3>1 DEF Settled, TraceWasRead
  <2> QED
    BY <2>1, <2>3
<1> QED
  BY <1>1, <1>2 DEF Track

\* A status that is complete judged every ref and found no issue.
LEMMA FinishKeeps ==
    ASSUME ReleaseInv, Finish PROVE CompleteTraceSpeaksForItsRow'
<1>1. CASE run.program # "fleet"
  <2>1. fleetStatus' = fleetStatus
    BY <1>1 DEF Finish
  <2> QED
    BY <2>1 DEF ReleaseInv, CompleteTraceSpeaksForItsRow
<1>2. CASE run.program = "fleet"
  <2> DEFINE s == IF run.issues = {} THEN "complete" ELSE "incomplete"
  <2>1. fleetStatus' = MakeStatus
    BY <1>2 DEF Finish
  <2>2. fleetStatus'.status = s /\ fleetStatus'.rows = run.rows /\ fleetStatus'.seen = run.seen
    BY <2>1 DEF MakeStatus
  <2> SUFFICES ASSUME run.issues = {}, NEW i \in DOMAIN run.rows
               PROVE  \E n \in DOMAIN run.seen :
                        /\ run.seen[n].path = run.rows[i].refs["accessibility"]
                        /\ FleetTraceHolds(run.seen[n].trace, run.rows[i])
    BY <2>2 DEF CompleteTraceSpeaksForItsRow, FleetTraceHolds
  <2>3. /\ RowsAreApart(run.rows) /\ run.refs = RefsOf(run.rows, FleetKinds) /\ run.at \in Nat
        /\ \A m \in 1 .. Len(run.refs) : m < run.at => Settled(run, m)
    BY <1>2 DEF ReleaseInv, FleetRunInv
  <2>4. Len(run.rows) \in Nat /\ i \in 1 .. Len(run.rows)
    BY <2>3 DEF RowsAreApart
  <2>5. /\ 3 * i \in 1 .. Len(run.refs)
        /\ run.refs[3 * i].kind = "accessibility"
        /\ run.refs[3 * i].path = run.rows[i].refs["accessibility"]
    BY <2>3, <2>4, TraceRefOfRow
  <2>6. TraceWasRead(run, 3 * i)
    <3>1. 3 * i < run.at
      BY <2>3, <2>4, <2>5 DEF Finish
    <3> QED
      BY <2>3, <2>5, <3>1 DEF Settled
  <2> QED
    BY <2>3, <2>5, <2>6, RowOfTrace DEF TraceWasRead
<1> QED
  BY <1>1, <1>2

\* A program that is started has judged nothing.
LEMMA StartKeeps ==
    ASSUME ReleaseInv, StartFleetStatus \/ StartProviderStatus \/ StartReadiness
    PROVE  FleetRunInv(run') /\ "program" \in DOMAIN run'
<1>1. CASE StartFleetStatus
  <2> DEFINE rows == fleet.rows
             refs == RefsOf(fleet.rows, FleetKinds)
  <2>1. run' = [program |-> "fleet", rows |-> rows, refs |-> refs, active |-> TRUE, at |-> 1,
                stage |-> "stat", issues |-> {}, since |-> releaseEdits, seen |-> <<>>]
    BY <1>1 DEF StartFleetStatus, Started
  <2>2. RowsAreApart(rows)
    BY <1>1, ReleaseAssumption DEF ReleaseInv, StartFleetStatus, AssertScannerFleet, RowsAreApart
  <2> HIDE DEF rows
  <2>3. /\ DOMAIN run' = {"program", "rows", "refs", "active", "at", "stage", "issues", "since", "seen"}
        /\ run' = [x \in DOMAIN run' |-> run'[x]]
        /\ run'.rows = rows /\ run'.refs = refs /\ run'.at = 1 /\ run'.stage = "stat" /\ run'.seen = <<>>
    BY <2>1
  <2>4. ASSUME NEW m \in 1 .. Len(refs) PROVE ~(m < 1)
    OBVIOUS
  <2> QED
    BY <2>2, <2>3, <2>4 DEF FleetRunInv, rows
<1>2. CASE StartProviderStatus \/ StartReadiness
  BY <1>2 DEF StartProviderStatus, StartReadiness, Started, FleetRunInv
<1> QED
  BY <1>1, <1>2

\* Every program step and every edit keeps the invariant of the release.
LEMMA ReleaseStep == ReleaseInv /\ [ReleaseNext]_releaseVars => ReleaseInv'
<1> SUFFICES ASSUME ReleaseInv, [ReleaseNext]_releaseVars PROVE ReleaseInv'
  OBVIOUS
<1> USE DEF ReleaseInv
<1>1. CASE EditDocument \/ EditFile \/ EditIndex
  BY <1>1 DEF EditDocument, EditFile, EditIndex, FleetRunInv, CompleteTraceSpeaksForItsRow, reports
<1>2. CASE WriteDistribution
  BY <1>2 DEF WriteDistribution, FleetRunInv, CompleteTraceSpeaksForItsRow, docs
<1>3. CASE StartFleetStatus \/ StartProviderStatus \/ StartReadiness
  <2>1. UNCHANGED <<fleet, fleetStatus>>
    BY <1>3 DEF StartFleetStatus, StartProviderStatus, StartReadiness, docs, reports
  <2> QED
    BY <1>3, <2>1, StartKeeps DEF CompleteTraceSpeaksForItsRow, FleetRunInv
<1>4. CASE Stat \/ Read \/ Track
  <2>1. UNCHANGED <<fleet, fleetStatus>>
    BY <1>4 DEF Stat, Read, Track, docs, reports
  <2>2. FleetRunInv(run')
    <3>1. CASE run.program = "fleet"
      BY <1>4, <3>1, StatOutcome, IssueKeeps, StageKeeps, ReadKeeps, TrackKeeps
    <3>2. CASE run.program # "fleet"
      BY <1>4, <3>2, OtherRuns DEF FleetRunInv
    <3> QED
      BY <3>1, <3>2
  <2> QED
    BY <1>4, <2>1, <2>2, OtherRuns DEF CompleteTraceSpeaksForItsRow, FleetRunInv
<1>5. CASE Finish
  <2>1. run' = Idle /\ fleet' = fleet
    BY <1>5 DEF Finish, docs
  <2>2. FleetRunInv(run') /\ "program" \in DOMAIN run'
    BY <2>1 DEF FleetRunInv, Idle
  <2> QED
    BY <1>5, <2>1, <2>2, FinishKeeps DEF FleetRunInv
<1>6. CASE UNCHANGED releaseVars
  BY <1>6 DEF releaseVars, docs, reports, FleetRunInv, CompleteTraceSpeaksForItsRow
<1> QED
  BY <1>1, <1>2, <1>3, <1>4, <1>5, <1>6 DEF ReleaseNext

\* It holds of every behaviour of the release.
LEMMA ReleaseInvariant == ReleaseSpec => []ReleaseInv
<1>1. ReleaseInit => ReleaseInv
  BY ReleaseAssumption DEF ReleaseInit, ReleaseInv, FleetRunInv, Idle, CompleteTraceSpeaksForItsRow
<1> QED
  BY <1>1, ReleaseStep, PTL DEF ReleaseSpec

\* A fleet status that is complete has read, for every row of the packet it was started
\* with, a trace that states the row's own fixture and decision state, for all packets
\* and files operators may put there and whatever they change while the program runs.
THEOREM CompleteAlwaysSpeaksForItsRow == ReleaseSpec => []CompleteTraceSpeaksForItsRow
<1>1. ReleaseInv => CompleteTraceSpeaksForItsRow
  BY DEF ReleaseInv
<1> QED
  BY <1>1, ReleaseInvariant, PTL
=============================================================================
