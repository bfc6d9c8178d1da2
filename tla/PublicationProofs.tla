-------------------------- MODULE PublicationProofs --------------------------
(***************************************************************************)
(* Proofs about what is published and the keys it is signed with.          *)
(*                                                                         *)
(* PublicationPipeline, for any issuers, workers and items. What a worker  *)
(* counts as published (its ok set) is announced already, and events are   *)
(* never taken back, so a mark that comes late, from a worker whose claim  *)
(* has lapsed, is still true. An artifact in the store without its event   *)
(* belongs to a publisher between its two writes or to one that a failure  *)
(* stopped there; the two are counted apart.                               *)
(*                                                                         *)
(* TrustKeys, for any keys, providers, requests and plans. A status event  *)
(* is checked once and applied later, and the registry may change between  *)
(* the two. That only a key in force for the signer governs the change     *)
(* follows from the second lookup alone: nothing is taken over from the    *)
(* first. A rotation is assessed once and carried out in later steps. What *)
(* makes the new key stand in for the old one are facts about the keys     *)
(* alone (Exchangeable), which no later step can take back (PlanInv).      *)
(***************************************************************************)
EXTENDS PublicationPipeline, TrustKeys, FiniteSetTheorems, WellFoundedInduction,
        TLAPS

\* What a worker keeps of its batch.
Rec(p, b, o, d) == [pc |-> p, batch |-> b, ok |-> o, bad |-> d]
IsRec(r) == r = Rec(r.pc, r.batch, r.ok, r.bad)

\* The functions and records the state is made of.
Shape ==
    /\ work = [k \in ItemIds |-> [status |-> work[k].status, lapsed |-> work[k].lapsed]]
    /\ worker = [w \in Workers |-> worker[w]]
    /\ \A w \in Workers : IsRec(worker[w])

\* Everything a worker counts as published has its event in the outbox.
OkIsAnnounced == \A w \in Workers : \A k \in worker[w].ok : ItemBody(k) \in outbox

IInv == Shape /\ OkIsAnnounced /\ CompletedIsAnnounced

-----------------------------------------------------------------------------
(* Functions of records under EXCEPT *)

\* g is f but for w, where it is r.
Changed(W, f, g, w, r) ==
    g = [v \in W |-> g[v]] /\ g[w] = r /\ \A v \in W : v # w => g[v] = f[v]

\* A record of a worker has the parts it was made of.
LEMMA RecParts ==
    ASSUME NEW p, NEW b, NEW o, NEW d
    PROVE  /\ IsRec(Rec(p, b, o, d))
           /\ Rec(p, b, o, d).pc = p /\ Rec(p, b, o, d).batch = b
           /\ Rec(p, b, o, d).ok = o /\ Rec(p, b, o, d).bad = d
  BY DEF Rec, IsRec

\* Another location in a record.
LEMMA RecPc ==
    ASSUME NEW r, IsRec(r), NEW x
    PROVE  [r EXCEPT !.pc = x] = Rec(x, r.batch, r.ok, r.bad)
  BY DEF Rec, IsRec

\* Another batch in a record.
LEMMA RecBatch ==
    ASSUME NEW r, IsRec(r), NEW x
    PROVE  [r EXCEPT !.batch = x] = Rec(r.pc, x, r.ok, r.bad)
  BY DEF Rec, IsRec

\* The record of a worker that has claimed b.
LEMMA Started ==
    ASSUME NEW b
    PROVE  [Idle EXCEPT !.pc = "next", !.batch = b] = Rec("next", b, {}, {})
  <1> DEFINE s == Rec("next", Idle.batch, {}, {})
  <1>1. IsRec(Idle) /\ Idle.ok = {} /\ Idle.bad = {}
    BY DEF Idle, IsRec, Rec
  <1>2. [Idle EXCEPT !.pc = "next"] = s
    BY <1>1, RecPc
  <1>3. [Idle EXCEPT !.pc = "next", !.batch = b] = [[Idle EXCEPT !.pc = "next"] EXCEPT !.batch = b]
    OBVIOUS
  <1>4. IsRec(s) /\ s.pc = "next" /\ s.ok = {} /\ s.bad = {}
    BY RecParts
  <1> HIDE DEF s
  <1>5. [s EXCEPT !.batch = b] = Rec("next", b, {}, {})
    BY <1>4, RecBatch
  <1> QED
    BY <1>2, <1>3, <1>5

\* A claim that lapses.
LEMMA ChangeLapsed ==
    ASSUME NEW W, NEW f, f = [v \in W |-> f[v]], NEW w \in W, NEW x,
           f[w] = [status |-> f[w].status, lapsed |-> f[w].lapsed]
    PROVE  Changed(W, f, [f EXCEPT ![w].lapsed = x], w, [status |-> f[w].status, lapsed |-> x])
  BY DEF Changed

\* A whole record replaced.
LEMMA ChangeAll ==
    ASSUME NEW W, NEW f, f = [v \in W |-> f[v]], NEW w \in W, NEW x
    PROVE  Changed(W, f, [f EXCEPT ![w] = x], w, x)
  BY DEF Changed

\* The location of one worker replaced.
LEMMA ChangePc ==
    ASSUME NEW W, NEW f, f = [v \in W |-> f[v]], NEW w \in W, NEW x, IsRec(f[w])
    PROVE  Changed(W, f, [f EXCEPT ![w].pc = x], w, Rec(x, f[w].batch, f[w].ok, f[w].bad))
  BY DEF Changed, Rec, IsRec

\* The gate refuses the item at the head of the batch.
LEMMA ChangeRefused ==
    ASSUME NEW W, NEW f, f = [v \in W |-> f[v]], NEW w \in W, NEW y, IsRec(f[w])
    PROVE  Changed(W, f, [f EXCEPT ![w].batch = Tail(@), ![w].bad = @ \union {y}], w,
                   Rec(f[w].pc, Tail(f[w].batch), f[w].ok, f[w].bad \union {y}))
  BY DEF Changed, Rec, IsRec

\* One of the two writes of an item fails.
LEMMA ChangeFailed ==
    ASSUME NEW W, NEW f, f = [v \in W |-> f[v]], NEW w \in W, NEW y, IsRec(f[w])
    PROVE  Changed(W, f, [f EXCEPT ![w].pc = "next", ![w].batch = Tail(@),
                                   ![w].bad = @ \union {y}], w,
                   Rec("next", Tail(f[w].batch), f[w].ok, f[w].bad \union {y}))
  BY DEF Changed, Rec, IsRec

\* An item is announced.
LEMMA ChangeDone ==
    ASSUME NEW W, NEW f, f = [v \in W |-> f[v]], NEW w \in W, NEW y, IsRec(f[w])
    PROVE  Changed(W, f, [f EXCEPT ![w].pc = "next", ![w].batch = Tail(@),
                                   ![w].ok = @ \union {y}], w,
                   Rec("next", Tail(f[w].batch), f[w].ok \union {y}, f[w].bad))
  BY DEF Changed, Rec, IsRec

-----------------------------------------------------------------------------
\* The initial state satisfies the invariant.
LEMMA InitInv == Init => IInv
  BY DEF Init, Idle, IInv, Shape, IsRec, Rec, OkIsAnnounced, CompletedIsAnnounced

\* No step takes an event back.
LEMMA OutboxGrows == [Next]_vars => outbox \subseteq outbox'
  BY DEF Next, vars, StartBundle, PutBundle, AnnounceBundle, AbortBundle, Govern, WorkerStep,
         Claim, PassGate, PutItem, AnnounceItem, MarkCompleted, MarkFailed, FailItem, Crash, Lapse,
         Announce

\* A worker's step changes its own record; what it adds to ok it has announced.
LEMMA WorkerRecords ==
    ASSUME IInv, NEW w \in Workers, WorkerStep(w) \/ FailItem(w) \/ Crash(w)
    PROVE  /\ worker' = [v \in Workers |-> worker'[v]]
           /\ \A v \in Workers : IsRec(worker'[v])
           /\ \A v \in Workers : \A k \in worker'[v].ok : ItemBody(k) \in outbox'
  <1> DEFINE q == worker[w]
             Kept == /\ worker' = [v \in Workers |-> worker'[v]]
                     /\ \A v \in Workers : IsRec(worker'[v])
                     /\ \A v \in Workers : \A k \in worker'[v].ok : ItemBody(k) \in outbox'
  <1>1. worker = [v \in Workers |-> worker[v]] /\ IsRec(q)
    BY DEF IInv, Shape
  <1>2. outbox \subseteq outbox'
    BY DEF WorkerStep, Claim, PassGate, PutItem, AnnounceItem, MarkCompleted, MarkFailed, FailItem,
           Crash, Announce
  <1>3. \A k \in q.ok : ItemBody(k) \in outbox'
    BY <1>2 DEF IInv, OkIsAnnounced
  <1>4. ASSUME NEW p, NEW b, NEW o, NEW d,
               Changed(Workers, worker, worker', w, Rec(p, b, o, d)),
               \A k \in o : ItemBody(k) \in outbox'
        PROVE  Kept
    <2>1. IsRec(Rec(p, b, o, d)) /\ Rec(p, b, o, d).ok = o
      BY RecParts
    <2>2. \A v \in Workers : worker'[v] = Rec(p, b, o, d) \/ worker'[v] = worker[v]
      BY <1>4 DEF Changed
    <2>3. worker' = [v \in Workers |-> worker'[v]]
      BY <1>4 DEF Changed
    <2>4. \A v \in Workers : IsRec(worker'[v])
      BY <2>1, <2>2 DEF IInv, Shape
    <2>5. \A v \in Workers : \A k \in worker'[v].ok : ItemBody(k) \in outbox'
      BY <1>2, <1>4, <2>1, <2>2 DEF IInv, OkIsAnnounced
    <2> QED
      BY <2>3, <2>4, <2>5
  <1>5. CASE Claim(w)
    <2>1. CASE worker' = worker
      BY <1>2, <2>1 DEF IInv, Shape, OkIsAnnounced
    <2>2. CASE worker' # worker
      <3> DEFINE b == SelectSeq([k \in ItemIds |-> k], LAMBDA k : k \in NextRows)
      <3>1. worker' = [worker EXCEPT ![w] = [Idle EXCEPT !.pc = "next", !.batch = b]]
        BY <1>5, <2>2 DEF Claim
      <3> HIDE DEF b
      <3>2. [Idle EXCEPT !.pc = "next", !.batch = b] = Rec("next", b, {}, {})
        BY Started
      <3>3. Changed(Workers, worker, worker', w, Rec("next", b, {}, {}))
        BY <1>1, <3>1, <3>2, ChangeAll
      <3> QED
        BY <1>4, <3>3
    <2> QED
      BY <2>1, <2>2
  <1>6. CASE PassGate(w)
    <2>1. CASE worker' = [worker EXCEPT ![w].pc = "put"]
      <3>1. Changed(Workers, worker, worker', w, Rec("put", q.batch, q.ok, q.bad))
        BY <1>1, <2>1, ChangePc
      <3> QED
        BY <1>3, <1>4, <3>1
    <2>2. CASE worker' = [worker EXCEPT ![w].batch = Tail(@), ![w].bad = @ \union {Current(w)}]
      <3>1. Changed(Workers, worker, worker', w,
                    Rec(q.pc, Tail(q.batch), q.ok, q.bad \union {Current(w)}))
        BY <1>1, <2>2, ChangeRefused
      <3> QED
        BY <1>3, <1>4, <3>1
    <2> QED
      BY <1>6, <2>1, <2>2 DEF PassGate
  <1>7. CASE PutItem(w)
    <2>1. Changed(Workers, worker, worker', w, Rec("announce", q.batch, q.ok, q.bad))
      BY <1>1, <1>7, ChangePc DEF PutItem
    <2> QED
      BY <1>3, <1>4, <2>1
  <1>8. CASE AnnounceItem(w)
    <2>1. Changed(Workers, worker, worker', w,
                  Rec("next", Tail(q.batch), q.ok \union {Current(w)}, q.bad))
      BY <1>1, <1>8, ChangeDone DEF AnnounceItem
    <2>2. ItemBody(Current(w)) \in outbox'
      BY <1>8 DEF AnnounceItem, Announce
    <2>3. \A k \in q.ok \union {Current(w)} : ItemBody(k) \in outbox'
      BY <1>3, <2>2
    <2> QED
      BY <1>4, <2>1, <2>3
  <1>9. CASE FailItem(w)
    <2>1. Changed(Workers, worker, worker', w,
                  Rec("next", Tail(q.batch), q.ok, q.bad \union {Current(w)}))
      BY <1>1, <1>9, ChangeFailed DEF FailItem
    <2> QED
      BY <1>3, <1>4, <2>1
  <1>10. CASE MarkCompleted(w)
    <2>1. Changed(Workers, worker, worker', w, Rec("mark", q.batch, q.ok, q.bad))
      BY <1>1, <1>10, ChangePc DEF MarkCompleted
    <2> QED
      BY <1>3, <1>4, <2>1
  <1>11. CASE MarkFailed(w) \/ Crash(w)
    <2>1. Idle = Rec("idle", <<>>, {}, {})
      BY DEF Idle, Rec
    <2>2. Changed(Workers, worker, worker', w, Rec("idle", <<>>, {}, {}))
      BY <1>1, <1>11, <2>1, ChangeAll DEF MarkFailed, Crash
    <2> QED
      BY <1>4, <2>2
  <1> QED
    BY <1>5, <1>6, <1>7, <1>8, <1>9, <1>10, <1>11 DEF WorkerStep

\* The table after a step: an item is completed only by a mark, which finds it
\* among the ok items of its worker.
LEMMA WorkRows ==
    ASSUME IInv, [Next]_vars
    PROVE  /\ work' = [k \in ItemIds |-> [status |-> work'[k].status, lapsed |-> work'[k].lapsed]]
           /\ \A k \in ItemIds : work'[k].status = "completed" =>
                 work[k].status = "completed" \/ \E w \in Workers : k \in worker[w].ok
  <1> DEFINE Row(r) == r = [status |-> r.status, lapsed |-> r.lapsed]
  <1>1. work = [k \in ItemIds |-> work[k]] /\ \A k \in ItemIds : Row(work[k])
    BY DEF IInv, Shape
  <1>2. CASE work' = work
    BY <1>1, <1>2
  <1>3. ASSUME NEW w \in Workers, Claim(w)
        PROVE  /\ work' = [k \in ItemIds |-> work'[k]] /\ \A k \in ItemIds : Row(work'[k])
               /\ \A k \in ItemIds : work'[k].status = "completed" => work[k].status = "completed"
    <2>1. work' = [k \in ItemIds |-> IF k \in NextRows
                     THEN [status |-> "processing", lapsed |-> FALSE] ELSE work[k]]
      BY <1>3 DEF Claim
    <2> QED
      BY <1>1, <2>1
  <1>4. ASSUME NEW w \in Workers, MarkCompleted(w)
        PROVE  /\ work' = [k \in ItemIds |-> work'[k]] /\ \A k \in ItemIds : Row(work'[k])
               /\ \A k \in ItemIds : work'[k].status = "completed" =>
                     work[k].status = "completed" \/ k \in worker[w].ok
    BY <1>1, <1>4 DEF MarkCompleted, SetStatus
  <1>5. ASSUME NEW w \in Workers, MarkFailed(w)
        PROVE  /\ work' = [k \in ItemIds |-> work'[k]] /\ \A k \in ItemIds : Row(work'[k])
               /\ \A k \in ItemIds : work'[k].status = "completed" => work[k].status = "completed"
    BY <1>1, <1>5 DEF MarkFailed, SetStatus
  <1>6. ASSUME NEW j \in ItemIds, Lapse(j)
        PROVE  /\ work' = [k \in ItemIds |-> work'[k]] /\ \A k \in ItemIds : Row(work'[k])
               /\ \A k \in ItemIds : work'[k].status = "completed" => work[k].status = "completed"
    <2>1. work' = [work EXCEPT ![j].lapsed = TRUE]
      BY <1>6 DEF Lapse
    <2>2. Changed(ItemIds, work, work', j, [status |-> work[j].status, lapsed |-> TRUE])
      BY <1>1, <2>1, ChangeLapsed
    <2> QED
      BY <1>1, <2>2 DEF Changed
  <1> QED
    BY <1>2, <1>3, <1>4, <1>5, <1>6
       DEF Next, vars, StartBundle, PutBundle, AnnounceBundle, AbortBundle, Govern, WorkerStep,
           PassGate, PutItem, AnnounceItem, FailItem, Crash

\* Every step preserves the invariant.
LEMMA StepInv == IInv /\ [Next]_vars => IInv'
  <1> SUFFICES ASSUME IInv, [Next]_vars PROVE IInv'
    OBVIOUS
  <1>1. outbox \subseteq outbox'
    BY OutboxGrows
  <1>2. /\ worker' = [v \in Workers |-> worker'[v]]
        /\ \A v \in Workers : IsRec(worker'[v])
        /\ \A v \in Workers : \A k \in worker'[v].ok : ItemBody(k) \in outbox'
    <2>1. CASE worker' = worker
      BY <1>1, <2>1 DEF IInv, Shape, OkIsAnnounced
    <2> QED
      BY <2>1, WorkerRecords
         DEF Next, vars, StartBundle, PutBundle, AnnounceBundle, AbortBundle, Govern, Lapse
  <1>3. CompletedIsAnnounced'
    <2>1. ASSUME NEW k \in ItemIds, work'[k].status = "completed" PROVE ItemBody(k) \in outbox'
      BY <1>1, <2>1, WorkRows DEF IInv, OkIsAnnounced, CompletedIsAnnounced
    <2> QED
      BY <2>1 DEF CompletedIsAnnounced, ItemBody, ItemIds
  <1>4. Shape'
    BY <1>2, WorkRows DEF Shape, ItemIds, IsRec, Rec
  <1>5. OkIsAnnounced'
    BY <1>2 DEF OkIsAnnounced, ItemBody
  <1> QED
    BY <1>3, <1>4, <1>5 DEF IInv

\* A work item marked completed is announced, for any number of workers that
\* process it, claims that lapse and writes that fail.
THEOREM CompletedAlwaysAnnounced == Spec => []CompletedIsAnnounced
  <1>1. IInv => CompletedIsAnnounced
    BY DEF IInv
  <1> QED
    BY InitInv, StepInv, <1>1, PTL DEF Spec

-----------------------------------------------------------------------------
(* Artifacts without an event *)

\* What a publisher between its two writes is about to announce.
BundleBody(i) == Plan(i, bundle[i].run)[bundle[i].step]
WorkerBody(w) == ItemBody(Current(w))

BundlesInFlight == {i \in Issuers : bundle[i].put}
WorkersInFlight == {w \in Workers : worker[w].pc = "announce"}

Pending ==
    {BundleBody(i) : i \in BundlesInFlight} \union {WorkerBody(w) : w \in WorkersInFlight}

\* Stored, not announced, and nobody is going to announce it.
Lost == (store \ outbox) \ Pending

\* What a bundle's record is made of.
BundleRec(s, p, n) == [step |-> s, put |-> p, run |-> n]

\* A bundle has stored only an artifact it has reached.
BundleShape ==
    /\ bundle = [i \in Issuers |-> bundle[i]]
    /\ \A i \in Issuers :
          /\ bundle[i] = BundleRec(bundle[i].step, bundle[i].put, bundle[i].run)
          /\ bundle[i].step \in Nat
          /\ bundle[i].put => bundle[i].step > 0

LossInv ==
    /\ Shape /\ BundleShape
    /\ faults \in Nat
    /\ IsFiniteSet(store) /\ IsFiniteSet(InFlight)
    /\ Cardinality(Lost) <= faults

\* What is lost stays within the count of the faults.
LEMMA LossCount ==
    ASSUME NEW S, IsFiniteSet(S), NEW n \in Nat, Cardinality(S) <= n, NEW T, NEW b
    PROVE  /\ T \subseteq S => IsFiniteSet(T) /\ Cardinality(T) <= n
           /\ T \subseteq S \union {b} => IsFiniteSet(T) /\ Cardinality(T) <= n + 1
<1>1. Cardinality(S) \in Nat
  BY FS_CardinalityType
<1>2. ASSUME T \subseteq S PROVE IsFiniteSet(T) /\ Cardinality(T) <= n
  <2>1. IsFiniteSet(T) /\ Cardinality(T) <= Cardinality(S) /\ Cardinality(T) \in Nat
    BY <1>2, FS_Subset, FS_CardinalityType
  <2> QED
    BY <1>1, <2>1
<1>3. ASSUME T \subseteq S \union {b} PROVE IsFiniteSet(T) /\ Cardinality(T) <= n + 1
  <2>1. /\ IsFiniteSet(S \union {b}) /\ Cardinality(S \union {b}) \in Nat
        /\ Cardinality(S \union {b}) <= Cardinality(S) + 1
    BY <1>1, FS_AddElement, FS_CardinalityType
  <2>2. IsFiniteSet(T) /\ Cardinality(T) <= Cardinality(S \union {b}) /\ Cardinality(T) \in Nat
    BY <1>3, <2>1, FS_Subset, FS_CardinalityType
  <2> QED
    BY <1>1, <2>1, <2>2
<1> QED
  BY <1>2, <1>3

\* A bundle changes by one step of its publication.
LEMMA ChangeBundle ==
    ASSUME NEW W, NEW f, f = [v \in W |-> f[v]], NEW w \in W, NEW x, NEW y, NEW z,
           f[w] = BundleRec(f[w].step, f[w].put, f[w].run)
    PROVE  /\ Changed(W, f, [f EXCEPT ![w].step = x, ![w].run = z], w, BundleRec(x, f[w].put, z))
           /\ Changed(W, f, [f EXCEPT ![w].put = y], w, BundleRec(f[w].step, y, f[w].run))
           /\ Changed(W, f, [f EXCEPT ![w].step = x, ![w].put = y], w, BundleRec(x, y, f[w].run))
  BY DEF Changed, BundleRec

\* The parts of a bundle's record.
LEMMA BundleParts ==
    ASSUME NEW s, NEW p, NEW n
    PROVE  BundleRec(s, p, n).step = s /\ BundleRec(s, p, n).put = p /\ BundleRec(s, p, n).run = n
  BY DEF BundleRec

\* A step of a publication moves its own bundle only; the store of an artifact
\* puts it into flight, every other step ends its flight.
LEMMA BundleMoves ==
    ASSUME BundleShape, NEW i \in Issuers,
           StartBundle(i) \/ PutBundle(i) \/ AnnounceBundle(i) \/ AbortBundle(i)
    PROVE  /\ BundleShape'
           /\ \A j \in Issuers : j # i => bundle'[j] = bundle[j]
           /\ IF PutBundle(i)
                THEN bundle'[i].put /\ bundle'[i].run = bundle[i].run /\ bundle'[i].step = bundle[i].step
                ELSE ~bundle'[i].put
<1> DEFINE b == bundle[i]
<1>1. bundle = [v \in Issuers |-> bundle[v]] /\ b = BundleRec(b.step, b.put, b.run)
  BY DEF BundleShape
<1>2. b.step \in Nat /\ (b.put => b.step > 0)
  BY DEF BundleShape
<1>3. ASSUME NEW s \in Nat, NEW p, NEW n, p => s > 0,
             Changed(Issuers, bundle, bundle', i, BundleRec(s, p, n))
      PROVE  /\ BundleShape' /\ \A j \in Issuers : j # i => bundle'[j] = bundle[j]
             /\ bundle'[i].step = s /\ bundle'[i].put = p /\ bundle'[i].run = n
  <2>1. /\ BundleRec(s, p, n).step = s /\ BundleRec(s, p, n).put = p /\ BundleRec(s, p, n).run = n
    BY BundleParts
  <2>2. /\ bundle' = [v \in Issuers |-> bundle'[v]] /\ bundle'[i] = BundleRec(s, p, n)
        /\ \A j \in Issuers : j # i => bundle'[j] = bundle[j]
    BY <1>3 DEF Changed
  <2>3. BundleShape'
    <3> SUFFICES ASSUME NEW j \in Issuers
                 PROVE  /\ bundle'[j] = BundleRec(bundle'[j].step, bundle'[j].put, bundle'[j].run)
                        /\ bundle'[j].step \in Nat
                        /\ bundle'[j].put => bundle'[j].step > 0
      BY <2>2 DEF BundleShape, BundleRec
    <3>1. CASE j = i
      BY <1>3, <2>1, <2>2, <3>1
    <3>2. CASE j # i
      BY <2>2, <3>2 DEF BundleShape
    <3> QED
      BY <3>1, <3>2
  <2> QED
    BY <2>1, <2>2, <2>3
<1>4. CASE StartBundle(i)
  <2>1. b.step = 0 /\ bundle' = [bundle EXCEPT ![i].step = 1, ![i].run = b.run + 1]
    BY <1>4 DEF StartBundle
  <2>2. Changed(Issuers, bundle, bundle', i, BundleRec(1, b.put, b.run + 1))
    BY <1>1, <2>1, ChangeBundle
  <2>3. ~b.put
    BY <1>2, <2>1
  <2>4. ~PutBundle(i)
    BY <2>1 DEF PutBundle
  <2> QED
    BY <1>3, <2>2, <2>3, <2>4
<1>5. CASE PutBundle(i)
  <2>1. b.step > 0 /\ bundle' = [bundle EXCEPT ![i].put = TRUE]
    BY <1>5 DEF PutBundle
  <2>2. Changed(Issuers, bundle, bundle', i, BundleRec(b.step, TRUE, b.run))
    BY <1>1, <2>1, ChangeBundle
  <2> QED
    BY <1>2, <1>3, <1>5, <2>1, <2>2
<1>6. CASE (AnnounceBundle(i) \/ AbortBundle(i)) /\ ~PutBundle(i)
  <2>1. PICK s \in {0, b.step + 1} : bundle' = [bundle EXCEPT ![i].step = s, ![i].put = FALSE]
    BY <1>6 DEF AnnounceBundle, AbortBundle
  <2>2. s \in Nat
    BY <1>2, <2>1
  <2>3. Changed(Issuers, bundle, bundle', i, BundleRec(s, FALSE, b.run))
    BY <1>1, <2>1, ChangeBundle
  <2> QED
    BY <1>3, <1>6, <2>2, <2>3
<1> QED
  BY <1>4, <1>5, <1>6

\* A step of a worker moves its own record only; the store of an artifact puts
\* it into flight, every other step ends its flight.
LEMMA WorkerMoves ==
    ASSUME Shape, NEW w \in Workers, WorkerStep(w) \/ FailItem(w) \/ Crash(w)
    PROVE  /\ \A v \in Workers : v # w => worker'[v] = worker[v]
           /\ IF PutItem(w)
                THEN worker'[w].pc = "announce" /\ worker'[w].batch = worker[w].batch
                ELSE worker'[w].pc # "announce"
<1> DEFINE q == worker[w]
           Others == \A v \in Workers : v # w => worker'[v] = worker[v]
<1>1. worker = [v \in Workers |-> worker[v]] /\ IsRec(q)
  BY DEF Shape
<1>2. ASSUME NEW p, NEW b, NEW o, NEW d, Changed(Workers, worker, worker', w, Rec(p, b, o, d))
      PROVE  Others /\ worker'[w].pc = p /\ worker'[w].batch = b
  <2>1. Rec(p, b, o, d).pc = p /\ Rec(p, b, o, d).batch = b
    BY RecParts
  <2> QED
    BY <1>2, <2>1 DEF Changed
<1>3. CASE PutItem(w)
  <2>1. Changed(Workers, worker, worker', w, Rec("announce", q.batch, q.ok, q.bad))
    BY <1>1, <1>3, ChangePc DEF PutItem
  <2> QED
    BY <1>2, <1>3, <2>1
<1>4. CASE ~PutItem(w)
  <2> SUFFICES Others /\ worker'[w].pc # "announce"
    BY <1>4
  <2>1. CASE Claim(w)
    <3>1. CASE worker' = worker
      BY <2>1, <3>1 DEF Claim
    <3>2. CASE worker' # worker
      <4> DEFINE b == SelectSeq([k \in ItemIds |-> k], LAMBDA k : k \in NextRows)
      <4>1. worker' = [worker EXCEPT ![w] = [Idle EXCEPT !.pc = "next", !.batch = b]]
        BY <2>1, <3>2 DEF Claim
      <4> HIDE DEF b
      <4>2. [Idle EXCEPT !.pc = "next", !.batch = b] = Rec("next", b, {}, {})
        BY Started
      <4>3. Changed(Workers, worker, worker', w, Rec("next", b, {}, {}))
        BY <1>1, <4>1, <4>2, ChangeAll
      <4> QED
        BY <1>2, <4>3
    <3> QED
      BY <3>1, <3>2
  <2>2. CASE PassGate(w)
    <3>1. q.pc = "next"
      BY <2>2 DEF PassGate
    <3>2. \/ Changed(Workers, worker, worker', w, Rec("put", q.batch, q.ok, q.bad))
          \/ Changed(Workers, worker, worker', w,
                     Rec(q.pc, Tail(q.batch), q.ok, q.bad \union {Current(w)}))
      BY <1>1, <2>2, ChangePc, ChangeRefused DEF PassGate
    <3> QED
      BY <1>2, <3>1, <3>2
  <2>3. CASE AnnounceItem(w)
    <3>1. Changed(Workers, worker, worker', w,
                  Rec("next", Tail(q.batch), q.ok \union {Current(w)}, q.bad))
      BY <1>1, <2>3, ChangeDone DEF AnnounceItem
    <3> QED
      BY <1>2, <3>1
  <2>4. CASE FailItem(w)
    <3>1. Changed(Workers, worker, worker', w,
                  Rec("next", Tail(q.batch), q.ok, q.bad \union {Current(w)}))
      BY <1>1, <2>4, ChangeFailed DEF FailItem
    <3> QED
      BY <1>2, <3>1
  <2>5. CASE MarkCompleted(w)
    <3>1. Changed(Workers, worker, worker', w, Rec("mark", q.batch, q.ok, q.bad))
      BY <1>1, <2>5, ChangePc DEF MarkCompleted
    <3> QED
      BY <1>2, <3>1
  <2>6. CASE MarkFailed(w) \/ Crash(w)
    <3>1. Idle = Rec("idle", <<>>, {}, {})
      BY DEF Idle, Rec
    <3>2. Changed(Workers, worker, worker', w, Rec("idle", <<>>, {}, {}))
      BY <1>1, <2>6, <3>1, ChangeAll DEF MarkFailed, Crash
    <3> QED
      BY <1>2, <3>2
  <2> QED
    BY <1>4, <2>1, <2>2, <2>3, <2>4, <2>5, <2>6 DEF WorkerStep
<1> QED
  BY <1>3, <1>4

\* What a step of a bundle leaves pending.
LEMMA BundlePending ==
    ASSUME LossInv, NEW i \in Issuers, worker' = worker,
           StartBundle(i) \/ PutBundle(i) \/ AnnounceBundle(i) \/ AbortBundle(i)
    PROVE  /\ IF PutBundle(i) THEN Pending \union {BundleBody(i)} \subseteq Pending'
                               ELSE Pending \ {BundleBody(i)} \subseteq Pending'
           /\ ~bundle[i].put => Pending \subseteq Pending'
           /\ InFlight' \subseteq InFlight \union {i}
<1>1. BundleShape
  BY DEF LossInv
<1>2. \A j \in Issuers : j # i /\ bundle[j].put => bundle'[j].put /\ BundleBody(j)' = BundleBody(j)
  BY <1>1, BundleMoves DEF BundleBody, Plan, RootManifestBody, DelegatedAuthorityManifestBody,
       IssuerRecordBody, DestinationPolicyBody
<1>3. PutBundle(i) => ~bundle[i].put /\ bundle'[i].put /\ BundleBody(i)' = BundleBody(i)
  BY <1>1, BundleMoves DEF PutBundle, BundleBody, Plan, RootManifestBody,
       DelegatedAuthorityManifestBody, IssuerRecordBody, DestinationPolicyBody
<1>4. {WorkerBody(w) : w \in WorkersInFlight}' = {WorkerBody(w) : w \in WorkersInFlight}
  BY DEF WorkerBody, WorkersInFlight, ItemBody, Current
<1>5. ASSUME NEW b \in {BundleBody(j) : j \in BundlesInFlight}, b # BundleBody(i) \/ ~bundle[i].put
      PROVE  b \in {BundleBody(j) : j \in BundlesInFlight}'
  BY <1>2, <1>5 DEF BundlesInFlight
<1>6. PutBundle(i) => BundleBody(i) \in {BundleBody(j) : j \in BundlesInFlight}'
  BY <1>3 DEF BundlesInFlight
<1>7. InFlight' \subseteq InFlight \union {i}
  BY <1>1, BundleMoves DEF InFlight
<1> QED
  BY <1>3, <1>4, <1>5, <1>6, <1>7 DEF Pending

\* What a step of a worker leaves pending.
LEMMA WorkerPending ==
    ASSUME LossInv, NEW w \in Workers, bundle' = bundle,
           WorkerStep(w) \/ FailItem(w) \/ Crash(w)
    PROVE  /\ IF PutItem(w) THEN Pending \union {WorkerBody(w)} \subseteq Pending'
                             ELSE Pending \ {WorkerBody(w)} \subseteq Pending'
           /\ worker[w].pc # "announce" => Pending \subseteq Pending'
           /\ InFlight' \subseteq InFlight \union {w}
<1>1. Shape
  BY DEF LossInv
<1>2. \A v \in Workers : v # w /\ worker[v].pc = "announce" =>
         worker'[v].pc = "announce" /\ WorkerBody(v)' = WorkerBody(v)
  BY <1>1, WorkerMoves DEF WorkerBody, ItemBody, Current
<1>3. PutItem(w) => worker[w].pc # "announce" /\ worker'[w].pc = "announce" /\ WorkerBody(w)' = WorkerBody(w)
  BY <1>1, WorkerMoves DEF PutItem, WorkerBody, ItemBody, Current
<1>4. {BundleBody(i) : i \in BundlesInFlight}' = {BundleBody(i) : i \in BundlesInFlight}
  BY DEF BundleBody, BundlesInFlight, Plan, RootManifestBody, DelegatedAuthorityManifestBody,
       IssuerRecordBody, DestinationPolicyBody
<1>5. ASSUME NEW b \in {WorkerBody(v) : v \in WorkersInFlight},
             b # WorkerBody(w) \/ worker[w].pc # "announce"
      PROVE  b \in {WorkerBody(v) : v \in WorkersInFlight}'
  BY <1>2, <1>5 DEF WorkersInFlight
<1>6. PutItem(w) => WorkerBody(w) \in {WorkerBody(v) : v \in WorkersInFlight}'
  BY <1>3 DEF WorkersInFlight
<1>7. InFlight' \subseteq InFlight \union {w}
  BY <1>1, WorkerMoves DEF InFlight
<1> QED
  BY <1>3, <1>4, <1>5, <1>6, <1>7 DEF Pending

\* At most as many artifacts are lost as there were faults: a publication that
\* goes well takes its artifact from pending to announced.
LEMMA LossStep == Shape' /\ LossInv /\ [Next]_vars => LossInv'
<1> SUFFICES ASSUME Shape', LossInv, [Next]_vars PROVE LossInv'
  OBVIOUS
<1>1. /\ BundleShape /\ faults \in Nat /\ IsFiniteSet(store) /\ IsFiniteSet(InFlight)
      /\ Cardinality(Lost) <= faults /\ IsFiniteSet(Lost)
  BY FS_Subset DEF LossInv, Lost
<1>2. ASSUME BundleShape', Lost' \subseteq Lost, faults' = faults,
             NEW b, store' \subseteq store \union {b},
             NEW x, InFlight' \subseteq InFlight \union {x}
      PROVE  LossInv'
  <2>1. IsFiniteSet(store') /\ IsFiniteSet(InFlight')
    BY <1>1, <1>2, FS_AddElement, FS_Subset
  <2>2. Cardinality(Lost') <= faults'
    BY <1>1, <1>2, LossCount
  <2> QED
    BY <1>1, <1>2, <2>1, <2>2 DEF LossInv
<1>3. ASSUME BundleShape', faults' = faults + 1, store' = store,
             NEW b, Lost' \subseteq Lost \union {b},
             NEW x, InFlight' \subseteq InFlight \union {x}
      PROVE  LossInv'
  <2>1. IsFiniteSet(store') /\ IsFiniteSet(InFlight')
    BY <1>1, <1>3, FS_AddElement, FS_Subset
  <2>2. Cardinality(Lost') <= faults'
    BY <1>1, <1>3, LossCount
  <2> QED
    BY <1>1, <1>3, <2>1, <2>2 DEF LossInv
<1>4. ASSUME NEW i \in Issuers, StartBundle(i) \/ PutBundle(i) \/ AnnounceBundle(i) \/ AbortBundle(i)
      PROVE  LossInv'
  <2>1. worker' = worker
    BY <1>4 DEF StartBundle, PutBundle, AnnounceBundle, AbortBundle
  <2>2. BundleShape' /\ InFlight' \subseteq InFlight \union {i}
    BY <1>1, <1>4, <2>1, BundleMoves, BundlePending
  <2>3. CASE StartBundle(i) /\ ~PutBundle(i)
    <3>1. ~bundle[i].put
      BY <1>1, <2>3 DEF StartBundle, BundleShape
    <3>2. Pending \subseteq Pending'
      BY <1>4, <2>1, <3>1, BundlePending
    <3>3. store' = store /\ outbox' = outbox /\ faults' = faults
      BY <2>3 DEF StartBundle
    <3> QED
      BY <1>2, <2>2, <3>2, <3>3 DEF Lost
  <2>4. CASE PutBundle(i)
    <3>1. Pending \union {BundleBody(i)} \subseteq Pending'
      BY <1>4, <2>1, <2>4, BundlePending
    <3>2. store' \subseteq store \union {BundleBody(i)} /\ outbox' = outbox /\ faults' = faults
      BY <2>4 DEF PutBundle, Put, BundleBody
    <3> QED
      BY <1>2, <2>2, <3>1, <3>2 DEF Lost
  <2>5. CASE AnnounceBundle(i) /\ ~PutBundle(i)
    <3>1. Pending \ {BundleBody(i)} \subseteq Pending'
      BY <1>4, <2>1, <2>5, BundlePending
    <3>2. store' = store /\ outbox' = outbox \union {BundleBody(i)} /\ faults' = faults
      BY <2>5 DEF AnnounceBundle, Announce, BundleBody
    <3> QED
      BY <1>2, <2>2, <3>1, <3>2 DEF Lost
  <2>6. CASE AbortBundle(i) /\ ~PutBundle(i)
    <3>1. Pending \ {BundleBody(i)} \subseteq Pending'
      BY <1>4, <2>1, <2>6, BundlePending
    <3>2. store' = store /\ outbox' = outbox /\ faults' = faults + 1
      BY <2>6 DEF AbortBundle
    <3> QED
      BY <1>3, <2>2, <3>1, <3>2 DEF Lost
  <2> QED
    BY <1>4, <2>3, <2>4, <2>5, <2>6
<1>5. ASSUME NEW w \in Workers, WorkerStep(w) \/ FailItem(w) \/ Crash(w)
      PROVE  LossInv'
  <2>1. bundle' = bundle
    BY <1>5 DEF WorkerStep, Claim, PassGate, PutItem, AnnounceItem, MarkCompleted, MarkFailed,
         FailItem, Crash
  <2>2. BundleShape' /\ InFlight' \subseteq InFlight \union {w}
    BY <1>1, <1>5, <2>1, WorkerPending DEF BundleShape, BundleRec
  <2>3. CASE Claim(w) \/ PassGate(w) \/ MarkCompleted(w) \/ MarkFailed(w)
    <3>1. worker[w].pc # "announce" /\ store' = store /\ outbox' = outbox /\ faults' = faults
      BY <2>3 DEF Claim, PassGate, MarkCompleted, MarkFailed
    <3>2. Pending \subseteq Pending'
      BY <1>5, <2>1, <3>1, WorkerPending
    <3> QED
      BY <1>2, <2>2, <3>1, <3>2 DEF Lost
  <2>4. CASE PutItem(w)
    <3>1. Pending \union {WorkerBody(w)} \subseteq Pending'
      BY <1>5, <2>1, <2>4, WorkerPending
    <3>2. store' \subseteq store \union {WorkerBody(w)} /\ outbox' = outbox /\ faults' = faults
      BY <2>4 DEF PutItem, Put, WorkerBody
    <3> QED
      BY <1>2, <2>2, <3>1, <3>2 DEF Lost
  <2>5. CASE AnnounceItem(w) /\ ~PutItem(w)
    <3>1. Pending \ {WorkerBody(w)} \subseteq Pending'
      BY <1>5, <2>1, <2>5, WorkerPending
    <3>2. store' = store /\ outbox' = outbox \union {WorkerBody(w)} /\ faults' = faults
      BY <2>5 DEF AnnounceItem, Announce, WorkerBody
    <3> QED
      BY <1>2, <2>2, <3>1, <3>2 DEF Lost
  <2>6. CASE (FailItem(w) \/ Crash(w)) /\ ~PutItem(w)
    <3>1. Pending \ {WorkerBody(w)} \subseteq Pending'
      BY <1>5, <2>1, <2>6, WorkerPending
    <3>2. store' = store /\ outbox' = outbox /\ faults' = faults + 1
      BY <2>6 DEF FailItem, Crash
    <3> QED
      BY <1>3, <2>2, <3>1, <3>2 DEF Lost
  <2> QED
    BY <1>5, <2>3, <2>4, <2>5, <2>6 DEF WorkerStep
<1>6. ASSUME UNCHANGED <<store, outbox, worker, bundle, faults>> PROVE LossInv'
  <2>1. Lost' = Lost /\ InFlight' = InFlight
    BY <1>6 DEF Lost, Pending, InFlight, BundlesInFlight, WorkersInFlight, BundleBody, WorkerBody,
         Plan, RootManifestBody, DelegatedAuthorityManifestBody, IssuerRecordBody,
         DestinationPolicyBody, ItemBody, Current
  <2>2. BundleShape'
    BY <1>1, <1>6 DEF BundleShape, BundleRec
  <2> QED
    BY <1>1, <1>6, <2>1, <2>2 DEF LossInv
<1> QED
  BY <1>4, <1>5, <1>6 DEF Next, vars, Govern, Lapse

\* What is pending is no more than the publishers in flight.
LEMMA PendingCount ==
    ASSUME IsFiniteSet(InFlight)
    PROVE  IsFiniteSet(Pending) /\ Cardinality(Pending) <= Cardinality(InFlight)
<1> DEFINE f == [x \in InFlight |-> IF x \in Issuers THEN BundleBody(x) ELSE WorkerBody(x)]
<1>1. InFlight = BundlesInFlight \union WorkersInFlight
  BY DEF InFlight, BundlesInFlight, WorkersInFlight
<1>2. BundlesInFlight \subseteq Issuers /\ WorkersInFlight \intersect Issuers = {}
  BY IssuersAssumption DEF BundlesInFlight, WorkersInFlight
<1>3. \A x \in InFlight : f[x] \in Pending
  BY <1>1, <1>2 DEF Pending
<1>4. \A b \in Pending : \E x \in InFlight : f[x] = b
  BY <1>1, <1>2 DEF Pending
<1>5. f \in Surjection(InFlight, Pending)
  BY <1>3, <1>4 DEF Surjection
<1> QED
  BY <1>5, FS_Surjection

\* Everything starts empty.
LEMMA LossInit == Init => LossInv
<1> SUFFICES ASSUME Init PROVE LossInv
  OBVIOUS
<1>1. Shape
  BY InitInv DEF IInv
<1>2. bundle = [i \in Issuers |-> BundleRec(0, FALSE, 0)]
  BY DEF Init, NoBundle, BundleRec
<1>3. BundleShape /\ \A i \in Issuers : ~bundle[i].put
  <2> DEFINE r == BundleRec(0, FALSE, 0)
  <2>1. r = BundleRec(r.step, r.put, r.run) /\ r.step = 0 /\ ~r.put
    BY DEF BundleRec
  <2> HIDE DEF r
  <2>2. bundle = [i \in Issuers |-> r]
    BY <1>2 DEF r
  <2>3. bundle = [i \in Issuers |-> bundle[i]] /\ \A i \in Issuers : bundle[i] = r
    BY <2>2
  <2> QED
    BY <2>1, <2>3 DEF BundleShape
<1>4. InFlight = {}
  <2>1. \A w \in Workers : worker[w].pc = "idle"
    BY DEF Init, Idle
  <2> QED
    BY <1>3, <2>1 DEF InFlight
<1>5. store = {} /\ Lost = {} /\ faults = 0
  BY DEF Init, Lost
<1> QED
  BY <1>1, <1>3, <1>4, <1>5, FS_EmptySet DEF LossInv

\* The store holds at most one artifact without an event for each publisher
\* between its two writes and for each failure, however many publishers share
\* artifacts, overwrite each other or work on claims that lapsed.
THEOREM LossesAlwaysFaults == Spec => []LossesAreFaults
<1>1. LossInv => LossesAreFaults
  <2> SUFFICES ASSUME LossInv PROVE Cardinality(store \ outbox) <= Cardinality(InFlight) + faults
    BY DEF LossesAreFaults
  <2>1. IsFiniteSet(store) /\ IsFiniteSet(InFlight) /\ faults \in Nat /\ Cardinality(Lost) <= faults
    BY DEF LossInv
  <2>2. IsFiniteSet(Pending) /\ Cardinality(Pending) <= Cardinality(InFlight)
    BY <2>1, PendingCount
  <2>3. IsFiniteSet(Lost)
    BY <2>1, FS_Subset DEF Lost
  <2>4. IsFiniteSet(Lost \union Pending)
        /\ Cardinality(Lost \union Pending)
              = Cardinality(Lost) + Cardinality(Pending) - Cardinality(Lost \intersect Pending)
    BY <2>2, <2>3, FS_Union
  <2>5. Cardinality(store \ outbox) <= Cardinality(Lost \union Pending)
    BY <2>4, FS_Subset DEF Lost
  <2>6. Lost \intersect Pending = {}
    BY DEF Lost
  <2>7. /\ Cardinality(Lost) \in Nat /\ Cardinality(Pending) \in Nat /\ Cardinality(InFlight) \in Nat
        /\ Cardinality(Lost \intersect Pending) = 0 /\ IsFiniteSet(store \ outbox)
    BY <2>1, <2>2, <2>3, <2>6, FS_CardinalityType, FS_EmptySet, FS_Subset
  <2>8. Cardinality(store \ outbox) \in Nat
    BY <2>7, FS_CardinalityType
  <2> QED
    BY <2>1, <2>2, <2>4, <2>5, <2>7, <2>8
<1>2. IInv /\ LossInv /\ [Next]_vars => IInv' /\ LossInv'
  BY StepInv, LossStep DEF IInv
<1> QED
  BY InitInv, LossInit, <1>1, <1>2, PTL DEF Spec

-----------------------------------------------------------------------------
(* The gate *)

\* Proofs keep their domains and no issuer is added: governance only withdraws.
ProofsTyped == active \subseteq Issuers /\ proofs \in [Issuers -> SUBSET ProofRecord]

\* The gate lets a host pass on a verified proof of the host itself, when there
\* is any proof of it: no other covering proof is as specific.
LEMMA OwnProofDecides ==
    ASSUME NEW S \in SUBSET ProofRecord, NEW rules, NEW h, NEW t,
           EvaluateHostPublication(rules, S, h, t),
           NEW own \in S, own.domain = h
    PROVE  \E p \in S : p.domain = h /\ p.status = "verified"
<1>1. PICK rule \in MatchingDestinationRule(rules, h) :
         \E p \in MostSpecificDomainProof(S, rule, h) : EffectiveDomainControlStatus(p, t) = "verified"
  BY DEF EvaluateHostPublication
<1>2. PICK p \in MostSpecificDomainProof(S, rule, h) : EffectiveDomainControlStatus(p, t) = "verified"
  BY <1>1
<1>3. p \in S /\ ProofCoversDestination(rule, p.domain, h)
  BY <1>2 DEF MostSpecificDomainProof, CoveringProofs
<1>4. p.status = "verified"
  BY <1>2 DEF EffectiveDomainControlStatus
<1>5. own \in CoveringProofs(S, rule, h)
  BY DEF CoveringProofs, ProofCoversDestination
<1>6. Len(p.domain) \in Nat /\ Len(h) \in Nat
  BY <1>3 DEF ProofRecord
<1>7. Len(p.domain) >= Len(h)
  <2>1. Len(p.domain) > Len(own.domain) \/ Len(p.domain) = Len(own.domain)
    BY <1>2, <1>5, Zenon DEF MostSpecificDomainProof
  <2> QED
    BY <1>6, <2>1
<1>8. p.domain = h
  <2>1. h = p.domain \/ Len(h) > Len(p.domain)
    BY <1>3, Zenon DEF ProofCoversDestination, EndsWithDomain
  <2> QED
    BY <1>6, <1>7, <2>1
<1> QED
  BY <1>3, <1>4, <1>8

\* No step changes the domain of a proof.
LEMMA ProofsKept == ProofsTyped /\ [Next]_vars => ProofsTyped'
<1> SUFFICES ASSUME ProofsTyped, [Next]_vars PROVE ProofsTyped'
  OBVIOUS
<1>1. ASSUME NEW i \in Issuers, Govern(i) PROVE ProofsTyped'
  <2>0. active' \subseteq active
    BY <1>1 DEF Govern
  <2>1. CASE proofs' = proofs
    BY <2>0, <2>1 DEF ProofsTyped
  <2>2. ASSUME NEW p \in proofs[i],
               proofs' = [proofs EXCEPT ![i] = (@ \ {p}) \union {[p EXCEPT !.status = "revoked"]}]
        PROVE  ProofsTyped'
    <3>1. p \in ProofRecord /\ proofs[i] \subseteq ProofRecord
      BY DEF ProofsTyped
    <3>2. [p EXCEPT !.status = "revoked"] \in ProofRecord
      BY <3>1 DEF ProofRecord, ProofStatuses
    <3> HIDE DEF ProofRecord
    <3> QED
      BY <2>0, <2>2, <3>1, <3>2 DEF ProofsTyped
  <2> QED
    BY <1>1, <2>1, <2>2 DEF Govern
<1>2. CASE proofs' = proofs /\ active' = active
  BY <1>2 DEF ProofsTyped
<1> QED
  BY <1>1, <1>2 DEF Next, vars, envVars, StartBundle, PutBundle, AnnounceBundle, AbortBundle,
       WorkerStep, Claim, PassGate, PutItem, AnnounceItem, MarkCompleted, MarkFailed, FailItem,
       Crash, Lapse

\* A worker goes from an item to its store only through the gate.
LEMMA OnlyThroughGate ==
    ASSUME Shape, [Next]_vars, NEW w \in Workers, worker[w].pc = "next", worker'[w].pc = "put"
    PROVE  Publishable(Current(w))
<1>1. worker = [v \in Workers |-> worker[v]] /\ \A v \in Workers : IsRec(worker[v])
  BY DEF Shape
<1>2. worker' # worker
  OBVIOUS
<1>3. PICK v \in Workers : WorkerStep(v) \/ FailItem(v) \/ Crash(v)
  BY <1>2 DEF Next, vars, StartBundle, PutBundle, AnnounceBundle, AbortBundle, Govern, Lapse
<1>4. v = w
  BY <1>3, WorkerMoves
<1>5. CASE PassGate(w)
  <2>1. ASSUME ~Publishable(Current(w)) PROVE FALSE
    <3>1. worker' = [worker EXCEPT ![w].batch = Tail(@), ![w].bad = @ \union {Current(w)}]
      BY <1>5, <2>1 DEF PassGate
    <3>2. Changed(Workers, worker, worker', w,
                  Rec("next", Tail(worker[w].batch), worker[w].ok, worker[w].bad \union {Current(w)}))
      BY <1>1, <3>1, ChangeRefused
    <3> QED
      BY <3>2, RecParts DEF Changed
  <2> QED
    BY <2>1
<1>6. CASE MarkCompleted(w)
  <2>1. Changed(Workers, worker, worker', w,
                Rec("mark", worker[w].batch, worker[w].ok, worker[w].bad))
    BY <1>1, <1>6, ChangePc DEF MarkCompleted
  <2> QED
    BY <2>1, RecParts DEF Changed
<1>7. CASE Crash(w)
  <2>1. worker'[w].pc = "idle"
    BY <1>1, <1>7, ChangeAll DEF Crash, Changed, Idle
  <2> QED
    BY <2>1
<1> QED
  BY <1>3, <1>4, <1>5, <1>6, <1>7 DEF WorkerStep, Claim, PutItem, AnnounceItem, MarkFailed, FailItem

\* No policy passes the gate on the proof of a parent domain when the host's own
\* proofs are revoked, expired, failed or pending: for all rules, proofs and
\* hosts, whatever governance revokes in between.
THEOREM GateAlwaysRespectsRevocation == Spec => GateRespectsRevocation
<1> DEFINE Passed(w) ==
        \A n \in DOMAIN Items[Current(w)].rules :
            \A h \in DestinationHostCandidates(Items[Current(w)].rules[n]) :
                LET own == {p \in proofs[Items[Current(w)].issuer] : p.domain = h}
                IN  own # {} => \E p \in own : p.status = "verified"
           Step == \A w \in Workers :
                worker[w].pc = "next" /\ worker'[w].pc = "put" /\ Items[Current(w)].kind = "policy"
                    => Passed(w)
<1>1. ASSUME IInv, ProofsTyped, [Next]_vars PROVE Step
  <2> SUFFICES ASSUME NEW w \in Workers, worker[w].pc = "next", worker'[w].pc = "put",
                      Items[Current(w)].kind = "policy",
                      NEW n \in DOMAIN Items[Current(w)].rules,
                      NEW h \in DestinationHostCandidates(Items[Current(w)].rules[n]),
                      NEW own \in proofs[Items[Current(w)].issuer], own.domain = h
               PROVE  \E p \in proofs[Items[Current(w)].issuer] : p.domain = h /\ p.status = "verified"
    OBVIOUS
  <2> DEFINE k == Current(w)
  <2>1. GatePublishable(k)
    BY <1>1, OnlyThroughGate DEF IInv, Publishable
  <2>2. EvaluateRulePublication(Items[k].rules, proofs[Items[k].issuer], Items[k].rules[n],
                                Items[k].occurred)
    BY <2>1 DEF GatePublishable, EvaluatePublicationGate, PolicyProjection
  <2>3. EvaluateHostPublication(Items[k].rules, proofs[Items[k].issuer], h, Items[k].occurred)
    BY <2>2 DEF EvaluateRulePublication
  <2>4. proofs[Items[k].issuer] \in SUBSET ProofRecord
    BY <1>1, <2>1 DEF ProofsTyped, GatePublishable, EvaluatePublicationGate, EnrollmentActive
  <2> HIDE DEF k
  <2> QED
    BY <2>3, <2>4, OwnProofDecides DEF k
<1>2. Init => ProofsTyped
  BY IssuersAssumption DEF Init, ProofsTyped
<1>3. ASSUME IInv, ProofsTyped, [Next]_vars PROVE [Step]_vars
  BY <1>1, <1>3
<1> QED
  BY InitInv, StepInv, <1>2, ProofsKept, <1>3, PTL DEF Spec, GateRespectsRevocation

-----------------------------------------------------------------------------
(* Trust keys *)

\* The registry has a status for every key and for nothing else.
RegistryShape == registry = [k \in KeyIds |-> registry[k]]

-----------------------------------------------------------------------------
\* The oldest of some keys is one of them.
LEMMA FirstIn ==
    ASSUME NEW S \in SUBSET KeyIds, S # {}
    PROVE  First(S) \in S
  <1>1. KeyIds \subseteq Nat
    BY KeysAssumption DEF KeyIds
  <1>2. \E n \in S : \A m \in S : n <= m
    <2> DEFINE Less == {p \in Nat \X Nat : p[1] < p[2]}
    <2>1. IsWellFoundedOn(Less, Nat)
      BY NatLessThanWellFounded DEF OpToRel
    <2>2. \A m, n \in Nat : m < n => <<m, n>> \in Less
      OBVIOUS
    <2> HIDE DEF Less
    <2>3. PICK n \in S : \A m \in S : ~(<<m, n>> \in Less)
      BY <1>1, <2>1, WFMin
    <2>4. \A m \in S : ~(m < n)
      BY <1>1, <2>2, <2>3
    <2> QED
      BY <1>1, <2>4
  <1> QED
    BY <1>2 DEF First

\* selectTrustKeyForLookup answers without a reason only with an active key of
\* the signer, in the scope of what was signed.
LEMMA LookupFinds ==
    ASSUME NEW reg, NEW a, NEW accepted, SelectTrustKeyForLookup(reg, a, accepted).reason = "none"
    PROVE  LET j == SelectTrustKeyForLookup(reg, a, accepted).key
           IN  /\ j \in KeyIds /\ reg[j] = "active"
               /\ Keys[j].signer = a.signer /\ Keys[j].root = a.root
               /\ KeyMatchesScope(j, a)
  <1> DEFINE candidates == LookupRows(reg, a)
             scoped == {k \in candidates : KeyMatchesScope(k, a)}
             matches == {k \in scoped : Keys[k].algorithm \in accepted}
             live == {k \in matches : reg[k] = "active"}
  <1>1. live # {} /\ SelectTrustKeyForLookup(reg, a, accepted) = Found(First(live))
    BY DEF SelectTrustKeyForLookup, Unusable, Found
  <1>2. live \in SUBSET KeyIds
    BY DEF LookupRows
  <1>3. First(live) \in live
    BY <1>1, <1>2, FirstIn
  <1>4. SelectTrustKeyForLookup(reg, a, accepted).key = First(live)
    BY <1>1 DEF Found
  <1> QED
    BY <1>3, <1>4 DEF LookupRows

\* trustKeyStatusUpdateCommand changes at most the key it names, in the root
\* program and, for an authority, in the namespace of its caller.
LEMMA UpdateIsScoped ==
    ASSUME NEW reg, reg = [k \in KeyIds |-> reg[k]], NEW root, NEW t, NEW status, NEW authority
    PROVE  LET upd == UpdateTrustKeyStatus(reg, root, t, status, authority)
           IN  /\ upd = [k \in KeyIds |-> upd[k]]
               /\ \A k \in KeyIds : upd[k] # reg[k] =>
                     /\ Keys[k].root = root
                     /\ authority = NoAuthority \/ Keys[k].authority = authority
  BY DEF UpdateTrustKeyStatus

\* Every step leaves the registry's shape.
LEMMA ShapeStep == RegistryShape /\ [KeysNext]_keysVars => RegistryShape'
  <1> SUFFICES ASSUME RegistryShape, [KeysNext]_keysVars PROVE RegistryShape'
    OBVIOUS
  <1>1. CASE registry' = registry
    BY <1>1 DEF RegistryShape
  <1>2. CASE Apply
    <2>1. registry' = registry \/ \E root, t, status, authority :
             registry' = UpdateTrustKeyStatus(registry, root, t, status, authority)
      BY <1>2 DEF Apply, ApplyKeyStatusEvent
    <2> QED
      BY <1>1, <2>1, UpdateIsScoped DEF RegistryShape
  <1>3. ASSUME NEW k, NEW status, registry' = [registry EXCEPT ![k] = status] PROVE RegistryShape'
    BY <1>3 DEF RegistryShape
  <1>4. ASSUME NEW status, RetireCurrentKey(status) PROVE RegistryShape'
    BY <1>4, UpdateIsScoped DEF RetireCurrentKey, RegistryShape
  <1> QED
    BY <1>1, <1>2, <1>3, <1>4
       DEF KeysNext, keysVars, SignTrustArtifact, Verify, SyncFails, UpsertTrustKey, ConfigureSigningKey,
           PlanRotation, ActivateNextKey

\* What the second lookup of an event grants.
LEMMA ApplyIsGoverned ==
    ASSUME RegistryShape, Apply, NEW k \in KeyIds, registry'[k] # registry[k]
    PROVE  \E j \in KeyIds :
              /\ InForce(j, held) /\ Keys[j].root = Keys[k].root
              /\ \/ Keys[j].scope = "root_program" /\ Keys[j].signer = Keys[k].root
                 \/ Keys[j].signer = Keys[k].authority
  <1> DEFINE lookup == SelectTrustKeyForLookup(registry, held, {held.algorithm})
             j == lookup.key
             caller == IF Keys[j].scope = "root_program" THEN NoAuthority ELSE held.authority
  <1>1. /\ lookup.reason = "none"
        /\ registry' = UpdateTrustKeyStatus(registry, held.root, held.target, held.status, caller)
    BY DEF Apply, ApplyKeyStatusEvent
  <1>2. /\ j \in KeyIds /\ registry[j] = "active"
        /\ Keys[j].signer = held.signer /\ Keys[j].root = held.root
        /\ KeyMatchesScope(j, held)
    BY <1>1, LookupFinds
  <1>3. Keys[k].root = held.root /\ (caller = NoAuthority \/ Keys[k].authority = caller)
    BY <1>1, UpdateIsScoped DEF RegistryShape
  <1> HIDE DEF lookup
  <1>4. CASE Keys[j].scope = "root_program"
    BY <1>2, <1>3, <1>4 DEF KeyMatchesScope, InForce
  <1>5. CASE Keys[j].scope # "root_program"
    BY <1>2, <1>3, <1>5 DEF KeyMatchesScope, InForce
  <1> QED
    BY <1>4, <1>5

\* For any registry, keys and signed events, an event changes a key only when a
\* key in force at that moment speaks for the changed key's root program or for
\* the authority it was issued under.
THEOREM KeysAreGoverned == KeysSpec => KeyChangesAreGoverned
  <1>1. KeysInit => RegistryShape
    BY DEF KeysInit, RegistryShape
  <1>2. RegistryShape /\ [KeysNext]_keysVars =>
          [pc = "verified" /\ pc' = "idle" =>
             \A k \in KeyIds : registry'[k] # registry[k] =>
                \E j \in KeyIds :
                   /\ InForce(j, held) /\ Keys[j].root = Keys[k].root
                   /\ \/ Keys[j].scope = "root_program" /\ Keys[j].signer = Keys[k].root
                      \/ Keys[j].signer = Keys[k].authority]_keysVars
    <2> SUFFICES ASSUME RegistryShape, [KeysNext]_keysVars, pc = "verified", pc' = "idle",
                        NEW k \in KeyIds, registry'[k] # registry[k]
                 PROVE  Apply
      BY ApplyIsGoverned
    <2> QED
      BY DEF KeysNext, keysVars, syncVars, planVars, SignTrustArtifact, Verify, SyncFails, UpsertTrustKey,
             ConfigureSigningKey, PlanRotation, ActivateNextKey, RetireCurrentKey
  <1> QED
    BY <1>1, <1>2, ShapeStep, PTL DEF KeysSpec, KeyChangesAreGoverned

-----------------------------------------------------------------------------
\* What an assessment that does not reject says about the two keys of a plan.
Exchangeable(p) ==
    /\ p.current # p.next /\ Keys[p.current].scope = Keys[p.next].scope
    /\ Keys[p.current].signer = Keys[p.next].signer /\ Keys[p.current].root = Keys[p.next].root
    /\ Keys[p.current].scope # "root_program" => Keys[p.current].authority = Keys[p.next].authority

\* The plan under way was assessed, its keys have not changed since.
PlanInv == stage # "none" => plan \in Plans /\ Exchangeable(plan)

\* assessTrustKeyRotation rejects keys of different signers, roots, scopes or authorities.
LEMMA AssessedIsExchangeable ==
    ASSUME NEW reg, NEW p \in Plans, AssessTrustKeyRotation(reg, p) # "rejected"
    PROVE  Exchangeable(p)
  <1>1. RejectionCodes(reg, p) = {}
    BY DEF AssessTrustKeyRotation
  <1>2. /\ "same_key_id" \notin RejectionCodes(reg, p)
        /\ "scope_mismatch" \notin RejectionCodes(reg, p)
        /\ "root_program_mismatch" \notin RejectionCodes(reg, p)
        /\ "signer_mismatch" \notin RejectionCodes(reg, p)
        /\ "delegated_authority_mismatch" \notin RejectionCodes(reg, p)
    BY <1>1
  <1>3. p.current # p.next
    BY <1>2, Zenon DEF RejectionCodes
  <1>4. Keys[p.current].scope = PolicyScope(p) /\ Keys[p.next].scope = PolicyScope(p)
    BY <1>2, Zenon DEF RejectionCodes
  <1>5. Keys[p.current].root = Keys[p.next].root
    BY <1>2, Zenon DEF RejectionCodes
  <1>6. Keys[p.current].signer = Keys[p.next].signer
    BY <1>2, Zenon DEF RejectionCodes
  <1>7. Keys[p.current].scope = "delegated_authority" =>
            Keys[p.current].authority = Keys[p.next].authority
    BY <1>2, Zenon DEF RejectionCodes
  <1> QED
    BY <1>3, <1>4, <1>5, <1>6, <1>7 DEF Exchangeable, PolicyScope

\* No step takes back what a rotation was assessed on.
LEMMA PlanStep == PlanInv /\ [KeysNext]_keysVars => PlanInv'
  <1> SUFFICES ASSUME PlanInv, [KeysNext]_keysVars PROVE PlanInv'
    OBVIOUS
  <1>1. CASE UNCHANGED planVars
    BY <1>1 DEF PlanInv, planVars, Exchangeable
  <1>2. ASSUME NEW p \in Plans, PlanRotation(p) PROVE PlanInv'
    BY <1>2, AssessedIsExchangeable DEF PlanRotation, PlanInv, Exchangeable
  <1>3. CASE ActivateNextKey
    BY <1>3 DEF ActivateNextKey, PlanInv, Exchangeable
  <1>4. ASSUME NEW status, RetireCurrentKey(status) PROVE PlanInv'
    BY <1>4 DEF RetireCurrentKey, PlanInv, Exchangeable
  <1> QED
    BY <1>1, <1>2, <1>3, <1>4
       DEF KeysNext, keysVars, planVars, SignTrustArtifact, Verify, Apply, SyncFails, UpsertTrustKey,
           ConfigureSigningKey

\* selectTrustKeyForLookup answers with a key when an active one speaks for the signer.
LEMMA ActiveIsFound ==
    ASSUME NEW reg, NEW r, NEW k \in KeyIds, reg[k] = "active", SpeaksFor(k, r)
    PROVE  SelectTrustKeyForLookup(reg, r, {Keys[k].algorithm}).reason = "none"
  <1> DEFINE candidates == LookupRows(reg, r)
             scoped == {j \in candidates : KeyMatchesScope(j, r)}
             matches == {j \in scoped : Keys[j].algorithm \in {Keys[k].algorithm}}
             live == {j \in matches : reg[j] = "active"}
  <1>1. k \in candidates /\ k \in scoped /\ k \in matches /\ k \in live
    BY DEF LookupRows, SpeaksFor
  <1>2. candidates # {} /\ scoped # {} /\ matches # {} /\ live # {}
    BY <1>1
  <1>3. SelectTrustKeyForLookup(reg, r, {Keys[k].algorithm}) = Found(First(live))
    BY <1>2, Zenon DEF SelectTrustKeyForLookup
  <1> QED
    BY <1>3 DEF Found

\* For any keys, plans and registry: when an assessed rotation retires the old key and
\* the new one is active, a lookup finds a key for everything the old one spoke for.
THEOREM RotationsKeepSigners == KeysSpec => RotationKeepsSigner
  <1> DEFINE Kept == stage = "overlap" /\ stage' = "retired" /\ registry[plan.next] = "active" =>
         \A r \in Requests : SpeaksFor(plan.current, r) =>
            SelectTrustKeyForLookup(registry', r, {Keys[plan.next].algorithm}).reason = "none"
  <1>1. ASSUME RegistryShape, PlanInv, [KeysNext]_keysVars PROVE Kept
    <2> SUFFICES ASSUME stage = "overlap", stage' = "retired", registry[plan.next] = "active",
                        NEW r \in Requests, SpeaksFor(plan.current, r)
                 PROVE  SelectTrustKeyForLookup(registry', r, {Keys[plan.next].algorithm}).reason
                            = "none"
      OBVIOUS
    <2>1. PICK status : RetireCurrentKey(status)
      BY <1>1
         DEF KeysNext, keysVars, planVars, SignTrustArtifact, Verify, Apply, SyncFails, UpsertTrustKey,
             ConfigureSigningKey, PlanRotation, ActivateNextKey
    <2>2. plan \in Plans /\ Exchangeable(plan)
      BY <1>1 DEF PlanInv
    <2>3. plan.next \in KeyIds /\ plan.current \in KeyIds
      BY <2>2, InputsAssumption DEF RotationPlan
    <2>4. registry'[plan.next] = "active"
      BY <1>1, <2>1, <2>2, <2>3
         DEF RetireCurrentKey, UpdateTrustKeyStatus, RegistryShape, Exchangeable
    <2>5. SpeaksFor(plan.next, r)
      BY <2>2 DEF Exchangeable, SpeaksFor, KeyMatchesScope
    <2> QED
      BY <2>3, <2>4, <2>5, ActiveIsFound
  <1>2. KeysInit => RegistryShape /\ PlanInv
    BY DEF KeysInit, RegistryShape, PlanInv
  <1>3. RegistryShape /\ PlanInv /\ [KeysNext]_keysVars => [Kept]_keysVars
    BY <1>1
  <1>4. KeysSpec => [][Kept]_keysVars
    BY <1>2, <1>3, ShapeStep, PlanStep, PTL DEF KeysSpec
  <1> QED
    BY <1>4 DEF RotationKeepsSigner
=============================================================================
