----------------------- MODULE GovernanceEventsProofs -----------------------
(***************************************************************************)
(* How a governance change becomes an event: the transaction that commits  *)
(* it with its outbox row (ManagementPlane), and the relay that publishes  *)
(* the row (EventOutbox). For any number of clients, keys, request ids,    *)
(* values, events and workers, any batch size, lease length and attempt    *)
(* limit, and without any use of the bounds.                               *)
(*                                                                         *)
(* A key is applied once because of what its row lock protects: the        *)
(* transaction that claimed a key holds the key's row until it ends, and   *)
(* the key stays fresh meanwhile (ClaimHeld). A fresh key has nothing      *)
(* applied in its generation (CompletedIffApplied), so the commit adds the *)
(* only one; an expiry begins a generation no audit row has yet            *)
(* (GenerationsPast).                                                      *)
(***************************************************************************)
EXTENDS EventOutbox, ManagementPlane, FiniteSetTheorems, TLAPS

-----------------------------------------------------------------------------
(* The governance transaction *)

AuditRows == [request : Requests, generation : Nat]
IdemRows == {NoEntry} \union [status : {"completed", "expired"}, hash : Hashes]

\* The types the proof needs, and that only a request that was sent is in work.
Typed ==
    /\ audit \in Seq(AuditRows)
    /\ idem \in [Keys -> IdemRows]
    /\ generation \in [Keys -> Nat]
    /\ keyLock \in [Keys -> Clients \union {NoClient}]
    /\ step \in [Clients -> {"idle", "begin", "write", "commit"}]
    /\ request \in [Clients -> Requests \union {NoRequest}]
    /\ \A c \in Clients : step[c] # "idle" => request[c] \in Requests
    /\ \A c \in Clients : step[c] = "begin" => request[c].key \in Keys

\* A transaction past its claim holds the row of its key, which is still fresh.
ClaimHeld ==
    \A c \in Clients : step[c] \in {"write", "commit"} /\ request[c].key \in Keys =>
        keyLock[request[c].key] = c /\ Fresh(idem[request[c].key])

\* No audit row is of a generation its key has not reached.
GenerationsPast ==
    \A k \in Keys : \A i \in Of(k) : audit[i].generation <= generation[k]

IInv == Typed /\ ClaimHeld /\ GenerationsPast /\ CompletedIffApplied /\ AppliedOnce

-----------------------------------------------------------------------------
\* The parts of a request.
LEMMA RequestParts ==
    ASSUME NEW r \in Requests
    PROVE  (r.key \in Keys \/ r.key = NoKey) /\ RequestHash(r) \in Hashes /\ r.rid \in RequestIds
  BY DEF Requests, RequestHash, Hashes

\* The initial state satisfies the invariant.
LEMMA InitInv == MutationInit => IInv
  <1> SUFFICES ASSUME MutationInit PROVE IInv
    OBVIOUS
  <1>1. Typed
    BY DEF MutationInit, Typed, AuditRows, IdemRows
  <1>2. ClaimHeld
    BY DEF MutationInit, ClaimHeld
  <1>3. \A k \in Keys : Of(k) = {} /\ idem[k].status = "absent"
    BY DEF MutationInit, Of, NoEntry
  <1> QED
    BY <1>1, <1>2, <1>3 DEF IInv, GenerationsPast, CompletedIffApplied, AppliedOnce

\* What the end of a transaction does to the state of the clients.
LEMMA FinishStep ==
    ASSUME Typed, ClaimHeld, NEW c \in Clients, NEW a, Finish(c, a),
           idem' \in [Keys -> IdemRows], audit' \in Seq(AuditRows), generation' \in [Keys -> Nat],
           \A k \in Keys : idem'[k] = idem[k] \/ keyLock[k] = c
    PROVE  Typed' /\ ClaimHeld'
  <1>1. NoRequest \in Requests \union {NoRequest}
    OBVIOUS
  <1>2. /\ step' = [step EXCEPT ![c] = "idle"]
        /\ request' = [request EXCEPT ![c] = NoRequest]
        /\ keyLock' = [k \in Keys |-> IF keyLock[k] = c THEN NoClient ELSE keyLock[k]]
    BY DEF Finish
  <1>3. \A d \in Clients : \/ d = c /\ step'[d] = "idle"
                           \/ step'[d] = step[d] /\ request'[d] = request[d] /\ d # c
    BY <1>2 DEF Typed
  <1>4. Typed'
    <2>1. /\ step' \in [Clients -> {"idle", "begin", "write", "commit"}]
          /\ request' \in [Clients -> Requests \union {NoRequest}]
          /\ keyLock' \in [Keys -> Clients \union {NoClient}]
      BY <1>1, <1>2 DEF Typed
    <2> QED
      BY <1>3, <2>1 DEF Typed
  <1>5. ClaimHeld'
    <2> SUFFICES ASSUME NEW d \in Clients, step'[d] \in {"write", "commit"}, request'[d].key \in Keys
                 PROVE  keyLock'[request'[d].key] = d /\ Fresh(idem'[request'[d].key])
      BY DEF ClaimHeld, Fresh
    <2>1. d # c /\ step'[d] = step[d] /\ request'[d] = request[d]
      BY <1>3
    <2>2. keyLock[request[d].key] = d /\ Fresh(idem[request[d].key])
      BY <2>1 DEF ClaimHeld
    <2>3. keyLock'[request[d].key] = d /\ idem'[request[d].key] = idem[request[d].key]
      BY <1>2, <2>1, <2>2
    <2> QED
      BY <2>1, <2>2, <2>3
  <1> QED
    BY <1>4, <1>5

\* The claims and what they protect, step by step.
LEMMA ClaimStep == Typed /\ ClaimHeld /\ [MutationNext]_mutationVars => Typed' /\ ClaimHeld'
  <1> SUFFICES ASSUME Typed, ClaimHeld, [MutationNext]_mutationVars PROVE Typed' /\ ClaimHeld'
    OBVIOUS
  <1> USE DistinctAssumption
  <1>1. ASSUME NEW c \in Clients, NEW r \in Requests, Submit(c, r) PROVE Typed' /\ ClaimHeld'
    <2>1. /\ step[c] = "idle" /\ UNCHANGED <<audit, idem, generation, keyLock>>
          /\ request' = [request EXCEPT ![c] = r]
          /\ step' = [step EXCEPT ![c] = IF r.key = NoKey THEN "write" ELSE "begin"]
      BY <1>1 DEF Submit, dbVars
    <2>2. \A d \in Clients :
             \/ d # c /\ step'[d] = step[d] /\ request'[d] = request[d]
             \/ d = c /\ request'[d] = r /\ step'[d] = "write" /\ r.key = NoKey
             \/ d = c /\ request'[d] = r /\ step'[d] = "begin" /\ r.key \in Keys
      BY <2>1, RequestParts DEF Typed
    <2>3. Typed'
      BY <2>1, <2>2 DEF Typed
    <2>4. ClaimHeld'
      BY <2>1, <2>2 DEF ClaimHeld, Fresh
    <2> QED
      BY <2>3, <2>4
  <1>2. ASSUME NEW c \in Clients, BeginFresh(c) PROVE Typed' /\ ClaimHeld'
    <2>1. /\ step[c] = "begin" /\ UNCHANGED <<audit, idem, generation, request>>
          /\ request[c].key \in Keys /\ request[c] \in Requests
          /\ keyLock[request[c].key] = NoClient /\ Fresh(idem[request[c].key])
          /\ keyLock' = [keyLock EXCEPT ![request[c].key] = c]
          /\ step' = [step EXCEPT ![c] = "write"]
      BY <1>2 DEF BeginFresh, KeyFree, dbVars, Typed
    <2>2. Typed'
      BY <2>1 DEF Typed
    <2>3. ClaimHeld'
      <3> SUFFICES ASSUME NEW d \in Clients, step'[d] \in {"write", "commit"}, request[d].key \in Keys
                   PROVE  keyLock'[request[d].key] = d /\ Fresh(idem[request[d].key])
        BY <2>1 DEF ClaimHeld, Fresh
      <3>1. CASE d = c
        BY <2>1, <3>1 DEF Typed
      <3>2. CASE d # c
        <4>1. keyLock[request[d].key] = d /\ Fresh(idem[request[d].key])
          BY <2>1, <3>2 DEF ClaimHeld, Typed
        <4> QED
          BY <2>1, <4>1 DEF Typed
      <3> QED
        BY <3>1, <3>2
    <2> QED
      BY <2>2, <2>3
  <1>3. ASSUME NEW c \in Clients, NEW a, Finish(c, a), UNCHANGED dbVars PROVE Typed' /\ ClaimHeld'
    BY <1>3, FinishStep DEF Typed, dbVars
  <1>4. ASSUME NEW c \in Clients, WriteState(c) PROVE Typed' /\ ClaimHeld'
    <2>1. /\ step[c] = "write" /\ UNCHANGED <<audit, idem, generation, request, keyLock>>
          /\ step' = [step EXCEPT ![c] = "commit"]
      BY <1>4 DEF WriteState, dbVars
    <2>2. \A d \in Clients : step'[d] = step[d] \/ (d = c /\ step[d] = "write" /\ step'[d] = "commit")
      BY <2>1 DEF Typed
    <2>3. Typed'
      BY <2>1, <2>2 DEF Typed
    <2>4. ClaimHeld'
      BY <2>1, <2>2 DEF ClaimHeld, Fresh
    <2> QED
      BY <2>3, <2>4
  <1>5. ASSUME NEW c \in Clients, Commit(c) PROVE Typed' /\ ClaimHeld'
    <2>1. /\ step[c] = "commit" /\ Effects(request[c]) /\ request[c] \in Requests
          /\ \E a : Finish(c, a)
      BY <1>5 DEF Commit, Typed
    <2>2. audit' \in Seq(AuditRows) /\ generation' \in [Keys -> Nat]
      BY <2>1, RequestParts DEF Effects, Typed, AuditRows
    <2>3. idem' \in [Keys -> IdemRows]
      BY <2>1, RequestParts DEF Effects, Typed, IdemRows
    <2>4. \A k \in Keys : idem'[k] = idem[k] \/ keyLock[k] = c
      BY <2>1 DEF Effects, ClaimHeld
    <2> QED
      BY <2>1, <2>2, <2>3, <2>4, FinishStep
  <1>6. ASSUME NEW k \in Keys, Expire(k) PROVE Typed' /\ ClaimHeld'
    <2>1. /\ keyLock[k] = NoClient /\ idem[k].status = "completed"
          /\ idem' = [idem EXCEPT ![k].status = "expired"]
          /\ generation' = [generation EXCEPT ![k] = @ + 1]
          /\ UNCHANGED <<audit, keyLock, step, request>>
      BY <1>6 DEF Expire, txVars
    <2>2. [idem[k] EXCEPT !.status = "expired"] \in IdemRows
      <3>1. idem[k] \in IdemRows /\ idem[k] # NoEntry
        BY <2>1 DEF Typed, NoEntry
      <3>2. idem[k] \in [status : {"completed", "expired"}, hash : Hashes]
        BY <3>1 DEF IdemRows
      <3> QED
        BY <3>2 DEF IdemRows
    <2>3. idem' \in [Keys -> IdemRows] /\ generation' \in [Keys -> Nat]
      BY <2>1, <2>2 DEF Typed
    <2>4. Typed'
      BY <2>1, <2>3 DEF Typed
    <2>5. \A j \in Keys : j # k => idem'[j] = idem[j]
      BY <2>1 DEF Typed
    <2>6. ClaimHeld'
      BY <2>1, <2>5 DEF ClaimHeld, Fresh
    <2> QED
      BY <2>4, <2>6
  <1>7. CASE UNCHANGED mutationVars
    BY <1>7 DEF mutationVars, Typed, ClaimHeld, Fresh
  <1> QED
    BY <1>1, <1>2, <1>3, <1>4, <1>5, <1>6, <1>7
       DEF MutationNext, Transaction, Replay, Conflict, PreconditionFailed, Abort

-----------------------------------------------------------------------------
\* A commit adds one audit row, of its key's generation.
LEMMA CommitAdds ==
    ASSUME Typed, NEW c \in Clients, Commit(c)
    PROVE  LET r == request[c]
               n == Len(audit) + 1
           IN  /\ r \in Requests
               /\ DOMAIN audit = 1 .. Len(audit) /\ DOMAIN audit' = 1 .. n /\ n \in Nat
               /\ \A i \in 1 .. Len(audit) : audit'[i] = audit[i]
               /\ audit'[n].request = r
               /\ r.key \in Keys => audit'[n].generation = generation[r.key]
               /\ \A k \in Keys : idem'[k] = IF k = r.key
                                             THEN [status |-> "completed", hash |-> RequestHash(r)]
                                             ELSE idem[k]
               /\ generation' = generation
  <1>1. /\ Effects(request[c]) /\ request[c] \in Requests
    BY DEF Commit, Typed
  <1>2. audit' = Append(audit,
            [request |-> request[c],
             generation |-> IF request[c].key = NoKey THEN 0 ELSE generation[request[c].key]])
    BY <1>1 DEF Effects
  <1>3. audit \in Seq(AuditRows)
    BY DEF Typed
  <1>4. request[c].key \in Keys => request[c].key # NoKey
    BY DistinctAssumption
  <1> QED
    BY <1>1, <1>2, <1>3, <1>4 DEF Effects

\* What is applied, step by step.
LEMMA AppliedStep ==
    IInv /\ [MutationNext]_mutationVars => GenerationsPast' /\ CompletedIffApplied' /\ AppliedOnce'
  <1> SUFFICES ASSUME IInv, [MutationNext]_mutationVars
               PROVE  GenerationsPast' /\ CompletedIffApplied' /\ AppliedOnce'
    OBVIOUS
  <1>1. CASE UNCHANGED <<audit, idem, generation>>
    BY <1>1 DEF IInv, GenerationsPast, CompletedIffApplied, AppliedOnce, Of, RequestHash
  <1>2. ASSUME NEW k \in Keys, Expire(k)
        PROVE  GenerationsPast' /\ CompletedIffApplied' /\ AppliedOnce'
    <2>1. /\ audit' = audit /\ generation \in [Keys -> Nat]
          /\ idem'[k].status = "expired" /\ generation'[k] = generation[k] + 1
          /\ \A j \in Keys : j # k => idem'[j] = idem[j] /\ generation'[j] = generation[j]
      <3>1. /\ idem \in [Keys -> IdemRows] /\ generation \in [Keys -> Nat]
            /\ idem[k].status = "completed" /\ audit' = audit
            /\ idem' = [idem EXCEPT ![k].status = "expired"]
            /\ generation' = [generation EXCEPT ![k] = @ + 1]
        BY <1>2 DEF Expire, IInv, Typed
      <3>2. idem'[k] = [idem[k] EXCEPT !.status = "expired"]
        BY <3>1
      <3>3. idem[k] \in [status : {"completed", "expired"}, hash : Hashes]
        BY <3>1 DEF IdemRows, NoEntry
      <3>4. idem'[k].status = "expired"
        BY <3>2, <3>3
      <3>5. \A j \in Keys : j # k => idem'[j] = idem[j]
        BY <3>1
      <3>6. /\ generation'[k] = generation[k] + 1
            /\ \A j \in Keys : j # k => generation'[j] = generation[j]
        BY <3>1
      <3> QED
        BY <3>1, <3>4, <3>5, <3>6
    <2>2. audit \in Seq(AuditRows) /\ \A i \in DOMAIN audit : audit[i].generation \in Nat
      <3>1. audit \in Seq(AuditRows)
        BY DEF IInv, Typed
      <3>2. \A i \in DOMAIN audit : audit[i] \in AuditRows
        BY <3>1
      <3>3. \A a \in AuditRows : a.generation \in Nat
        BY DEF AuditRows
      <3> QED
        BY <3>1, <3>2, <3>3
    <2>3. \A j \in Keys : Of(j)' = Of(j)
      BY <2>1 DEF Of
    <2>4. \A i \in Of(k) : audit[i].generation < generation'[k]
      BY <2>1, <2>2 DEF IInv, GenerationsPast, Of
    <2>5. GenerationsPast'
      BY <2>1, <2>2, <2>3, <2>4 DEF IInv, GenerationsPast, Of
    <2>6. AppliedOnce'
      BY <2>1, <2>3 DEF IInv, AppliedOnce
    <2>7. CompletedIffApplied'
      <3> SUFFICES ASSUME NEW j \in Keys
                   PROVE  /\ idem'[j].status = "completed"
                             <=> {i \in Of(j)' : audit'[i].generation = generation'[j]} # {}
                          /\ \A i \in {h \in Of(j)' : audit'[h].generation = generation'[j]} :
                                RequestHash(audit'[i].request) = idem'[j].hash
        BY DEF CompletedIffApplied, RequestHash
      <3>1. CASE j = k
        <4>1. {i \in Of(j)' : audit'[i].generation = generation'[j]} = {}
          BY <2>1, <2>2, <2>3, <2>4, <3>1 DEF Of
        <4> QED
          BY <2>1, <3>1, <4>1
      <3>2. CASE j # k
        BY <2>1, <2>3, <3>2 DEF IInv, CompletedIffApplied
      <3> QED
        BY <3>1, <3>2
    <2> QED
      BY <2>5, <2>6, <2>7
  <1>3. ASSUME NEW c \in Clients, Commit(c)
        PROVE  GenerationsPast' /\ CompletedIffApplied' /\ AppliedOnce'
    <2> DEFINE r == request[c]
               n == Len(audit) + 1
    <2>1. /\ r \in Requests
          /\ DOMAIN audit = 1 .. Len(audit) /\ DOMAIN audit' = 1 .. n /\ n \in Nat
          /\ Len(audit) \in Nat
          /\ \A i \in 1 .. Len(audit) : audit'[i] = audit[i]
          /\ audit'[n].request = r
          /\ r.key \in Keys => audit'[n].generation = generation[r.key]
          /\ \A k \in Keys : idem'[k] = IF k = r.key
                                        THEN [status |-> "completed", hash |-> RequestHash(r)]
                                        ELSE idem[k]
          /\ generation' = generation /\ generation \in [Keys -> Nat]
      BY <1>3, CommitAdds DEF IInv, Typed
    <2>2. r.key \in Keys => Fresh(idem[r.key])
      BY <1>3 DEF IInv, ClaimHeld, Commit
    <2> HIDE DEF r, n
    <2>3. \A k \in Keys : Of(k)' = IF k = r.key THEN Of(k) \union {n} ELSE Of(k)
      BY <2>1 DEF Of, n
    <2>4. \A k \in Keys : \A i \in Of(k) : i # n /\ audit'[i] = audit[i]
      BY <2>1 DEF Of, n
    <2>5. r.key \in Keys => \A i \in Of(r.key) : audit[i].generation # generation[r.key]
      BY <2>2 DEF IInv, CompletedIffApplied, Fresh
    <2>6. GenerationsPast'
      BY <2>1, <2>3, <2>4 DEF IInv, GenerationsPast
    <2>7. AppliedOnce'
      BY <2>1, <2>3, <2>4, <2>5 DEF IInv, AppliedOnce
    <2>8. CompletedIffApplied'
      <3> SUFFICES ASSUME NEW j \in Keys
                   PROVE  /\ idem'[j].status = "completed"
                             <=> {i \in Of(j)' : audit'[i].generation = generation'[j]} # {}
                          /\ \A i \in {h \in Of(j)' : audit'[h].generation = generation'[j]} :
                                RequestHash(audit'[i].request) = idem'[j].hash
        BY DEF CompletedIffApplied, RequestHash
      <3>1. CASE j = r.key
        <4>1. {i \in Of(j)' : audit'[i].generation = generation'[j]} = {n}
          BY <2>1, <2>3, <2>4, <2>5, <3>1
        <4>2. idem'[j] = [status |-> "completed", hash |-> RequestHash(r)]
          BY <2>1, <3>1
        <4> QED
          BY <2>1, <4>1, <4>2
      <3>2. CASE j # r.key
        <4>1. idem'[j] = idem[j] /\ Of(j)' = Of(j) /\ generation'[j] = generation[j]
          BY <2>1, <2>3, <3>2
        <4> QED
          BY <2>4, <4>1 DEF IInv, CompletedIffApplied
      <3> QED
        BY <3>1, <3>2
    <2> QED
      BY <2>6, <2>7, <2>8
  <1> QED
    BY <1>1, <1>2, <1>3
       DEF MutationNext, Transaction, Submit, BeginFresh, Replay, Conflict, WriteState, PreconditionFailed,
           Abort, dbVars, mutationVars

\* The invariant holds in every reachable state.
LEMMA Invariance == MutationSpec => []IInv
  <1>1. IInv /\ [MutationNext]_mutationVars => IInv'
    BY ClaimStep, AppliedStep DEF IInv
  <1> QED
    BY InitInv, <1>1, PTL DEF MutationSpec

\* Between two expiries of an Idempotency-Key its mutation commits at most once,
\* whatever is sent twice, aborted or answered into the void.
THEOREM KeyAppliedOnce == MutationSpec => []AppliedOnce
  BY Invariance, PTL DEF IInv

\* A key is completed exactly when its mutation committed, and replays that one.
THEOREM KeyStandsForItsMutation == MutationSpec => []CompletedIffApplied
  BY Invariance, PTL DEF IInv

-----------------------------------------------------------------------------
\* Where request ids are: each was sent, the requests in work have distinct ones
\* and none of theirs is in the outbox, which has one event per audit row.
IdsApart ==
    /\ \A c \in Clients : step[c] # "idle" =>
          /\ request[c].rid \in issued
          /\ \A e \in outbox : e.id.rid # request[c].rid
          /\ \A d \in Clients \ {c} : step[d] # "idle" => request[d].rid # request[c].rid
    /\ \A e \in outbox : e.id.rid \in issued
    /\ IsFiniteSet(outbox)
    /\ EveryChangeAnnounced

\* A request in work that ends takes its id with it.
LEMMA IdsLeave ==
    ASSUME Typed, IdsApart, NEW c \in Clients, NEW a, Finish(c, a), UNCHANGED dbVars
    PROVE  IdsApart'
  <1>1. /\ step' = [step EXCEPT ![c] = "idle"] /\ request' = [request EXCEPT ![c] = NoRequest]
        /\ UNCHANGED <<issued, outbox, audit>>
    BY DEF Finish, dbVars
  <1>2. \A d \in Clients : step'[d] # "idle" => d # c /\ step'[d] = step[d] /\ request'[d] = request[d]
    BY <1>1 DEF Typed
  <1> QED
    BY <1>1, <1>2 DEF IdsApart, EveryChangeAnnounced

\* The commit inserts an event of its own, since its id is in no event yet.
LEMMA IdsCommitted ==
    ASSUME Typed, IdsApart, NEW c \in Clients, Commit(c)
    PROVE  IdsApart'
  <1> DEFINE e == [id |-> EventId(request[c]), value |-> request[c].value]
  <1>1. /\ step[c] = "commit" /\ Effects(request[c])
        /\ step' = [step EXCEPT ![c] = "idle"] /\ request' = [request EXCEPT ![c] = NoRequest]
        /\ issued' = issued
    BY DEF Commit, Finish
  <1>2. EventId(request[c]).rid = request[c].rid
    BY DEF EventId
  <1>3. ~\E f \in outbox : f.id = EventId(request[c])
    BY <1>1, <1>2 DEF IdsApart
  <1>4. outbox' = outbox \union {e}
    BY <1>1, <1>3 DEF Effects
  <1>5. e \notin outbox /\ e.id.rid = request[c].rid
    BY <1>2, <1>3
  <1> HIDE DEF e
  <1>6. /\ IsFiniteSet(outbox') /\ Cardinality(outbox') = Cardinality(outbox) + 1
    BY <1>4, <1>5, FS_AddElement DEF IdsApart
  <1>7. Len(audit') = Len(audit) + 1
    BY <1>1 DEF Effects, Typed
  <1>8. \A d \in Clients : step'[d] # "idle" => d # c /\ step'[d] = step[d] /\ request'[d] = request[d]
    BY <1>1 DEF Typed
  <1> QED
    BY <1>1, <1>4, <1>5, <1>6, <1>7, <1>8 DEF IdsApart, EveryChangeAnnounced

\* Without reused request ids every step keeps them apart.
LEMMA IdsStep ==
    ASSUME FreshIds
    PROVE  Typed /\ IdsApart /\ [MutationNext]_mutationVars => IdsApart'
  <1> SUFFICES ASSUME Typed, IdsApart, [MutationNext]_mutationVars PROVE IdsApart'
    OBVIOUS
  <1>1. ASSUME NEW c \in Clients, NEW r \in Requests, Submit(c, r) PROVE IdsApart'
    <2>1. /\ step[c] = "idle" /\ UNCHANGED <<audit, outbox>>
          /\ r.rid \notin issued /\ issued' = issued \union {r.rid}
          /\ request' = [request EXCEPT ![c] = r]
          /\ step' = [step EXCEPT ![c] = IF r.key = NoKey THEN "write" ELSE "begin"]
      BY <1>1 DEF Submit, dbVars
    <2>2. /\ request'[c] = r
          /\ \A d \in Clients \ {c} : step'[d] = step[d] /\ request'[d] = request[d]
      BY <2>1 DEF Typed
    <2>3. \A d \in Clients : step'[d] # "idle" => request'[d].rid \in issued'
      BY <2>1, <2>2 DEF IdsApart
    <2>4. \A d \in Clients : step'[d] # "idle" => \A e \in outbox' : e.id.rid # request'[d].rid
      BY <2>1, <2>2 DEF IdsApart
    <2>5. \A d \in Clients : step'[d] # "idle" =>
             \A f \in Clients \ {d} : step'[f] # "idle" => request'[f].rid # request'[d].rid
      BY <2>1, <2>2 DEF IdsApart
    <2> QED
      BY <2>1, <2>3, <2>4, <2>5 DEF IdsApart, EveryChangeAnnounced
  <1>2. ASSUME NEW c \in Clients, BeginFresh(c) \/ WriteState(c) PROVE IdsApart'
    <2>1. /\ UNCHANGED <<audit, outbox, issued, request>>
          /\ \A d \in Clients : step'[d] # "idle" => step[d] # "idle"
      BY <1>2 DEF BeginFresh, WriteState, dbVars, Typed
    <2> QED
      BY <2>1 DEF IdsApart, EveryChangeAnnounced
  <1>3. ASSUME NEW c \in Clients, NEW a, Finish(c, a), UNCHANGED dbVars PROVE IdsApart'
    BY <1>3, IdsLeave
  <1>4. ASSUME NEW c \in Clients, Commit(c) PROVE IdsApart'
    BY <1>4, IdsCommitted
  <1>5. CASE UNCHANGED <<audit, outbox, issued, request, step>>
    BY <1>5 DEF IdsApart, EveryChangeAnnounced
  <1> QED
    BY <1>1, <1>2, <1>3, <1>4, <1>5
       DEF MutationNext, Transaction, Replay, Conflict, PreconditionFailed, Abort, Expire, txVars, mutationVars

\* When no request id is used twice, every committed change of governance state
\* has an outbox event of its own, for any number of clients and retries.
THEOREM FreshIdsAnnounceAll ==
    ASSUME FreshIds
    PROVE  MutationSpec => []EveryChangeAnnounced
  <1>1. MutationInit => IdsApart
    BY FS_EmptySet DEF MutationInit, IdsApart, EveryChangeAnnounced
  <1>2. IInv /\ IdsApart /\ [MutationNext]_mutationVars => IdsApart'
    BY IdsStep DEF IInv
  <1>3. IdsApart => EveryChangeAnnounced
    BY DEF IdsApart
  <1> QED
    BY <1>1, <1>2, <1>3, Invariance, PTL DEF MutationSpec

-----------------------------------------------------------------------------
(* The event outbox relay *)

\* A supervisor that polls has not reached its idle limit.
PollingIsNotIdle == \A w \in Workers : pc[w] = "poll" => idle[w] < IdleLimit

\* What a pass counts as a success is held by the broker.
SuccessesAreDelivered == \A w \in Workers : successes[w] \subseteq delivered

\* Workers only ever hold rows that were inserted.
HeldIsRecorded == \A w \in Workers : \A e \in Held(w) : status[e] # "absent"

\* The broker only holds events whose row was inserted.
DeliveredIsRecorded == \A e \in delivered : status[e] # "absent"

\* The inductive invariant behind PublishedIsDelivered and the refinement.
SafetyInv ==
    /\ TypeOK
    /\ PollingIsNotIdle
    /\ SuccessesAreDelivered
    /\ HeldIsRecorded
    /\ DeliveredIsRecorded
    /\ PublishedIsDelivered

-----------------------------------------------------------------------------
\* The constants, spelled out.
LEMMA Parameters ==
    /\ BatchSize \in Nat \ {0}
    /\ MaxAttempts \in Nat \ {0}
    /\ ClaimTTL \in Nat \ {0}
    /\ IdleLimit \in Nat \ {0}
    /\ Prompt \in BOOLEAN
    /\ MaxCrashes \in Nat
    /\ MaxRemediations \in Nat
BY ParametersAssumption DEF RuntimeConfig

\* The initial table is empty and every worker is about to poll.
LEMMA InitSafety == Init => SafetyInv
BY Parameters
   DEF Init, SafetyInv, TypeOK, Statuses, Locations, PollingIsNotIdle,
       SuccessesAreDelivered, HeldIsRecorded, Held, DeliveredIsRecorded,
       PublishedIsDelivered

\* The claim query returns rows of the table that were inserted.
LEMMA NextRowsRecorded ==
    ASSUME TypeOK
    PROVE  /\ NextRows \subseteq Events
           /\ \A e \in NextRows : status[e] \in {"pending", "publishing", "failed"}
BY DEF NextRows, Claimable, TypeOK, Statuses

\* Counting an attempt stays within the limit of attempts.
LEMMA CountAttemptBound ==
    ASSUME NEW n \in 0..MaxAttempts
    PROVE  CountAttempt(n) \in 0..MaxAttempts /\ CountAttempt(n) >= n
BY Parameters DEF CountAttempt

\* Claiming keeps the invariant: the claimed rows were inserted, and no row
\* becomes "published".
LEMMA ClaimSafety ==
    ASSUME SafetyInv, NEW w \in Workers, Claim(w)
    PROVE  SafetyInv'
<1>0. TypeOK BY DEF SafetyInv
<1>1. /\ NextRows \subseteq Events
      /\ \A e \in NextRows : status[e] \in {"pending", "publishing", "failed"}
  BY <1>0, NextRowsRecorded
<1>2. TypeOK'
  <2>1. attempts' \in [Events -> 0..MaxAttempts]
    BY <1>0, CountAttemptBound DEF Claim, TypeOK
  <2>2. QED
    BY <1>0, <1>1, <2>1, Parameters DEF Claim, TypeOK, Statuses, Locations
<1>3. \A e \in Events : /\ status'[e] = "absent" => status[e] = "absent"
                        /\ status'[e] = "published" => status[e] = "published"
  BY <1>0 DEF Claim, TypeOK
<1>4. PollingIsNotIdle'
  BY <1>0 DEF SafetyInv, PollingIsNotIdle, Claim, TypeOK
<1>5. SuccessesAreDelivered' /\ DeliveredIsRecorded' /\ PublishedIsDelivered'
  BY <1>0, <1>3 DEF SafetyInv, SuccessesAreDelivered, DeliveredIsRecorded,
     PublishedIsDelivered, Claim, TypeOK
<1>6. HeldIsRecorded'
  <2> SUFFICES ASSUME NEW v \in Workers, NEW e \in Held(v)'
               PROVE  status'[e] # "absent"
    BY DEF HeldIsRecorded
  <2>1. e \in Held(v) \/ e \in NextRows
    BY <1>0 DEF Held, Claim, TypeOK
  <2>2. e \in Events
    BY <1>0, <1>1, <2>1 DEF Held, TypeOK
  <2>3. QED
    BY <1>0, <1>1, <1>3, <2>1, <2>2 DEF SafetyInv, HeldIsRecorded, Claim
<1>7. QED
  BY <1>2, <1>4, <1>5, <1>6 DEF SafetyInv

\* Publishing keeps the invariant: an accepted row is delivered and a claimed
\* row was inserted; the table is untouched.
LEMMA PublishSafety ==
    ASSUME SafetyInv, NEW w \in Workers, NEW e \in Events,
           PublishAccepted(w, e) \/ PublishFailed(w, e)
    PROVE  SafetyInv'
<1>0. /\ TypeOK /\ SuccessesAreDelivered /\ HeldIsRecorded
      /\ PollingIsNotIdle /\ DeliveredIsRecorded /\ PublishedIsDelivered
  BY DEF SafetyInv
<1>1. /\ e \in todo[w]
      /\ todo' = [todo EXCEPT ![w] = @ \ {e}]
      /\ pc' = [pc EXCEPT ![w] = IF todo[w] = {e} THEN "markPublished" ELSE "publish"]
      /\ delivered \subseteq delivered' /\ delivered' \subseteq delivered \union {e}
      /\ successes' \in {successes, [successes EXCEPT ![w] = @ \union {e}]}
      /\ failures' \in {failures, [failures EXCEPT ![w] = @ \union {e}]}
      /\ UNCHANGED <<status, attempts, lease, idle, crashes, remediations>>
  BY DEF PublishAccepted, PublishFailed, Recorded, rowVars
<1>2. TypeOK'
  BY <1>0, <1>1 DEF TypeOK, Locations
<1>3. PollingIsNotIdle'
  BY <1>0, <1>1 DEF PollingIsNotIdle, TypeOK
<1>4. SuccessesAreDelivered'
  <2>1. CASE PublishAccepted(w, e)
    BY <1>0, <1>1, <2>1 DEF SuccessesAreDelivered, PublishAccepted, TypeOK
  <2>2. CASE PublishFailed(w, e)
    BY <1>0, <1>1, <2>2 DEF SuccessesAreDelivered, PublishFailed, TypeOK
  <2>3. QED
    BY <2>1, <2>2
<1>5. HeldIsRecorded'
  <2> SUFFICES ASSUME NEW v \in Workers, NEW d \in Held(v)'
               PROVE  status'[d] # "absent"
    BY DEF HeldIsRecorded
  <2>1. d \in Held(v) \/ d = e
    BY <1>0, <1>1 DEF Held, TypeOK
  <2>2. e \in Held(w)
    BY <1>1 DEF Held
  <2>3. QED
    BY <1>0, <1>1, <2>1, <2>2 DEF HeldIsRecorded
<1>6. DeliveredIsRecorded'
  <2>1. status[e] # "absent"
    BY <1>0, <1>1 DEF HeldIsRecorded, Held
  <2>2. QED
    BY <1>0, <1>1, <2>1 DEF DeliveredIsRecorded
<1>7. PublishedIsDelivered'
  BY <1>0, <1>1 DEF PublishedIsDelivered
<1>8. QED
  BY <1>2, <1>3, <1>4, <1>5, <1>6, <1>7 DEF SafetyInv

\* Marking keeps the invariant: what is marked "published" are successes, and
\* those are delivered.
LEMMA MarkSafety ==
    ASSUME SafetyInv, NEW w \in Workers, MarkPublished(w) \/ MarkFailed(w)
    PROVE  SafetyInv'
<1>0. /\ TypeOK /\ SuccessesAreDelivered /\ HeldIsRecorded
      /\ PollingIsNotIdle /\ DeliveredIsRecorded /\ PublishedIsDelivered
  BY DEF SafetyInv
<1>1. TypeOK'
  BY <1>0, Parameters
     DEF TypeOK, MarkPublished, MarkFailed, SetStatus, Statuses, Locations
<1>2. PollingIsNotIdle'
  BY <1>0, Parameters
     DEF PollingIsNotIdle, TypeOK, MarkPublished, MarkFailed
<1>3. \A e \in Events : status'[e] = "absent" => status[e] = "absent"
  BY <1>0 DEF TypeOK, MarkPublished, MarkFailed, SetStatus
<1>4. \A e \in Events : status'[e] = "published" =>
                            status[e] = "published" \/ e \in successes[w]
  BY <1>0 DEF TypeOK, MarkPublished, MarkFailed, SetStatus
<1>5. \A v \in Workers : /\ todo'[v] = todo[v]
                         /\ successes'[v] \subseteq successes[v]
                         /\ failures'[v] \subseteq failures[v]
  BY <1>0 DEF TypeOK, MarkPublished, MarkFailed
<1>6. delivered' = delivered
  BY DEF MarkPublished, MarkFailed
<1>7. SuccessesAreDelivered' /\ PublishedIsDelivered'
  BY <1>0, <1>4, <1>5, <1>6 DEF SuccessesAreDelivered, PublishedIsDelivered
<1>8. HeldIsRecorded' /\ DeliveredIsRecorded'
  BY <1>0, <1>3, <1>5, <1>6 DEF HeldIsRecorded, DeliveredIsRecorded, Held, TypeOK
<1>9. QED
  BY <1>1, <1>2, <1>7, <1>8 DEF SafetyInv

\* Stopping, crashing, restarting and idling leave the table and the broker
\* alone and can only make a worker forget what it holds.
LEMMA LifecycleSafety ==
    ASSUME SafetyInv, NEW w \in Workers,
           ClaimNothing(w) \/ Restart(w) \/ Shutdown(w) \/ Crash(w)
    PROVE  SafetyInv'
<1>0. /\ TypeOK /\ SuccessesAreDelivered /\ HeldIsRecorded
      /\ PollingIsNotIdle /\ DeliveredIsRecorded /\ PublishedIsDelivered
  BY DEF SafetyInv
<1>1. UNCHANGED <<status, attempts, lease, delivered, remediations>>
  BY DEF ClaimNothing, Restart, Shutdown, Crash, rowVars
<1>2. \A v \in Workers : /\ todo'[v] \subseteq todo[v]
                         /\ successes'[v] \subseteq successes[v]
                         /\ failures'[v] \subseteq failures[v]
  BY <1>0 DEF TypeOK, ClaimNothing, Restart, Shutdown, Crash, Halt
<1>3. TypeOK' /\ PollingIsNotIdle'
  <2>1. CASE ClaimNothing(w)
    BY <1>0, <1>1, <2>1, Parameters
       DEF TypeOK, PollingIsNotIdle, ClaimNothing, Locations
  <2>2. CASE Restart(w)
    BY <1>0, <1>1, <2>2, Parameters
       DEF TypeOK, PollingIsNotIdle, Restart, Locations
  <2>3. CASE Shutdown(w) \/ Crash(w)
    BY <1>0, <1>1, <2>3, Parameters
       DEF TypeOK, PollingIsNotIdle, Shutdown, Crash, Halt, Locations
  <2>4. QED
    BY <2>1, <2>2, <2>3
<1>4. SuccessesAreDelivered' /\ PublishedIsDelivered' /\ DeliveredIsRecorded'
  BY <1>0, <1>1, <1>2 DEF SuccessesAreDelivered, PublishedIsDelivered, DeliveredIsRecorded
<1>5. HeldIsRecorded'
  BY <1>0, <1>1, <1>2 DEF HeldIsRecorded, Held
<1>6. QED
  BY <1>3, <1>4, <1>5 DEF SafetyInv

\* Inserts, remediations and the clock never mark a row published or take one
\* out of the table.
LEMMA TableSafety ==
    ASSUME SafetyInv,
           Tick \/ (\E e \in Events : Enqueue(e) \/ Retry(e) \/ Quarantine(e))
    PROVE  SafetyInv'
<1>0. /\ TypeOK /\ SuccessesAreDelivered /\ HeldIsRecorded
      /\ PollingIsNotIdle /\ DeliveredIsRecorded /\ PublishedIsDelivered
  BY DEF SafetyInv
<1>1. UNCHANGED <<pc, todo, successes, failures, idle, delivered, crashes>>
  BY DEF Tick, Enqueue, Retry, Quarantine, passVars
<1>2. \A e \in Events : /\ status'[e] = "absent" => status[e] = "absent"
                        /\ status'[e] = "published" => status[e] = "published"
  BY <1>0 DEF TypeOK, Tick, Enqueue, Retry, Quarantine
<1>3. TypeOK'
  <2>1. CASE Tick
    BY <1>0, <1>1, <2>1, Parameters DEF TypeOK, Tick
  <2>2. CASE \E e \in Events : Enqueue(e) \/ Retry(e) \/ Quarantine(e)
    BY <1>0, <1>1, <2>2, Parameters
       DEF TypeOK, Enqueue, Retry, Quarantine, Statuses
  <2>3. QED
    BY <2>1, <2>2
<1>4. PollingIsNotIdle' /\ SuccessesAreDelivered'
  BY <1>0, <1>1 DEF PollingIsNotIdle, SuccessesAreDelivered
<1>5. HeldIsRecorded' /\ DeliveredIsRecorded' /\ PublishedIsDelivered'
  BY <1>0, <1>1, <1>2 DEF HeldIsRecorded, Held, DeliveredIsRecorded,
     PublishedIsDelivered, TypeOK
<1>6. QED
  BY <1>3, <1>4, <1>5 DEF SafetyInv

\* SafetyInv is inductive: one case per operation.
LEMMA NextSafety == SafetyInv /\ [Next]_vars => SafetyInv'
<1> SUFFICES ASSUME SafetyInv, [Next]_vars
             PROVE  SafetyInv'
  OBVIOUS
<1>1. CASE UNCHANGED vars
  BY <1>1 DEF vars, SafetyInv, TypeOK, PollingIsNotIdle, SuccessesAreDelivered,
     HeldIsRecorded, Held, DeliveredIsRecorded, PublishedIsDelivered
<1>2. CASE Tick \/ \E e \in Events : Enqueue(e) \/ Retry(e) \/ Quarantine(e)
  BY <1>2, TableSafety
<1>3. ASSUME NEW w \in Workers, WorkerStep(w) \/ Shutdown(w) \/ Crash(w)
      PROVE  SafetyInv'
  BY <1>3, ClaimSafety, PublishSafety, MarkSafety, LifecycleSafety DEF WorkerStep
<1>4. QED
  BY <1>1, <1>2, <1>3 DEF Next

\* SafetyInv holds in every reachable state.
LEMMA SafetyInvariant == Spec => []SafetyInv
BY InitSafety, NextSafety, PTL DEF Spec

-----------------------------------------------------------------------------
\* Type correctness of the outbox: statuses, attempt counts, leases and the
\* workers' passes stay in their domains (makeEventOutboxWorker).
THEOREM TypeCorrect == Spec => []TypeOK
<1>1. SafetyInv => TypeOK
  BY DEF SafetyInv
<1>2. QED
  BY <1>1, SafetyInvariant, PTL

\* Whatever workers crash, stall or are restarted, a row marked "published"
\* (markPublished) belongs to an event that JetStream holds.
THEOREM PublishedDelivered == Spec => []PublishedIsDelivered
<1>1. SafetyInv => PublishedIsDelivered
  BY DEF SafetyInv
<1>2. QED
  BY <1>1, SafetyInvariant, PTL

\* A parked row changes its status only by a remediation or by a worker that had it
\* in its hands when it was parked, for any number of events and workers: the claim
\* query leaves a quarantined row alone and a failed one without attempts, and the two
\* updates of a pass name the rows of that pass only (makePostgresEventOutboxWorkerStore).
THEOREM ParkedAlwaysLeftAlone == Spec => ParkedRowIsLeftAlone
<1> DEFINE LeftAlone == \A e \in Events :
                            Parked(e) /\ status'[e] # status[e]
                                => \/ remediations' # remediations
                                   \/ \E w \in Workers : e \in Held(w)
<1>1. ASSUME SafetyInv, [Next]_vars PROVE LeftAlone
  <2> SUFFICES ASSUME NEW e \in Events, Parked(e), status'[e] # status[e],
                      remediations' = remediations
               PROVE  \E w \in Workers : e \in Held(w)
    OBVIOUS
  <2>1. /\ status \in [Events -> Statuses] /\ remediations \in Nat
        /\ attempts \in [Events -> 0 .. MaxAttempts] /\ MaxAttempts \in Nat
    BY <1>1, Parameters DEF SafetyInv, TypeOK
  <2>2. ~Claimable(e) /\ status[e] # "absent"
    BY <2>1 DEF Parked, Claimable
  <2>3. ASSUME NEW w \in Workers, Claim(w) PROVE FALSE
    BY <2>2, <2>3 DEF Claim, NextRows
  <2>4. ASSUME NEW w \in Workers, MarkPublished(w) PROVE e \in Held(w)
    BY <2>4 DEF MarkPublished, SetStatus, Held
  <2>5. ASSUME NEW w \in Workers, MarkFailed(w) PROVE e \in Held(w)
    BY <2>5 DEF MarkFailed, SetStatus, Held
  <2>6. ASSUME NEW w \in Workers, NEW d \in Events, PublishAccepted(w, d) \/ PublishFailed(w, d)
        PROVE  FALSE
    BY <2>6 DEF PublishAccepted, PublishFailed, Recorded, rowVars
  <2>7. ASSUME NEW w \in Workers, ClaimNothing(w) \/ Restart(w) \/ Shutdown(w) \/ Crash(w)
        PROVE  FALSE
    BY <2>7 DEF ClaimNothing, Restart, Shutdown, Crash, rowVars
  <2>8. ASSUME NEW d \in Events, Enqueue(d) PROVE FALSE
    BY <2>1, <2>2, <2>8 DEF Enqueue
  <2>9. ASSUME NEW d \in Events, Retry(d) \/ Quarantine(d) PROVE FALSE
    BY <2>1, <2>9 DEF Retry, Quarantine
  <2>10. ~Tick /\ ~(UNCHANGED vars) BY DEF Tick, vars
  <2> QED
    BY <1>1, <2>3, <2>4, <2>5, <2>6, <2>7, <2>8, <2>9, <2>10, Zenon DEF Next, WorkerStep
<1>2. Spec => [][LeftAlone]_vars
  <2>1. SafetyInv /\ [Next]_vars => [LeftAlone]_vars BY <1>1
  <2> QED BY <2>1, SafetyInvariant, PTL DEF Spec
<1> QED BY <1>2 DEF ParkedRowIsLeftAlone

-----------------------------------------------------------------------------
\* Every step of the outbox is a step of the relay or leaves it unchanged.
LEMMA StepRefinement ==
    ASSUME SafetyInv, SafetyInv', [Next]_vars
    PROVE  [Relay!Next]_Relay!vars
<1>0. TypeOK /\ HeldIsRecorded /\ PublishedIsDelivered /\ (PublishedIsDelivered)' /\ TypeOK'
  BY DEF SafetyInv
<1> DEFINE recorded == {e \in Events : status[e] # "absent"}
           confirmed == {e \in Events : status[e] = "published"}
<1>1. ASSUME recorded' = recorded, delivered' = delivered
      PROVE  [Relay!Next]_Relay!vars
  <2>1. PICK S \in SUBSET Events : S = confirmed'
    OBVIOUS
  <2>2. S \subseteq delivered
    BY <1>0, <1>1, <2>1 DEF PublishedIsDelivered
  <2>3. Relay!Report(S)
    BY <1>1, <2>1, <2>2 DEF Relay!Report
  <2>4. QED
    BY <2>3 DEF Relay!Next
<1>2. ASSUME NEW e \in Events, Enqueue(e)
      PROVE  [Relay!Next]_Relay!vars
  <2>1. recorded' = recorded \union {e} /\ confirmed' = confirmed /\ delivered' = delivered
    BY <1>0, <1>2 DEF Enqueue, TypeOK
  <2>2. QED
    BY <2>1 DEF Relay!Next, Relay!Record
<1>3. ASSUME NEW w \in Workers, NEW e \in Events,
             PublishAccepted(w, e) \/ PublishFailed(w, e)
      PROVE  [Relay!Next]_Relay!vars
  <2>1. recorded' = recorded /\ confirmed' = confirmed
    BY <1>3 DEF PublishAccepted, PublishFailed, Recorded, rowVars
  <2>2. delivered' = delivered \/ delivered' = delivered \union {e}
    BY <1>3, Zenon DEF PublishAccepted, PublishFailed
  <2>3. e \in recorded
    BY <1>0, <1>3 DEF PublishAccepted, PublishFailed, HeldIsRecorded, Held
  <2>4. CASE delivered' = delivered \union {e}
    BY <2>1, <2>3, <2>4 DEF Relay!Next, Relay!Deliver
  <2>5. QED
    BY <1>1, <2>1, <2>2, <2>4
<1>4. ASSUME NEW w \in Workers,
             \/ Claim(w) \/ ClaimNothing(w) \/ MarkPublished(w) \/ MarkFailed(w)
             \/ Restart(w) \/ Shutdown(w) \/ Crash(w)
      PROVE  [Relay!Next]_Relay!vars
  <2>1. delivered' = delivered
    BY <1>4 DEF Claim, ClaimNothing, MarkPublished, MarkFailed, Restart, Shutdown, Crash
  <2>2. recorded' = recorded
    <3>1. CASE Claim(w)
      BY <1>0, <3>1, NextRowsRecorded DEF Claim, TypeOK
    <3>2. CASE MarkPublished(w) \/ MarkFailed(w)
      BY <1>0, <3>2 DEF MarkPublished, MarkFailed, SetStatus, HeldIsRecorded, Held, TypeOK
    <3>3. CASE ClaimNothing(w) \/ Restart(w) \/ Shutdown(w) \/ Crash(w)
      BY <3>3 DEF ClaimNothing, Restart, Shutdown, Crash, rowVars
    <3>4. QED
      BY <1>4, <3>1, <3>2, <3>3
  <2>3. QED
    BY <1>1, <2>1, <2>2
<1>5. ASSUME Tick \/ \E e \in Events : Retry(e) \/ Quarantine(e)
      PROVE  [Relay!Next]_Relay!vars
  <2>1. delivered' = delivered
    BY <1>5 DEF Tick, Retry, Quarantine
  <2>2. recorded' = recorded
    BY <1>0, <1>5 DEF Tick, Retry, Quarantine, Remediable, TypeOK
  <2>3. QED
    BY <1>1, <2>1, <2>2
<1>6. CASE UNCHANGED vars
  BY <1>6, <1>1 DEF vars
<1>7. QED
  BY <1>2, <1>3, <1>4, <1>5, <1>6 DEF Next, WorkerStep

\* The outbox implements EventRelay: only committed events reach the broker,
\* only delivered events are reported as published (the refinement mapping is
\* the status column).
THEOREM OutboxImplementsRelay == Spec => ImplementsRelay
<1>1. Init => Relay!Init
  BY DEF Init, Relay!Init
<1>2. SafetyInv /\ SafetyInv' /\ [Next]_vars => [Relay!Next]_Relay!vars
  BY StepRefinement
<1>3. QED
  BY <1>1, <1>2, SafetyInvariant, PTL DEF Spec, ImplementsRelay, Relay!Spec

-----------------------------------------------------------------------------
\* The batch of a pass is split: each row is still to do, a success or a
\* failure, and the parts are empty outside the steps that use them.
BatchIsSplit ==
    \A w \in Workers :
        /\ todo[w] \intersect successes[w] = {}
        /\ todo[w] \intersect failures[w] = {}
        /\ successes[w] \intersect failures[w] = {}
        /\ pc[w] \in {"poll", "stopped"} => Held(w) = {}
        /\ pc[w] = "markPublished" => todo[w] = {}
        /\ pc[w] = "markFailed" => todo[w] = {} /\ successes[w] = {}

\* While a pass holds a row the row is claimed and its lease is running.
HeldUnderLease ==
    \A w \in Workers : \A e \in Held(w) : status[e] = "publishing" /\ lease[e] > 0

\* The inductive invariant behind exclusive claims.
LeaseInv ==
    /\ TypeOK
    /\ BatchIsSplit
    /\ HeldUnderLease
    /\ ClaimIsExclusive

\* No row is claimable, hence claimed, while a pass holds it.
LEMMA ClaimLease ==
    ASSUME LeaseInv, TypeOK', NEW w \in Workers, Claim(w)
    PROVE  LeaseInv'
<1>0. TypeOK /\ BatchIsSplit /\ HeldUnderLease /\ ClaimIsExclusive
  BY DEF LeaseInv
<1>1. \A v \in Workers : \A e \in Held(v) : e \notin NextRows
  BY <1>0 DEF HeldUnderLease, NextRows, Claimable, TypeOK
<1>2. /\ Held(w) = {} /\ todo'[w] = NextRows
      /\ successes' = successes /\ failures' = failures
      /\ successes[w] = {} /\ failures[w] = {}
      /\ pc'[w] = "publish"
  BY <1>0 DEF Claim, BatchIsSplit, Held, TypeOK
<1>3. \A v \in Workers : v # w => Held(v)' = Held(v) /\ todo'[v] = todo[v] /\ pc'[v] = pc[v]
  BY <1>0, <1>2 DEF Claim, Held, TypeOK
<1>4. Held(w)' = NextRows
  BY <1>2 DEF Held
<1>5. BatchIsSplit'
  BY <1>0, <1>2, <1>3, <1>4 DEF BatchIsSplit
<1>6. HeldUnderLease'
  <2> SUFFICES ASSUME NEW v \in Workers, NEW e \in Held(v)'
               PROVE  status'[e] = "publishing" /\ lease'[e] > 0
    BY DEF HeldUnderLease
  <2>1. CASE v = w
    BY <1>0, <1>4, <2>1, NextRowsRecorded, Parameters DEF Claim
  <2>2. CASE v # w
    BY <1>0, <1>1, <1>3, <2>2 DEF Claim, HeldUnderLease, Held, TypeOK
  <2>3. QED
    BY <2>1, <2>2
<1>7. ClaimIsExclusive'
  BY <1>0, <1>1, <1>3, <1>4 DEF ClaimIsExclusive
<1>8. QED
  BY <1>5, <1>6, <1>7 DEF LeaseInv

\* The other steps of a worker change the rows it holds alone, or drop them.
LEMMA PassLease ==
    ASSUME LeaseInv, TypeOK', NEW w \in Workers,
           \/ \E e \in Events : PublishAccepted(w, e) \/ PublishFailed(w, e)
           \/ MarkPublished(w) \/ MarkFailed(w)
    PROVE  LeaseInv'
<1>0. TypeOK /\ BatchIsSplit /\ HeldUnderLease /\ ClaimIsExclusive
  BY DEF LeaseInv
<1>1. BatchIsSplit'
  <2>1. CASE \E e \in Events : PublishAccepted(w, e) \/ PublishFailed(w, e)
    BY <1>0, <2>1 DEF PublishAccepted, PublishFailed, Recorded, BatchIsSplit, Held, TypeOK
  <2>2. CASE MarkPublished(w) \/ MarkFailed(w)
    BY <1>0, <2>2 DEF MarkPublished, MarkFailed, BatchIsSplit, Held, TypeOK
  <2>3. QED
    BY <2>1, <2>2
<1>2. Held(w)' \subseteq Held(w) /\ \A v \in Workers : v # w => Held(v)' = Held(v)
  BY <1>0 DEF PublishAccepted, PublishFailed, Recorded, MarkPublished, MarkFailed, Held, TypeOK
<1>3. \A v \in Workers : \A e \in Held(v)' : status'[e] = status[e] /\ lease'[e] = lease[e]
  <2>1. CASE \E e \in Events : PublishAccepted(w, e) \/ PublishFailed(w, e)
    BY <2>1 DEF PublishAccepted, PublishFailed, Recorded, rowVars
  <2>2. CASE MarkPublished(w)
    <3>1. \A v \in Workers : Held(v)' \intersect successes[w] = {}
      <4>1. Held(w)' \intersect successes[w] = {}
        BY <1>0, <2>2 DEF MarkPublished, Held, BatchIsSplit, TypeOK
      <4>2. QED
        BY <1>0, <1>2, <4>1 DEF ClaimIsExclusive, Held
    <3>2. \A v \in Workers : Held(v)' \subseteq Events
      BY <1>0, <1>2 DEF Held, TypeOK
    <3>3. QED
      BY <1>0, <2>2, <3>1, <3>2 DEF MarkPublished, SetStatus, TypeOK
  <2>3. CASE MarkFailed(w)
    <3>1. \A v \in Workers : Held(v)' \intersect failures[w] = {}
      <4>1. Held(w)' \intersect failures[w] = {}
        BY <1>0, <2>3 DEF MarkFailed, Held, BatchIsSplit, TypeOK
      <4>2. QED
        BY <1>0, <1>2, <4>1 DEF ClaimIsExclusive, Held
    <3>2. \A v \in Workers : Held(v)' \subseteq Events
      BY <1>0, <1>2 DEF Held, TypeOK
    <3>3. QED
      BY <1>0, <2>3, <3>1, <3>2 DEF MarkFailed, SetStatus, TypeOK
  <2>4. QED
    BY <2>1, <2>2, <2>3
<1>4. HeldUnderLease'
  BY <1>0, <1>2, <1>3 DEF HeldUnderLease
<1>5. ClaimIsExclusive'
  BY <1>0, <1>2 DEF ClaimIsExclusive
<1>6. QED
  BY <1>1, <1>4, <1>5 DEF LeaseInv

\* Stopping, crashing, restarting and idling at most drop the rows held.
LEMMA LifecycleLease ==
    ASSUME LeaseInv, TypeOK', NEW w \in Workers,
           ClaimNothing(w) \/ Restart(w) \/ Shutdown(w) \/ Crash(w)
    PROVE  LeaseInv'
<1>0. TypeOK /\ BatchIsSplit /\ HeldUnderLease /\ ClaimIsExclusive
  BY DEF LeaseInv
<1>1. \A v \in Workers : Held(v)' = Held(v) \/ Held(v)' = {}
  BY <1>0 DEF ClaimNothing, Restart, Shutdown, Crash, Halt, Held, TypeOK
<1>2. BatchIsSplit'
  <2>1. CASE ClaimNothing(w) \/ Restart(w)
    BY <1>0, <2>1 DEF ClaimNothing, Restart, BatchIsSplit, Held, TypeOK
  <2>2. CASE Shutdown(w) \/ Crash(w)
    BY <1>0, <2>2 DEF Shutdown, Crash, Halt, BatchIsSplit, Held, TypeOK
  <2>3. QED
    BY <2>1, <2>2
<1>3. UNCHANGED <<status, lease>>
  BY DEF ClaimNothing, Restart, Shutdown, Crash, rowVars
<1>4. HeldUnderLease' /\ ClaimIsExclusive'
  BY <1>0, <1>1, <1>3 DEF HeldUnderLease, ClaimIsExclusive
<1>5. QED
  BY <1>2, <1>4 DEF LeaseInv

\* Without remediations, and with the clock waiting for running passes, the
\* environment does not touch a row that is held.
LEMMA TableLease ==
    ASSUME LeaseInv, TypeOK', Prompt, MaxRemediations = 0,
           Tick \/ (\E e \in Events : Enqueue(e) \/ Retry(e) \/ Quarantine(e))
    PROVE  LeaseInv'
<1>0. TypeOK /\ BatchIsSplit /\ HeldUnderLease /\ ClaimIsExclusive
  BY DEF LeaseInv
<1>1. UNCHANGED <<pc, todo, successes, failures>>
  BY DEF Tick, Enqueue, Retry, Quarantine, passVars
<1>2. BatchIsSplit' /\ ClaimIsExclusive'
  BY <1>0, <1>1 DEF BatchIsSplit, ClaimIsExclusive, Held
<1>3. HeldUnderLease'
  <2>1. CASE Tick
    BY <1>0, <1>1, <2>1 DEF Tick, HeldUnderLease, Held, TypeOK
  <2>2. CASE \E e \in Events : Enqueue(e)
    BY <1>0, <1>1, <2>2 DEF Enqueue, HeldUnderLease, Held, TypeOK
  <2>3. CASE \E e \in Events : Retry(e) \/ Quarantine(e)
    BY <1>0, <2>3 DEF Retry, Quarantine, TypeOK
  <2>4. QED
    BY <2>1, <2>2, <2>3
<1>4. QED
  BY <1>2, <1>3 DEF LeaseInv

\* LeaseInv is inductive under the two assumptions.
LEMMA NextLease ==
    ASSUME Prompt, MaxRemediations = 0
    PROVE  LeaseInv /\ TypeOK' /\ [Next]_vars => LeaseInv'
<1> SUFFICES ASSUME LeaseInv, TypeOK', [Next]_vars
             PROVE  LeaseInv'
  OBVIOUS
<1>1. CASE UNCHANGED vars
  BY <1>1 DEF vars, LeaseInv, TypeOK, BatchIsSplit, HeldUnderLease, ClaimIsExclusive, Held
<1>2. CASE Tick \/ \E e \in Events : Enqueue(e) \/ Retry(e) \/ Quarantine(e)
  BY <1>2, TableLease
<1>3. ASSUME NEW w \in Workers, WorkerStep(w) \/ Shutdown(w) \/ Crash(w)
      PROVE  LeaseInv'
  BY <1>3, ClaimLease, PassLease, LifecycleLease DEF WorkerStep
<1>4. QED
  BY <1>1, <1>2, <1>3 DEF Next

\* If no pass outlives its lease and nobody remediates rows, claims are
\* exclusive: "for update skip locked" and claim_expires_at keep two workers
\* from ever holding the same row.
THEOREM PromptClaimsExclusive ==
    ASSUME Prompt, MaxRemediations = 0
    PROVE  Spec => []ClaimIsExclusive
<1>1. Init => LeaseInv
  <2>1. Init => TypeOK
    BY InitSafety DEF SafetyInv
  <2>2. QED
    BY <2>1 DEF Init, LeaseInv, BatchIsSplit, HeldUnderLease, ClaimIsExclusive, Held
<1>2. LeaseInv /\ TypeOK' /\ [Next]_vars => LeaseInv'
  BY NextLease
<1>3. LeaseInv => ClaimIsExclusive
  BY DEF LeaseInv
<1>4. QED
  BY <1>1, <1>2, <1>3, TypeCorrect, PTL DEF Spec

\* Under the same two assumptions a row that was marked published stays so:
\* no later mark_failed reaches it. Without either of them TLC finds a stale
\* worker overwriting the row.
THEOREM PromptPublishedFinal ==
    ASSUME Prompt, MaxRemediations = 0
    PROVE  Spec => PublishedIsFinal
<1>1. Init => LeaseInv
  <2>1. Init => TypeOK
    BY InitSafety DEF SafetyInv
  <2>2. QED
    BY <2>1 DEF Init, LeaseInv, BatchIsSplit, HeldUnderLease, ClaimIsExclusive, Held
<1>2. LeaseInv /\ TypeOK' /\ [Next]_vars => LeaseInv'
  BY NextLease
<1>3. LeaseInv /\ [Next]_vars =>
        [\A e \in Events : status[e] = "published" => status'[e] = "published"]_vars
  <2> SUFFICES ASSUME LeaseInv, Next, NEW e \in Events, status[e] = "published"
               PROVE  status'[e] = "published"
    OBVIOUS
  <2>0. TypeOK /\ HeldUnderLease
    BY DEF LeaseInv
  <2>1. CASE Tick \/ \E d \in Events : Enqueue(d) \/ Retry(d) \/ Quarantine(d)
    BY <2>0, <2>1 DEF Tick, Enqueue, Retry, Quarantine, Remediable, TypeOK
  <2>2. ASSUME NEW w \in Workers, Claim(w)
        PROVE  status'[e] = "published"
    BY <2>0, <2>2, NextRowsRecorded DEF Claim, TypeOK
  <2>3. ASSUME NEW w \in Workers, MarkPublished(w) \/ MarkFailed(w)
        PROVE  status'[e] = "published"
    BY <2>0, <2>3 DEF MarkPublished, MarkFailed, SetStatus, HeldUnderLease, Held, TypeOK
  <2>4. ASSUME NEW w \in Workers,
               \/ ClaimNothing(w) \/ Restart(w) \/ Shutdown(w) \/ Crash(w)
               \/ \E d \in Events : PublishAccepted(w, d) \/ PublishFailed(w, d)
        PROVE  status'[e] = "published"
    BY <2>4 DEF ClaimNothing, Restart, Shutdown, Crash, PublishAccepted, PublishFailed,
       Recorded, rowVars
  <2>5. QED
    BY <2>1, <2>2, <2>3, <2>4 DEF Next, WorkerStep
<1>4. QED
  BY <1>1, <1>2, <1>3, TypeCorrect, PTL DEF Spec, PublishedIsFinal
=============================================================================
