-------------------------- MODULE SubscribersProofs --------------------------
(***************************************************************************)
(* Proofs about the two subscribers of the network's streams.              *)
(*                                                                         *)
(* VerifierSync, for all publications, filters and bounds.                 *)
(*                                                                         *)
(* RuntimeObservations, for all events, allowlists and configured filters: *)
(* the allowlist of a worker's start covers the filter of its consumer, and*)
(* wildcards compose, because a well-formed subject ends with its version  *)
(* or with the wildcard of the rest.                                       *)
(***************************************************************************)
EXTENDS VerifierSync, RuntimeObservations, SequenceTheorems, TLAPS

Fixed == {"root", "authority", "issuer"}
Authorities == {"root", "authority"}

\* p is a revocation that removes the row.
Revokes(p) == p.kind = "revocation" /\ Sound(p) /\ ~p.active

\* The announcement of q is still ahead of the consumer in this pass, or was
\* given up.
Ahead(q) ==
    \/ q \in unannounced \/ q \in outbox
    \/ \E i \in DOMAIN stream :
          /\ stream[i] = q
          /\ i \in skipped \/ i > cursor \/ (i = cursor /\ pc # "synced")

\* The announcement of q comes after the message in work.
Later(q) ==
    \/ q \in unannounced \/ q \in outbox
    \/ \E i \in DOMAIN stream : stream[i] = q /\ i > cursor

\* The row's half of the authority context that manifests of the kind write.
Granted(kind) ==
    /\ row # NoRow
    /\ IF kind = "root" THEN row.rootOk ELSE row.authorityOk

\* A message that was delivered is there and one of the consumer's.
AtMessage ==
    pc # "idle" \/ deliveries > 0 => cursor <= Len(stream) /\ Subscribed(cursor)

\* A projection in the row points at a message of the stream.
PointsIntoStream ==
    row # NoRow => row.issuer <= Len(stream) /\ row.policy <= Len(stream)

OneBodyPerId ==
    \A p, q \in store : ArtifactId(p) = ArtifactId(q) => p = q

\* What has an id of its own is never overwritten.
StatusStored ==
    \A p \in published : p.kind \notin Fixed /\ p.defect # "missing" => p \in store

\* What is in the store is on its way to the consumer or was in the stream.
StoredIsAnnounced ==
    \A p \in store : p \in unannounced \/ p \in outbox \/ \E i \in DOMAIN stream : stream[i] = p

HeldIsAnnounced ==
    pc = "fetched" /\ stream[cursor] \in store => held = stream[cursor]

RevokedIsGone ==
    pc = "synced" /\ Revokes(stream[cursor]) => row = NoRow

\* A manifest that was rewritten while the subscriber held the old one will be
\* announced after the message in work.
HeldManifest ==
    \A kind \in Authorities :
        pc = "fetched" /\ held # NoArtifact /\ held.kind = kind =>
            \E q \in store : q.kind = kind /\ (q = held \/ Later(q))

\* A granted authorization rests on the manifest in the store, or that manifest
\* is still to be consumed.
GrantBacked ==
    \A kind \in Authorities :
        Granted(kind) =>
            \E q \in store :
                /\ q.kind = kind
                /\ kind \in filter /\ Sound(q) /\ ~q.active => Ahead(q)

IInv ==
    /\ TypeOK /\ AtMessage
    /\ PointsIntoStream
    /\ OneBodyPerId
    /\ StatusStored
    /\ StoredIsAnnounced
    /\ HeldIsAnnounced
    /\ RevokedIsGone
    /\ HeldManifest
    /\ GrantBacked
    /\ RevocationWins
    /\ ExpiryCovered

-----------------------------------------------------------------------------
\* What the operators of the model return.

\* A rewritten artifact shares its id with every artifact of its kind, another
\* one with those that have its number.
LEMMA Ids ==
    ASSUME NEW p \in Publications, NEW q \in Publications
    PROVE  ArtifactId(p) = ArtifactId(q)
              <=> p.kind = q.kind /\ (p.kind \in Fixed \/ p.seq = q.seq)
  BY PublicationsAssumption DEF ArtifactId, Fixed, PublicationRecord

\* A publication is a record and not the mark of a missing one.
LEMMA Fields ==
    ASSUME NEW p \in Publications
    PROVE  /\ p.kind \in Kinds /\ p.seq \in Nat /\ p.active \in BOOLEAN /\ p.until \in Nat
           /\ p # NoArtifact
  BY PublicationsAssumption, NoneAssumption DEF PublicationRecord

\* The stream holds publications.
LEMMA InStream ==
    ASSUME TypeOK
    PROVE  /\ Len(stream) \in Nat /\ cursor \in Nat /\ cursor >= 1
           /\ DOMAIN stream = 1 .. Len(stream)
           /\ \A i \in 1 .. Len(stream) : stream[i] \in published /\ stream[i] \in Publications
  BY DEF TypeOK

\* Appending an announcement leaves the others where they are.
LEMMA Appended ==
    ASSUME TypeOK, NEW p \in published
    PROVE  /\ Append(stream, p) \in Seq(published)
           /\ Len(Append(stream, p)) = Len(stream) + 1
           /\ DOMAIN Append(stream, p) = 1 .. Len(stream) + 1
           /\ \A i \in 1 .. Len(stream) : Append(stream, p)[i] = stream[i]
           /\ Append(stream, p)[Len(stream) + 1] = p
  BY DEF TypeOK

\* Get answers with the stored artifact that has the announced id.
LEMMA Found ==
    ASSUME NEW p
    PROVE  \/ Get(p) = NoArtifact /\ \A q \in store : ArtifactId(q) # ArtifactId(p)
           \/ Get(p) \in store /\ ArtifactId(Get(p)) = ArtifactId(p)
  BY DEF Get

\* The cache write of each kind of artifact, when its body qualifies.
LEMMA SyncedRowByKind ==
    ASSUME NEW a, NEW at
    PROVE  /\ a.kind = "root" => SyncedRow(a, at) =
                 IF IsManifestBody(a) THEN UpsertRootAuthorityContext(row, a) ELSE row
           /\ a.kind = "authority" => SyncedRow(a, at) =
                 IF IsManifestBody(a) THEN UpsertDelegatedAuthorityIssuerContext(row, a) ELSE row
           /\ a.kind = "issuer" => SyncedRow(a, at) =
                 IF ProjectsIssuer(a) THEN UpsertIssuer(row, at, a.until) ELSE row
           /\ a.kind = "policy" => SyncedRow(a, at) =
                 IF ProjectsPolicy(a) THEN UpsertDestinationPolicy(row, at, a.until) ELSE row
           /\ a.kind = "assurance" => SyncedRow(a, at) =
                 IF IsStatusEventBody(a) THEN UpdateIssuerAssuranceTier(row, at) ELSE row
           /\ a.kind = "revocation" => SyncedRow(a, at) =
                 IF IsStatusEventBody(a) THEN ApplyStatusEvent(row, a) ELSE row
<1>1. CASE a.kind = "root"
  BY <1>1, Zenon DEF SyncedRow, ProjectsIssuer, IsIssuerRecordBody, ProjectsPolicy
<1>2. CASE a.kind = "authority"
  BY <1>2, Zenon DEF SyncedRow, ProjectsIssuer, IsIssuerRecordBody, ProjectsPolicy
<1>3. CASE a.kind = "issuer"
  BY <1>3, Zenon DEF SyncedRow, ProjectsPolicy
<1>4. CASE a.kind = "policy"
  BY <1>4, Zenon DEF SyncedRow, ProjectsIssuer, IsIssuerRecordBody
<1>5. CASE a.kind = "assurance"
  BY <1>5, Zenon DEF SyncedRow, ProjectsIssuer, IsIssuerRecordBody, ProjectsPolicy
<1>6. CASE a.kind = "revocation"
  BY <1>6, Zenon DEF SyncedRow, ProjectsIssuer, IsIssuerRecordBody, ProjectsPolicy
<1> QED
  BY <1>1, <1>2, <1>3, <1>4, <1>5, <1>6

\* The flags a cache write sets.
LEMMA Flags ==
    /\ \A a : ListsAsActive(a) \in BOOLEAN
    /\ \A kind : DurableContext(kind) \in BOOLEAN
  BY Zenon DEF ListsAsActive, DurableContext

\* A cache write either keeps the projections and the expiry of the row or sets
\* some of them to the message at hand and expires no later than its artifact.
LEMMA SyncedRowShape ==
    ASSUME TypeOK, NEW a \in Publications, NEW at \in Nat, NEW r, r = SyncedRow(a, at)
    PROVE  \/ r = NoRow
           \/ /\ r \in Rows /\ row # NoRow
              /\ r.issuer = row.issuer /\ r.policy = row.policy /\ r.exp = row.exp
           \/ /\ r \in Rows
              /\ r.exp <= a.until /\ (row # NoRow => r.exp <= row.exp)
              /\ r.issuer \in {0, at} \/ (row # NoRow /\ r.issuer = row.issuer)
              /\ r.policy \in {0, at} \/ (row # NoRow /\ r.policy = row.policy)
<1>0. a.kind \in Kinds /\ a.active \in BOOLEAN /\ a.until \in Nat
  BY Fields
<1>1. row = NoRow \/ row \in Rows
  BY DEF TypeOK
<1>2. CASE a.kind = "root"
  BY <1>1, <1>2, Flags, SyncedRowByKind DEF UpsertRootAuthorityContext, Rows
<1>3. CASE a.kind = "authority"
  BY <1>1, <1>3, Flags, SyncedRowByKind DEF UpsertDelegatedAuthorityIssuerContext, Rows
<1>4. CASE a.kind = "issuer"
  BY <1>0, <1>1, <1>4, Flags, SyncedRowByKind DEF UpsertIssuer, RowExpiry, Rows
<1>5. CASE a.kind = "policy"
  BY <1>0, <1>1, <1>5, Flags, SyncedRowByKind DEF UpsertDestinationPolicy, RowExpiry, Rows
<1>6. CASE a.kind = "assurance"
  BY <1>1, <1>6, SyncedRowByKind DEF UpdateIssuerAssuranceTier, Rows
<1>7. CASE a.kind = "revocation"
  BY <1>1, <1>7, SyncedRowByKind DEF ApplyStatusEvent, RemoveIssuer, Rows
<1> QED
  BY <1>0, <1>2, <1>3, <1>4, <1>5, <1>6, <1>7 DEF Kinds

\* An authorization in the row comes from the manifest just written, from the
\* row as it was, or from the store.
LEMMA SyncedRowGrants ==
    ASSUME TypeOK, NEW a \in Publications, NEW at \in Nat, NEW kind \in Authorities,
           NEW r, r = SyncedRow(a, at), r # NoRow,
           IF kind = "root" THEN r.rootOk ELSE r.authorityOk
    PROVE  \/ a.kind = kind /\ ListsAsActive(a)
           \/ Granted(kind)
           \/ DurableContext(kind)
<1>0. a.kind \in Kinds /\ a.active \in BOOLEAN /\ a.until \in Nat
  BY Fields
<1>1. row = NoRow \/ row \in Rows
  BY DEF TypeOK
<1>k. kind = "root" \/ kind = "authority"
  BY DEF Authorities
<1>2. CASE a.kind = "root"
  BY <1>1, <1>2, <1>k, Flags, SyncedRowByKind DEF UpsertRootAuthorityContext, Rows, Granted
<1>3. CASE a.kind = "authority"
  BY <1>1, <1>3, <1>k, Flags, SyncedRowByKind DEF UpsertDelegatedAuthorityIssuerContext, Rows, Granted
<1>4. CASE a.kind = "issuer"
  BY <1>0, <1>1, <1>4, <1>k, SyncedRowByKind DEF UpsertIssuer, Granted
<1>5. CASE a.kind = "policy"
  BY <1>0, <1>1, <1>5, <1>k, SyncedRowByKind DEF UpsertDestinationPolicy, Granted
<1>6. CASE a.kind = "assurance"
  BY <1>1, <1>6, <1>k, SyncedRowByKind DEF UpdateIssuerAssuranceTier, Rows, Granted
<1>7. CASE a.kind = "revocation"
  BY <1>1, <1>7, <1>k, SyncedRowByKind DEF ApplyStatusEvent, RemoveIssuer, Rows, Granted
<1> QED
  BY <1>0, <1>2, <1>3, <1>4, <1>5, <1>6, <1>7 DEF Kinds

-----------------------------------------------------------------------------
\* The inductive invariant holds at the start.

\* The stream starts as a sequence of publications.
LEMMA GenesisFacts ==
    /\ Len(Genesis) \in Nat /\ DOMAIN Genesis = 1 .. Len(Genesis)
    /\ \A i \in DOMAIN Genesis : Genesis[i] \in Publications
    /\ Genesis \in Seq({Genesis[i] : i \in DOMAIN Genesis})
<1>1. /\ Len(Genesis) \in Nat /\ DOMAIN Genesis = 1 .. Len(Genesis)
      /\ \A i \in DOMAIN Genesis : Genesis[i] \in Publications
  BY GenesisAssumption
<1>2. Genesis \in [1 .. Len(Genesis) -> {Genesis[i] : i \in DOMAIN Genesis}]
  BY <1>1, GenesisAssumption
<1> QED
  BY <1>1, <1>2

\* The initial state has its types.
LEMMA TypeInit == Init => TypeOK
<1> SUFFICES ASSUME Init PROVE TypeOK
  OBVIOUS
<1>1. store \subseteq published /\ published \subseteq Publications /\ stream \in Seq(published)
  BY GenesisFacts DEF Init
<1>2. /\ unannounced \subseteq published /\ outbox \subseteq published
      /\ filter \in Filters
      /\ held \in Publications \union {NoArtifact} /\ pc \in {"idle", "fetched", "synced"}
      /\ row = NoRow
  BY DEF Init
<1>3. cursor \in 1 .. Len(stream) + 1 /\ deliveries \in 0 .. MaxDeliver /\ skipped \subseteq 1 .. cursor - 1
      /\ faults \in 0 .. MaxFaults
  BY GenesisFacts, BoundsAssumption DEF Init
<1>4. accepted \in BOOLEAN
  BY DEF Init
<1> QED
  BY <1>1, <1>2, <1>3, <1>4 DEF TypeOK

\* Everything the stream starts with is announced and nothing is consumed.
LEMMA StartInv == Init => IInv
<1> SUFFICES ASSUME Init PROVE IInv
  OBVIOUS
<1>1. TypeOK
  BY TypeInit
<1>2. /\ store = {Genesis[i] : i \in DOMAIN Genesis} /\ published = store
      /\ stream = Genesis /\ cursor = Len(Genesis) + 1 /\ pc = "idle" /\ row = NoRow
  BY DEF Init
<1>3. \A p \in store : p \in Publications /\ p.kind \in Authorities /\ p.defect = "none"
  BY <1>2, GenesisAssumption, GenesisFacts DEF Authorities
<1>4. OneBodyPerId
  <2> SUFFICES ASSUME NEW p \in store, NEW q \in store, ArtifactId(p) = ArtifactId(q)
               PROVE  p = q
    BY DEF OneBodyPerId
  <2>1. p.kind = q.kind
    BY <1>3, Ids
  <2>2. PICK i \in DOMAIN Genesis : p = Genesis[i]
    BY <1>2
  <2>3. PICK j \in DOMAIN Genesis : q = Genesis[j]
    BY <1>2
  <2> QED
    BY <2>1, <2>2, <2>3, GenesisAssumption
<1>5. StatusStored /\ StoredIsAnnounced
  BY <1>2 DEF StatusStored, StoredIsAnnounced
<1>0. AtMessage
  BY DEF Init, AtMessage
<1>6. PointsIntoStream /\ HeldIsAnnounced /\ RevokedIsGone /\ HeldManifest /\ GrantBacked
  BY <1>2 DEF PointsIntoStream, HeldIsAnnounced, RevokedIsGone, HeldManifest, GrantBacked, Granted
<1>7. RevocationWins /\ ExpiryCovered
  BY <1>2 DEF RevocationWins, ExpiryCovered
<1> QED
  BY <1>0, <1>1, <1>4, <1>5, <1>6, <1>7 DEF IInv

-----------------------------------------------------------------------------
\* Every step preserves the type invariant.

\* Steps keep the types, and a delivered message stays where it is.
LEMMA TypeStep == TypeOK /\ AtMessage /\ [Next]_vars => TypeOK' /\ AtMessage'
<1> SUFFICES ASSUME TypeOK, AtMessage, [Next]_vars PROVE TypeOK' /\ AtMessage'
  OBVIOUS
<1>i. /\ Len(stream) \in Nat /\ cursor \in Nat /\ cursor >= 1 /\ DOMAIN stream = 1 .. Len(stream)
      /\ \A i \in 1 .. Len(stream) : stream[i] \in Publications
  BY InStream
<1>b. MaxDeliver \in Nat /\ MaxDeliver >= 1 /\ MaxFaults \in Nat
  BY BoundsAssumption
<1>1. ASSUME NEW p \in Publications, PutArtifact(p) PROVE TypeOK' /\ AtMessage'
  <2>1. published' = published \union {p} /\ stream' = stream
    BY <1>1 DEF PutArtifact, consumerVars
  <2>2. stream' \in Seq(published')
    <3>1. stream \in [1 .. Len(stream) -> published']
      BY <2>1, <1>i DEF TypeOK
    <3> QED
      BY <3>1, <2>1, <1>i
  <2>3. store' \subseteq published' /\ unannounced' \subseteq published' /\ outbox' \subseteq published'
    BY <1>1 DEF PutArtifact, TypeOK
  <2> QED
    BY <1>1, <2>1, <2>2, <2>3 DEF PutArtifact, TypeOK, AtMessage, Subscribed, consumerVars, subVars
<1>2. ASSUME NEW p \in Publications, EnqueueEvent(p) PROVE TypeOK' /\ AtMessage'
  BY <1>2 DEF EnqueueEvent, TypeOK, AtMessage, Subscribed, consumerVars, subVars
<1>3. ASSUME NEW p \in Publications, Relay(p) PROVE TypeOK' /\ AtMessage'
  <2>1. p \in published
    BY <1>3 DEF Relay, TypeOK
  <2>2. stream' \in Seq(published') /\ cursor' \in 1 .. Len(stream') + 1 /\ AtMessage'
    BY <1>3, <2>1, <1>i, Appended DEF Relay, TypeOK, AtMessage, Subscribed, subVars
  <2>3. faults' \in 0 .. MaxFaults
    BY <1>3, <1>b DEF Relay, TypeOK
  <2> QED
    BY <1>3, <2>2, <2>3 DEF Relay, TypeOK, AtMessage, Subscribed, subVars
<1>4. CASE PassOver
  BY <1>4, <1>i DEF PassOver, TypeOK, AtMessage, Subscribed, pubVars, subVars
<1>5. CASE Terminate
  <2>1. accepted' \in BOOLEAN
    BY <1>5 DEF Terminate, Settled
  <2> QED
    BY <1>5, <1>i, <1>b, <2>1 DEF Terminate, Deliverable, Settled, TypeOK, AtMessage, Subscribed, pubVars
<1>6. CASE Fetch
  <2>1. held' \in Publications \union {NoArtifact}
    BY <1>6, Found DEF Fetch, TypeOK
  <2> QED
    BY <1>6, <1>i, <1>b, <2>1 DEF Fetch, Deliverable, TypeOK, AtMessage, Subscribed, pubVars
<1>7. CASE SyncRecent
  <2>1. row' = NoRow \/ row' \in Rows
    <3>1. CASE Passes(stream[cursor], held)
      <4>1. held \in Publications
        BY <3>1 DEF Passes, HashMatches, TypeOK
      <4> QED
        BY <4>1, <3>1, <1>7, <1>i, SyncedRowShape DEF SyncRecent
    <3>2. CASE ~Passes(stream[cursor], held)
      BY <3>2, <1>7 DEF SyncRecent, TypeOK
    <3> QED
      BY <3>1, <3>2
  <2>2. accepted' \in BOOLEAN
    BY <1>7, Zenon DEF SyncRecent, SyncReportAcceptance
  <2> QED
    BY <1>7, <2>1, <2>2 DEF SyncRecent, TypeOK, AtMessage, Subscribed, pubVars, consumerVars
<1>8. CASE AckOrTerm
  <2>1. accepted' \in BOOLEAN
    BY <1>8 DEF AckOrTerm, Settled
  <2> QED
    BY <1>8, <1>i, <1>b, <2>1 DEF AckOrTerm, Settled, TypeOK, AtMessage, Subscribed, pubVars
<1>9. CASE GiveUp
  BY <1>9, <1>i, <1>b DEF GiveUp, TypeOK, AtMessage, Subscribed, pubVars, subVars
<1>10. CASE Interrupt
  <2>1. accepted' \in BOOLEAN
    BY <1>10 DEF Interrupt
  <2> QED
    BY <1>10, <1>b, <2>1 DEF Interrupt, TypeOK, AtMessage, Subscribed, pubVars, consumerVars
<1>11. ASSUME NEW f \in Filters, RecreateConsumer(f) PROVE TypeOK' /\ AtMessage'
  BY <1>11, <1>i, <1>b DEF RecreateConsumer, TypeOK, AtMessage, Subscribed, pubVars, subVars
<1>12. CASE UNCHANGED vars
  BY <1>12 DEF vars, TypeOK, AtMessage, Subscribed
<1> QED
  BY <1>1, <1>2, <1>3, <1>4, <1>5, <1>6, <1>7, <1>8, <1>9, <1>10, <1>11, <1>12 DEF Next, Subscriber

-----------------------------------------------------------------------------
\* Every step preserves the rest of the inductive invariant, part by part.

\* What a step does to the store, to what is announced and to the stream.
LEMMA StreamGrows ==
    ASSUME TypeOK, [Next]_vars
    PROVE  /\ Len(stream) <= Len(stream') /\ Len(stream') \in Nat
           /\ DOMAIN stream' = 1 .. Len(stream')
           /\ \A i \in 1 .. Len(stream) : stream'[i] = stream[i]
<1>1. ASSUME NEW p \in Publications, Relay(p)
      PROVE  /\ Len(stream') = Len(stream) + 1 /\ DOMAIN stream' = 1 .. Len(stream')
             /\ \A i \in 1 .. Len(stream) : stream'[i] = stream[i]
  BY <1>1, Appended DEF Relay, TypeOK
<1>2. ASSUME ~ \E p \in Publications : Relay(p)
      PROVE  stream' = stream
  BY <1>2 DEF Next, Subscriber, vars, PutArtifact, EnqueueEvent, PassOver, Terminate, Fetch,
       SyncRecent, AckOrTerm, GiveUp, Interrupt, RecreateConsumer, consumerVars
<1> QED
  BY <1>1, <1>2, InStream

\* Only publishArtifact changes the store and what was published.
LEMMA StoreChanges ==
    ASSUME [Next]_vars
    PROVE  \/ \E p \in Publications : PutArtifact(p)
           \/ store' = store /\ published' = published
  BY DEF Next, Subscriber, vars, PutArtifact, EnqueueEvent, Relay, PassOver, Terminate, Fetch,
       SyncRecent, AckOrTerm, GiveUp, Interrupt, RecreateConsumer, pubVars

\* An announcement on its way is not lost.
LEMMA AnnouncementKept ==
    ASSUME TypeOK, [Next]_vars, NEW q,
           q \in unannounced \/ q \in outbox \/ \E i \in DOMAIN stream : stream[i] = q
    PROVE  q \in unannounced' \/ q \in outbox' \/ \E i \in DOMAIN stream' : stream'[i] = q
<1>1. CASE \E i \in DOMAIN stream : stream[i] = q
  BY <1>1, StreamGrows, InStream
<1>2. CASE q \in unannounced \/ q \in outbox
  <2>1. ASSUME NEW p \in Publications, PutArtifact(p)
        PROVE  q \in unannounced' \/ q \in outbox'
    BY <1>2, <2>1 DEF PutArtifact
  <2>2. ASSUME NEW p \in Publications, EnqueueEvent(p)
        PROVE  q \in unannounced' \/ q \in outbox'
    BY <1>2, <2>2 DEF EnqueueEvent
  <2>3. ASSUME NEW p \in Publications, Relay(p)
        PROVE  q \in unannounced' \/ q \in outbox' \/ \E i \in DOMAIN stream' : stream'[i] = q
    <3>1. Len(stream) + 1 \in DOMAIN stream' /\ stream'[Len(stream) + 1] = p
      BY <2>3, Appended, InStream DEF Relay, TypeOK
    <3> QED
      BY <1>2, <2>3, <3>1 DEF Relay
  <2>4. CASE Subscriber \/ Interrupt \/ (\E f \in Filters : RecreateConsumer(f)) \/ UNCHANGED vars
    BY <1>2, <2>4 DEF Subscriber, vars, PassOver, Terminate, Fetch, SyncRecent, AckOrTerm, GiveUp,
         Interrupt, RecreateConsumer, pubVars
  <2> QED
    BY <2>1, <2>2, <2>3, <2>4 DEF Next
<1> QED
  BY <1>1, <1>2

\* A put replaces the body of its id.
LEMMA OneBodyStep == IInv /\ [Next]_vars => OneBodyPerId'
<1> SUFFICES ASSUME IInv, [Next]_vars PROVE OneBodyPerId'
  OBVIOUS
<1>1. OneBodyPerId
  BY DEF IInv
<1>2. ASSUME NEW p \in Publications, PutArtifact(p) PROVE OneBodyPerId'
  BY <1>1, <1>2 DEF PutArtifact, OneBodyPerId, ArtifactId
<1> QED
  BY <1>1, <1>2, StoreChanges DEF OneBodyPerId, ArtifactId

\* A new artifact replaces one with its id only when that is of a fixed id: the
\* numbers of the others are used once.
LEMMA StatusStoredStep == IInv /\ [Next]_vars => StatusStored'
<1> SUFFICES ASSUME IInv, [Next]_vars PROVE StatusStored'
  OBVIOUS
<1>1. StatusStored /\ TypeOK
  BY DEF IInv
<1>2. ASSUME NEW p \in Publications, PutArtifact(p) PROVE StatusStored'
  <2> SUFFICES ASSUME NEW q \in published', q.kind \notin Fixed, q.defect # "missing"
               PROVE  q \in store'
    BY DEF StatusStored
  <2>1. CASE q = p
    BY <2>1, <1>2 DEF PutArtifact
  <2>2. CASE q # p
    <3>1. q \in published /\ q \in store /\ q \in Publications
      BY <2>2, <1>1, <1>2 DEF PutArtifact, StatusStored, TypeOK
    <3>2. ASSUME ArtifactId(q) = ArtifactId(p) PROVE FALSE
      <4>1. q.seq < p.seq
        BY <3>1, <3>2, <1>2 DEF PutArtifact
      <4>2. q.seq = p.seq
        BY <3>1, <3>2, Ids
      <4> QED
        BY <4>1, <4>2, <3>1, Fields
    <3> QED
      BY <3>1, <3>2, <1>2 DEF PutArtifact
  <2> QED
    BY <2>1, <2>2
<1> QED
  BY <1>1, <1>2, StoreChanges DEF StatusStored

\* A put leaves its announcement to be made, and no announcement is lost.
LEMMA StoredIsAnnouncedStep == IInv /\ [Next]_vars => StoredIsAnnounced'
<1> SUFFICES ASSUME IInv, [Next]_vars, NEW q \in store'
             PROVE  q \in unannounced' \/ q \in outbox' \/ \E i \in DOMAIN stream' : stream'[i] = q
  BY DEF StoredIsAnnounced
<1>1. StoredIsAnnounced /\ TypeOK
  BY DEF IInv
<1>2. q \in store \/ q \in unannounced'
  BY StoreChanges DEF PutArtifact
<1> QED
  BY <1>1, <1>2, AnnouncementKept DEF StoredIsAnnounced

\* The subscriber reads the store once and what it read stays the announced
\* artifact as long as that is stored at all.
LEMMA HeldIsAnnouncedStep == IInv /\ [Next]_vars => HeldIsAnnounced'
<1> SUFFICES ASSUME IInv, [Next]_vars, (pc = "fetched")', (stream[cursor] \in store)'
             PROVE  (held = stream[cursor])'
  BY DEF HeldIsAnnounced
<1>1. HeldIsAnnounced /\ TypeOK /\ AtMessage /\ OneBodyPerId
  BY DEF IInv
<1>2. CASE Fetch
  <2>1. stream' = stream /\ cursor' = cursor /\ store' = store /\ held' = Get(stream[cursor])
    BY <1>2 DEF Fetch, pubVars
  <2>2. Get(stream[cursor]) = stream[cursor]
    BY <2>1, <1>1, Found DEF OneBodyPerId
  <2> QED
    BY <2>1, <2>2
<1>3. CASE ~Fetch
  <2>1. pc = "fetched" /\ cursor' = cursor /\ held' = held
    BY <1>3 DEF Next, Subscriber, vars, PutArtifact, EnqueueEvent, Relay, PassOver, Terminate,
         SyncRecent, AckOrTerm, GiveUp, Interrupt, RecreateConsumer, Settled, subVars, consumerVars
  <2>2. cursor \in 1 .. Len(stream)
    BY <2>1, <1>1, InStream DEF AtMessage
  <2>3. stream'[cursor'] = stream[cursor] /\ stream[cursor] \in published
    BY <2>1, <2>2, <1>1, StreamGrows, InStream
  <2>4. stream[cursor] \in store
    BY <2>3, StoreChanges DEF PutArtifact
  <2> QED
    BY <2>1, <2>3, <2>4, <1>1 DEF HeldIsAnnounced
<1> QED
  BY <1>2, <1>3

\* Writing the artifact of a message that revokes removes the row.
LEMMA RevocationApplies ==
    ASSUME IInv, SyncRecent, Revokes(stream[cursor])
    PROVE  row' = NoRow
<1>1. HeldIsAnnounced /\ TypeOK /\ AtMessage /\ StatusStored
  BY DEF IInv
<1>2. pc = "fetched" /\ cursor \in 1 .. Len(stream)
  BY <1>1, InStream DEF SyncRecent, AtMessage
<1>3. stream[cursor] \in published /\ stream[cursor] \in Publications
  BY <1>1, <1>2, InStream
<1>4. stream[cursor] \in store
  BY <1>1, <1>3 DEF StatusStored, Revokes, Sound, Fixed
<1>5. held = stream[cursor] /\ held # NoArtifact
  BY <1>1, <1>2, <1>3, <1>4, Fields DEF HeldIsAnnounced
<1>6. Passes(stream[cursor], held) /\ IsStatusEventBody(held)
  BY <1>5 DEF Passes, HashMatches, IsStatusEventBody, VerifyTrustArtifact,
       TrustArtifactScopeMatchesBody, Revokes, Sound
<1>7. SyncedRow(held, cursor) = NoRow
  BY <1>5, <1>6, SyncedRowByKind DEF Revokes, ApplyStatusEvent, RemoveIssuer
<1> QED
  BY <1>6, <1>7 DEF SyncRecent

\* A revocation that was applied has removed the row until it is settled.
LEMMA RevokedIsGoneStep == IInv /\ [Next]_vars => RevokedIsGone'
<1> SUFFICES ASSUME IInv, [Next]_vars, (pc = "synced")', Revokes(stream[cursor])'
             PROVE  row' = NoRow
  BY DEF RevokedIsGone
<1>1. RevokedIsGone /\ TypeOK /\ AtMessage
  BY DEF IInv
<1>2. CASE SyncRecent
  <2>1. Revokes(stream[cursor])
    BY <1>2 DEF SyncRecent, consumerVars, Revokes, Sound
  <2> QED
    BY <1>2, <2>1, RevocationApplies
<1>3. CASE ~SyncRecent
  <2>1. pc = "synced" /\ cursor' = cursor /\ row' = row
    BY <1>3 DEF Next, Subscriber, vars, PutArtifact, EnqueueEvent, Relay, PassOver, Terminate,
         Fetch, AckOrTerm, GiveUp, Interrupt, RecreateConsumer, Settled, subVars, consumerVars
  <2>2. cursor \in 1 .. Len(stream)
    BY <2>1, <1>1, InStream DEF AtMessage
  <2>3. stream'[cursor'] = stream[cursor]
    BY <2>1, <2>2, <1>1, StreamGrows
  <2> QED
    BY <2>1, <2>3, <1>1 DEF RevokedIsGone, Revokes, Sound
<1> QED
  BY <1>2, <1>3

\* Only syncRecent writes the row.
LEMMA RowChanges ==
    ASSUME [Next]_vars
    PROVE  SyncRecent \/ row' = row
  BY DEF Next, Subscriber, vars, PutArtifact, EnqueueEvent, Relay, PassOver, Terminate, Fetch,
       AckOrTerm, GiveUp, Interrupt, RecreateConsumer

\* A write that passed the checks is the write of the announced artifact.
LEMMA WriteIsOfMessage ==
    ASSUME TypeOK, AtMessage, SyncRecent
    PROVE  /\ pc = "fetched" /\ cursor \in 1 .. Len(stream) /\ stream[cursor] \in Publications
           /\ stream' = stream /\ cursor' = cursor
           /\ \/ row' = row
              \/ held = stream[cursor] /\ row' = SyncedRow(stream[cursor], cursor)
  BY InStream DEF SyncRecent, AtMessage, consumerVars, Passes, HashMatches

\* Projections point at messages that were there when they were written.
LEMMA PointsStep == IInv /\ [Next]_vars => PointsIntoStream'
<1> SUFFICES ASSUME IInv, [Next]_vars, row' # NoRow
             PROVE  row'.issuer <= Len(stream') /\ row'.policy <= Len(stream')
  BY DEF PointsIntoStream
<1>1. PointsIntoStream /\ TypeOK /\ AtMessage /\ Len(stream) \in Nat
  BY InStream DEF IInv
<1>2. CASE row' = row
  BY <1>1, <1>2, StreamGrows DEF PointsIntoStream, TypeOK, Rows
<1>3. CASE SyncRecent /\ row' # row
  BY <1>1, <1>3, WriteIsOfMessage, SyncedRowShape DEF PointsIntoStream
<1> QED
  BY <1>2, <1>3, RowChanges

\* A projection that moves an end moves the row's.
LEMMA ExpiryStep == IInv /\ [Next]_vars => ExpiryCovered'
<1> SUFFICES ASSUME IInv, [Next]_vars, row' # NoRow, NEW i \in {row'.issuer, row'.policy}, i # 0
             PROVE  row'.exp <= stream'[i].until
  BY DEF ExpiryCovered
<1>1. /\ PointsIntoStream /\ TypeOK /\ AtMessage /\ ExpiryCovered /\ Len(stream) \in Nat
      /\ \A j \in 1 .. Len(stream) : stream[j] \in Publications
  BY InStream DEF IInv
<1>2. CASE row' = row
  <2>1. i \in 1 .. Len(stream)
    BY <1>1, <1>2 DEF PointsIntoStream, TypeOK, Rows
  <2> QED
    BY <1>1, <1>2, <2>1, StreamGrows DEF ExpiryCovered
<1>3. CASE SyncRecent /\ row' # row
  <2>1. /\ cursor \in 1 .. Len(stream) /\ stream[cursor] \in Publications /\ stream' = stream
        /\ row' = SyncedRow(stream[cursor], cursor)
    BY <1>1, <1>3, WriteIsOfMessage
  <2>2. stream[cursor].until \in Nat
    BY <2>1, Fields
  <2>3. row' \in Rows /\ (row # NoRow => row'.exp <= row.exp /\ row \in Rows)
    BY <1>1, <2>1, SyncedRowShape DEF TypeOK, Rows
  <2>4. \/ row # NoRow /\ i \in {row.issuer, row.policy}
        \/ i = cursor /\ row'.exp <= stream[cursor].until
    BY <1>1, <2>1, SyncedRowShape
  <2>5. CASE row # NoRow /\ i \in {row.issuer, row.policy}
    <3>1. row.exp <= stream[i].until /\ i \in 1 .. Len(stream)
      BY <1>1, <2>3, <2>5 DEF ExpiryCovered, PointsIntoStream, Rows
    <3>2. stream[i].until \in Nat
      BY <1>1, <3>1, Fields
    <3> QED
      BY <2>1, <2>3, <2>5, <3>1, <3>2 DEF Rows
  <2> QED
    BY <2>1, <2>4, <2>5
<1> QED
  BY <1>2, <1>3, RowChanges

\* A row that is written after a settled revocation points past it.
LEMMA RevocationStep == IInv /\ [Next]_vars => RevocationWins'
<1> SUFFICES ASSUME IInv, [Next]_vars, row' # NoRow, row'.issuer # 0,
                    NEW i \in (1 .. cursor' - 1) \ skipped', i > row'.issuer, Subscribed(i)',
                    Revokes(stream'[i])
             PROVE  FALSE
  BY DEF RevocationWins, Revokes
<1>1. /\ TypeOK /\ AtMessage /\ RevocationWins /\ RevokedIsGone /\ PointsIntoStream
      /\ Len(stream) \in Nat /\ cursor \in Nat /\ cursor <= Len(stream) + 1
  BY InStream DEF IInv, TypeOK
<1>2. ASSUME i \in (1 .. cursor - 1) \ skipped, filter' = filter
      PROVE  row' # row
  <2>1. stream'[i] = stream[i]
    BY <1>1, <1>2, StreamGrows
  <2> QED
    BY <1>1, <1>2, <2>1 DEF RevocationWins, Revokes, Subscribed, Sound
<1>3. ASSUME i = cursor, cursor <= Len(stream)
      PROVE  Revokes(stream[cursor]) /\ stream'[cursor] = stream[cursor]
  BY <1>1, <1>3, StreamGrows
<1>4. ASSUME NEW p \in Publications, PutArtifact(p) \/ EnqueueEvent(p) PROVE FALSE
  BY <1>2, <1>4 DEF PutArtifact, EnqueueEvent, consumerVars
<1>5. ASSUME NEW p \in Publications, Relay(p) PROVE FALSE
  BY <1>2, <1>5 DEF Relay
<1>6. CASE PassOver
  <2>1. i = cursor /\ cursor <= Len(stream)
    BY <1>1, <1>2, <1>6 DEF PassOver
  <2> QED
    BY <1>1, <1>3, <1>6, <2>1 DEF PassOver, Subscribed
<1>7. CASE Terminate
  <2>1. i = cursor /\ cursor <= Len(stream)
    BY <1>1, <1>2, <1>7 DEF Terminate, Deliverable, Settled
  <2> QED
    BY <1>3, <1>7, <2>1 DEF Terminate, DecodeGovernancePayload, Revokes, Sound
<1>8. CASE Fetch
  BY <1>2, <1>8 DEF Fetch
<1>9. CASE SyncRecent
  <2>1. /\ cursor \in 1 .. Len(stream) /\ stream[cursor] \in Publications /\ cursor' = cursor
        /\ stream' = stream /\ filter' = filter /\ skipped' = skipped
        /\ row' = SyncedRow(stream[cursor], cursor)
    BY <1>1, <1>2, <1>9, WriteIsOfMessage DEF SyncRecent, consumerVars
  <2>2. row # NoRow /\ row'.issuer = row.issuer
    BY <1>1, <2>1, SyncedRowShape
  <2> QED
    BY <1>1, <2>1, <2>2 DEF RevocationWins, Revokes, Subscribed, Sound
<1>10. CASE AckOrTerm
  <2>1. i = cursor /\ cursor <= Len(stream)
    BY <1>1, <1>2, <1>10 DEF AckOrTerm, Settled, AtMessage
  <2> QED
    BY <1>1, <1>3, <1>10, <2>1 DEF AckOrTerm, RevokedIsGone
<1>11. CASE GiveUp
  BY <1>1, <1>2, <1>11 DEF GiveUp
<1>12. CASE Interrupt
  BY <1>2, <1>12 DEF Interrupt, consumerVars
<1>13. ASSUME NEW f \in Filters, RecreateConsumer(f) PROVE FALSE
  BY <1>13 DEF RecreateConsumer
<1>14. CASE UNCHANGED vars
  BY <1>2, <1>14 DEF vars
<1> QED
  BY <1>4, <1>5, <1>6, <1>7, <1>8, <1>9, <1>10, <1>11, <1>12, <1>13, <1>14 DEF Next, Subscriber

\* A manifest in hand is the stored one, or the stored one is announced later.
LEMMA HeldManifestStep == IInv /\ [Next]_vars => HeldManifest'
<1> SUFFICES ASSUME IInv, [Next]_vars, NEW kind \in Authorities,
                    pc' = "fetched", held' # NoArtifact, held'.kind = kind
             PROVE  \E q \in store' : q.kind = kind /\ (q = held' \/ Later(q)')
  BY DEF HeldManifest
<1>1. TypeOK /\ AtMessage /\ HeldManifest
  BY DEF IInv
<1>2. CASE Fetch
  <2>1. held' \in store /\ store' = store
    BY <1>2, Found DEF Fetch, pubVars
  <2> QED
    BY <2>1
<1>3. CASE ~Fetch
  <2>1. pc = "fetched" /\ cursor' = cursor /\ held' = held
    BY <1>3 DEF Next, Subscriber, vars, PutArtifact, EnqueueEvent, Relay, PassOver, Terminate,
         SyncRecent, AckOrTerm, GiveUp, Interrupt, RecreateConsumer, Settled, subVars, consumerVars
  <2>2. PICK q \in store : q.kind = kind /\ (q = held \/ Later(q))
    BY <1>1, <2>1 DEF HeldManifest
  <2>3. cursor <= Len(stream) /\ cursor \in Nat /\ Len(stream) \in Nat
    BY <1>1, <2>1, InStream DEF AtMessage
  <2>4. ASSUME NEW p \in Publications, PutArtifact(p)
        PROVE  \E s \in store' : s.kind = kind /\ (s = held' \/ Later(s)')
    <3>1. CASE q \in store'
      BY <2>1, <2>2, <2>4, <3>1 DEF PutArtifact, Later, consumerVars
    <3>2. CASE q \notin store'
      <4>1. p \in store' /\ ArtifactId(q) = ArtifactId(p) /\ q \in Publications
        BY <1>1, <2>2, <2>4, <3>2 DEF PutArtifact, TypeOK
      <4>2. p.kind = kind /\ p \in unannounced'
        BY <2>2, <2>4, <4>1, Ids DEF PutArtifact
      <4> QED
        BY <4>1, <4>2 DEF Later
    <3> QED
      BY <3>1, <3>2
  <2>5. ASSUME NEW p \in Publications, EnqueueEvent(p) PROVE Later(q) => Later(q)'
    BY <2>5 DEF EnqueueEvent, Later, consumerVars
  <2>6. ASSUME NEW p \in Publications, Relay(p) PROVE Later(q) => Later(q)'
    <3>1. /\ Len(stream) + 1 \in DOMAIN stream' /\ stream'[Len(stream) + 1] = p
          /\ \A i \in DOMAIN stream : i \in DOMAIN stream' /\ stream'[i] = stream[i]
      BY <1>1, <2>6, Appended, InStream DEF Relay, TypeOK
    <3> QED
      BY <2>1, <2>3, <2>6, <3>1 DEF Relay, Later
  <2>7. ASSUME UNCHANGED <<pubVars, stream>> PROVE Later(q) => Later(q)'
    BY <2>1, <2>7 DEF pubVars, Later
  <2>8. \/ \E p \in Publications : PutArtifact(p) \/ EnqueueEvent(p) \/ Relay(p)
        \/ UNCHANGED <<pubVars, stream>>
    BY DEF Next, Subscriber, vars, PassOver, Terminate, Fetch, SyncRecent, AckOrTerm, GiveUp,
         Interrupt, RecreateConsumer, consumerVars, pubVars
  <2>9. CASE store' = store
    BY <2>1, <2>2, <2>4, <2>5, <2>6, <2>7, <2>8, <2>9
  <2> QED
    BY <2>4, <2>9, StoreChanges
<1> QED
  BY <1>2, <1>3

\* Consuming the announcement of a sound withdrawn manifest takes the
\* authorization out of the row.
LEMMA WithdrawalApplies ==
    ASSUME IInv, SyncRecent, NEW kind \in Authorities, stream[cursor] \in store,
           stream[cursor].kind = kind, Sound(stream[cursor]), ~stream[cursor].active
    PROVE  ~Granted(kind)'
<1>1. HeldIsAnnounced /\ TypeOK /\ AtMessage
  BY DEF IInv
<1>2. pc = "fetched" /\ cursor \in 1 .. Len(stream) /\ stream[cursor] \in Publications
  BY <1>1, WriteIsOfMessage
<1>3. held = stream[cursor] /\ held # NoArtifact
  BY <1>1, <1>2, Fields DEF HeldIsAnnounced
<1>4. Passes(stream[cursor], held) /\ IsManifestBody(held)
  BY <1>3 DEF Passes, HashMatches, IsManifestBody, VerifyTrustArtifact,
       TrustArtifactScopeMatchesBody, Sound, Authorities
<1>5. row' = SyncedRow(held, cursor)
  BY <1>4 DEF SyncRecent
<1>6. ListsAsActive(held) = FALSE
  BY <1>3 DEF ListsAsActive
<1>7. row = NoRow \/ row \in Rows
  BY <1>1 DEF TypeOK
<1>8. CASE kind = "root"
  BY <1>3, <1>4, <1>5, <1>6, <1>7, <1>8, SyncedRowByKind DEF UpsertRootAuthorityContext, Rows, Granted
<1>9. CASE kind = "authority"
  BY <1>3, <1>4, <1>5, <1>6, <1>7, <1>9, SyncedRowByKind
     DEF UpsertDelegatedAuthorityIssuerContext, Rows, Granted
<1> QED
  BY <1>8, <1>9 DEF Authorities

\* A grant rests on the stored manifest or its announcement is still ahead.
LEMMA GrantStep == IInv /\ [Next]_vars => GrantBacked'
<1> DEFINE Backs(q, kind) == q.kind = kind /\ (kind \in filter /\ Sound(q) /\ ~q.active => Ahead(q))
<1> SUFFICES ASSUME IInv, [Next]_vars, NEW kind \in Authorities, Granted(kind)'
             PROVE  \E q \in store' : Backs(q, kind)'
  BY DEF GrantBacked
<1>1. /\ TypeOK /\ AtMessage /\ GrantBacked /\ HeldManifest /\ StoredIsAnnounced
      /\ cursor \in Nat /\ Len(stream) \in Nat /\ cursor <= Len(stream) + 1 /\ cursor >= 1
      /\ DOMAIN stream = 1 .. Len(stream)
  BY InStream DEF IInv, TypeOK
<1>2. CASE SyncRecent
  <2>1. /\ cursor \in 1 .. Len(stream) /\ stream[cursor] \in Publications /\ pc = "fetched"
        /\ store' = store /\ unannounced' = unannounced /\ outbox' = outbox /\ filter' = filter
        /\ stream' = stream /\ cursor' = cursor /\ skipped' = skipped /\ pc' = "synced"
        /\ row' = row \/ (held = stream[cursor] /\ row' = SyncedRow(stream[cursor], cursor))
    BY <1>1, <1>2, WriteIsOfMessage DEF SyncRecent, consumerVars, pubVars
  <2>2. \/ Granted(kind)
        \/ DurableContext(kind)
        \/ held = stream[cursor] /\ stream[cursor].kind = kind /\ ListsAsActive(stream[cursor])
    BY <1>1, <2>1, SyncedRowGrants DEF Granted
  <2>3. CASE DurableContext(kind)
    BY <2>1, <2>3 DEF DurableContext
  <2>4. CASE held = stream[cursor] /\ stream[cursor].kind = kind /\ ListsAsActive(stream[cursor])
    <3>1. PICK q \in store : q.kind = kind /\ (q = held \/ Later(q))
      BY <1>1, <2>1, <2>4, Fields DEF HeldManifest
    <3>2. q = held => q.active
      BY <2>4 DEF ListsAsActive
    <3>3. Later(q) => Ahead(q)'
      BY <2>1 DEF Later, Ahead
    <3> QED
      BY <2>1, <3>1, <3>2, <3>3
  <2>5. CASE Granted(kind)
    <3>1. PICK q \in store : Backs(q, kind)
      BY <1>1, <2>5 DEF GrantBacked
    <3>2. ASSUME kind \in filter, Sound(q), ~q.active PROVE Ahead(q)'
      <4>1. q # stream[cursor]
        BY <1>2, <3>1, <3>2, WithdrawalApplies
      <4> QED
        BY <2>1, <3>1, <3>2, <4>1 DEF Ahead
    <3> QED
      BY <2>1, <3>1, <3>2 DEF Sound
  <2> QED
    BY <2>2, <2>3, <2>4, <2>5
<1>3. CASE row' = row /\ ~SyncRecent
  <2>1. PICK q \in store : Backs(q, kind)
    BY <1>1, <1>3 DEF GrantBacked, Granted
  <2>2. ASSUME NEW p \in Publications, PutArtifact(p)
        PROVE  \E s \in store' : Backs(s, kind)'
    <3>1. CASE q \in store'
      BY <2>1, <2>2, <3>1 DEF PutArtifact, Ahead, Sound, consumerVars, subVars
    <3>2. CASE q \notin store'
      <4>1. p \in store' /\ ArtifactId(q) = ArtifactId(p) /\ q \in Publications
        BY <1>1, <2>1, <2>2, <3>2 DEF PutArtifact, TypeOK
      <4>2. p.kind = kind /\ p \in unannounced'
        BY <2>1, <2>2, <4>1, Ids DEF PutArtifact
      <4> QED
        BY <4>1, <4>2 DEF Ahead
    <3> QED
      BY <3>1, <3>2
  <2>3. ASSUME store' = store, kind \in filter', Sound(q), ~q.active
        PROVE  Ahead(q)'
    <3>1. ASSUME NEW f \in Filters, RecreateConsumer(f) PROVE Ahead(q)'
      <4>1. \A i \in DOMAIN stream : i > 1 \/ i = 1
        BY <1>1
      <4> QED
        BY <1>1, <2>1, <3>1, <4>1 DEF RecreateConsumer, StoredIsAnnounced, Ahead, pubVars, subVars
    <3>2. ASSUME filter' = filter PROVE Ahead(q)
      BY <2>1, <2>3, <3>2
    <3>3. ASSUME NEW p \in Publications, PutArtifact(p) \/ EnqueueEvent(p) PROVE Ahead(q)'
      BY <3>2, <3>3 DEF PutArtifact, EnqueueEvent, Ahead, consumerVars, subVars
    <3>4. ASSUME NEW p \in Publications, Relay(p) PROVE Ahead(q)'
      <4>1. /\ Len(stream) + 1 \in DOMAIN stream' /\ stream'[Len(stream) + 1] = p
            /\ \A i \in DOMAIN stream : i \in DOMAIN stream' /\ stream'[i] = stream[i]
        BY <1>1, <3>4, Appended DEF Relay, TypeOK
      <4>2. cursor = Len(stream) + 1 => pc = "idle"
        BY <1>1 DEF AtMessage
      <4> QED
        BY <1>1, <3>2, <3>4, <4>1, <4>2 DEF Relay, Ahead, subVars
    <3>5. CASE PassOver
      <4>1. stream[cursor] # q
        BY <2>1, <2>3, <3>5 DEF PassOver, Subscribed
      <4> QED
        BY <1>1, <3>2, <3>5, <4>1 DEF PassOver, Ahead, pubVars, subVars
    <3>6. CASE Terminate
      <4>1. stream[cursor] # q
        BY <2>3, <3>6 DEF Terminate, DecodeGovernancePayload, Sound
      <4> QED
        BY <1>1, <3>2, <3>6, <4>1 DEF Terminate, Settled, Ahead, pubVars
    <3>7. CASE Fetch
      BY <3>2, <3>7 DEF Fetch, Ahead, pubVars
    <3>8. CASE AckOrTerm
      BY <1>1, <3>2, <3>8 DEF AckOrTerm, Settled, Ahead, pubVars
    <3>9. CASE GiveUp
      BY <1>1, <3>2, <3>9 DEF GiveUp, Ahead, pubVars, subVars
    <3>10. CASE Interrupt
      BY <3>2, <3>10 DEF Interrupt, Ahead, pubVars, consumerVars
    <3>11. CASE UNCHANGED vars
      BY <3>2, <3>11 DEF vars, Ahead
    <3> QED
      BY <1>3, <3>1, <3>3, <3>4, <3>5, <3>6, <3>7, <3>8, <3>9, <3>10, <3>11 DEF Next, Subscriber
  <2> QED
    BY <2>1, <2>2, <2>3, StoreChanges DEF Sound
<1> QED
  BY <1>2, <1>3, RowChanges

-----------------------------------------------------------------------------
\* The invariant holds of every behaviour of the subscriber.
LEMMA SyncInvariant == Spec => []IInv
<1>1. IInv /\ [Next]_vars => IInv'
  <2> SUFFICES ASSUME IInv, [Next]_vars PROVE IInv'
    OBVIOUS
  <2>1. TypeOK' /\ AtMessage'
    BY TypeStep DEF IInv
  <2> QED
    BY <2>1, PointsStep, OneBodyStep, StatusStoredStep, StoredIsAnnouncedStep, HeldIsAnnouncedStep,
       RevokedIsGoneStep, HeldManifestStep, GrantStep, RevocationStep, ExpiryStep DEF IInv
<1> QED
  BY <1>1, StartInv, PTL DEF Spec

\* The types of the stream, the consumer, the subscriber and the row hold; in
\* particular the consumer never moves past the message after the last one.
THEOREM SyncTypes == Spec => []TypeOK
  BY SyncInvariant, PTL DEF IInv

\* An issuer in the cache was written after every revocation that the consumer
\* has settled in this pass, whatever failed, was redelivered or replayed.
THEOREM RevocationAlwaysWins == Spec => []RevocationWins
  BY SyncInvariant, PTL DEF IInv

\* The row expires no later than the issuer record and the policy it carries.
THEOREM ExpiryAlwaysCovered == Spec => []ExpiryCovered
  BY SyncInvariant, PTL DEF IInv

\* A drained stream leaves no authorization in the cache that the manifests in
\* published_artifacts have withdrawn.
THEOREM AuthorityAlwaysConverges == Spec => []AuthorityConverges
<1>1. IInv => AuthorityConverges
  <2> SUFFICES ASSUME IInv, Drained, Resolvable, NEW kind \in {"root", "authority"} \intersect filter
               PROVE  \E q \in store : q.kind = kind /\ (Sound(q) => q.active)
    BY DEF AuthorityConverges
  <2>1. TypeOK /\ GrantBacked /\ kind \in Authorities
    BY DEF IInv, Authorities
  <2>2. Granted(kind)
    BY DEF Resolvable, Granted
  <2>3. PICK q \in store : q.kind = kind /\ (kind \in filter /\ Sound(q) /\ ~q.active => Ahead(q))
    BY <2>1, <2>2 DEF GrantBacked
  <2>4. ~Ahead(q)
    BY <2>1, InStream DEF Ahead, Drained
  <2> QED
    BY <2>3, <2>4
<1> QED
  BY <1>1, SyncInvariant, PTL

-----------------------------------------------------------------------------
(* The runtime subscriber *)

\* The tokens of a subject: strings, the ones the code writes among them.
Words ==
    STRING \union {"qrtrust", "v1", "runtime", "verdict", "observed", "provider", "upserted",
                   "authority", "nats-subscriber", "authorization", "changed"}

\* A running worker has loaded its allowlist, which covers every subject of the
\* consumer's filter, and what it has in its hands passed the filter.
FilterCovered ==
    \A f \in consumer.filter :
        /\ f \in Seq(Words) /\ IsQrTrustSubscriberSubject(f)
        /\ SubjectAllowed(granted, f)

Hands == [m : Messages \union {NoMessage}, pc : {"down", "idle", "received", "inserted"}]

ObserverInv ==
    /\ worker \in Hands
    /\ worker.pc # "down" =>
          /\ granted \subseteq Seq(Words) /\ AuthorizationLoads(granted)
          /\ FilterCovered
    /\ worker.pc = "received" =>
          /\ worker.m \in Messages
          /\ SubjectAllowed(consumer.filter, MessageSubject[worker.m])

\* The tails of the subjects are sequences of words.
LEMMA Phrases ==
  /\ <<"runtime", "verdict", "observed">> \in Seq(Words)
  /\ <<"runtime", "provider", "upserted">> \in Seq(Words)
  /\ <<"authority", "nats-subscriber", "authorization", "changed">> \in Seq(Words)
<1>1. \A x, y, z \in Words : <<x, y, z>> \in Seq(Words) OBVIOUS
<1>2. \A x, y, z, u \in Words : <<x, y, z, u>> \in Seq(Words) OBVIOUS
<1>3. {"runtime", "verdict", "observed", "provider", "upserted", "authority", "nats-subscriber",
       "authorization", "changed"} \subseteq Words
  BY DEF Words
<1> QED BY <1>1, <1>2, <1>3

\* What the constants hold are words.
LEMMA SubjectsOfWords ==
  /\ \A A \in Allowlists : A \subseteq Seq(Words)
  /\ Configurations \subseteq Seq(Words)
<1>1. STRING \subseteq Words BY DEF Words
<1>2. \A q \in Seq(STRING) : q \in Seq(Words)
  <2> TAKE q \in Seq(STRING)
  <2> QED BY <1>1, SeqMonotonic, Zenon
<1> QED BY <1>2, SubjectsAssumption, Zenon

\* A subject is a sequence of tokens that ends with its version.
LEMMA Versioned ==
  ASSUME NEW root \in Words, NEW tail \in Seq(Words)
  PROVE  LET s == Subject(root, tail)
         IN  s \in Seq(Words) /\ s[2] = root /\ s[Len(s)] = "v1"
<1>0. "qrtrust" \in Words /\ "v1" \in Words BY DEF Words
<1> DEFINE head == <<"qrtrust", root>>
           body == head \o tail
           s == body \o <<"v1">>
<1>1. head \in Seq(Words) /\ Len(head) = 2 /\ head[2] = root BY <1>0
<1>2. /\ body \in Seq(Words) /\ Len(body) = 2 + Len(tail) /\ body[2] = root
  <2> HIDE DEF head
  <2>1. Len(tail) \in Nat OBVIOUS
  <2>2. /\ body \in Seq(Words) /\ Len(body) = Len(head) + Len(tail)
        /\ \A i \in 1 .. Len(head) + Len(tail) : body[i] =
              IF i <= Len(head) THEN head[i] ELSE tail[i - Len(head)]
    BY <1>1, ConcatProperties
  <2>3. 2 \in 1 .. Len(head) + Len(tail) BY <1>1, <2>1
  <2> HIDE DEF body
  <2> QED BY <1>1, <2>2, <2>3
<1>3. s \in Seq(Words) /\ Len(s) = Len(body) + 1 /\ s[2] = root /\ s[Len(s)] = "v1"
  <2> HIDE DEF body
  <2>1. Len(tail) \in Nat OBVIOUS
  <2>2. <<"v1">> \in Seq(Words) /\ Len(<<"v1">>) = 1 /\ <<"v1">>[1] = "v1" BY <1>0
  <2> QED BY <1>2, <2>1, <2>2
<1> QED BY <1>3 DEF Subject

\* A well-formed subject ends with its version or with the wildcard of the rest.
LEMMA SubjectEnds ==
  ASSUME NEW a \in Seq(Words), IsQrTrustSubscriberSubject(a), a[Len(a)] # ">"
  PROVE  a[Len(a)] = "v1"
<1>1. CASE a[2] # ControlPlane BY <1>1 DEF IsQrTrustSubscriberSubject
<1>2. CASE a[2] = ControlPlane
  <2>1. a \in ControlPlaneSubscriberSubjects BY <1>2 DEF IsQrTrustSubscriberSubject
  <2>2. PICK t \in ControlPlaneEventTypes : a = Subject(ControlPlane, SubjectTails[t])
    BY <2>1 DEF ControlPlaneSubscriberSubjects
  <2>3. SubjectTails[t] \in {<<"runtime", "provider", "upserted">>,
                             <<"authority", "nats-subscriber", "authorization", "changed">>}
    <3>1. t = "runtime_provider" \/ t = "subscriber_authorization"
      BY DEF ControlPlaneEventTypes
    <3>2. CASE t = "runtime_provider" BY <3>2 DEF SubjectTails
    <3>3. CASE t = "subscriber_authorization" BY <3>3 DEF SubjectTails
    <3> QED BY <3>1, <3>2, <3>3
  <2>4. SubjectTails[t] \in Seq(Words) BY <2>3, Phrases
  <2>5. ControlPlane \in Words
    <3>1. Len(a) >= 4 BY DEF IsQrTrustSubscriberSubject
    <3> QED BY <1>2, <3>1
  <2> QED BY <2>2, <2>4, <2>5, Versioned
<1> QED BY <1>1, <1>2

\* Wildcards compose: what a subject of the filter matches is matched by the
\* subject of the allowlist that covers it.
LEMMA WildcardsCompose ==
  ASSUME NEW a \in Seq(Words), NEW f \in Seq(Words), NEW s \in Seq(Words),
         IsQrTrustSubscriberSubject(a), IsQrTrustSubscriberSubject(f),
         NatsSubjectMatches(a, f), NatsSubjectMatches(f, s)
  PROVE  NatsSubjectMatches(a, s)
<1>1. /\ Len(a) \in Nat /\ Len(f) \in Nat /\ Len(s) \in Nat /\ Len(a) >= 4 /\ Len(f) >= 4
  BY DEF IsQrTrustSubscriberSubject
<1>2. \A x, y, z : TokenMatches(x, y) /\ TokenMatches(y, z) => TokenMatches(x, z)
  BY DEF TokenMatches
<1>3. CASE a[Len(a)] = ">" /\ f[Len(f)] = ">"
  BY <1>1, <1>2, <1>3 DEF NatsSubjectMatches
<1>4. CASE a[Len(a)] = ">" /\ f[Len(f)] # ">"
  BY <1>1, <1>2, <1>4 DEF NatsSubjectMatches
<1>5. CASE a[Len(a)] # ">" /\ f[Len(f)] = ">"
  <2>1. a[Len(a)] = "v1" BY <1>5, SubjectEnds
  <2>2. TokenMatches(a[Len(a)], f[Len(f)]) BY <1>1, <1>5 DEF NatsSubjectMatches
  <2> QED BY <1>5, <2>1, <2>2 DEF TokenMatches
<1>6. CASE a[Len(a)] # ">" /\ f[Len(f)] # ">"
  BY <1>1, <1>2, <1>6 DEF NatsSubjectMatches
<1> QED BY <1>3, <1>4, <1>5, <1>6

\* The runtime stream is materialized from verdicts alone.
LEMMA VerdictTail ==
  /\ SubjectTails["runtime_verdict"] = <<"runtime", "verdict", "observed">>
  /\ MaterializationTails["QRTRUST_RUNTIME"] = {<<"runtime", "verdict", "observed">>}
BY DEF SubjectTails, MaterializationTails

\* What the filter of a starting worker holds.
LEMMA AcceptedFilter ==
  ASSUME NEW A \in Allowlists, NEW c \in Configurations, NEW f,
         AuthorizationLoads(A), FilterAccepted(A, c, "QRTRUST_RUNTIME"),
         f \in FilterSubjects(A, c, "QRTRUST_RUNTIME")
  PROVE  f \in Seq(Words) /\ IsQrTrustSubscriberSubject(f) /\ SubjectAllowed(A, f)
<1>1. IsQrTrustSubscriberSubject(f) /\ SubjectAllowed(A, f)
  BY DEF FilterAccepted, SubjectMatchesStream
<1>2. CASE c # <<>> BY <1>1, <1>2, SubjectsOfWords DEF FilterSubjects
<1>3. CASE c = <<>>
  <2>1. PICK b \in A : \E tail \in MaterializationTails["QRTRUST_RUNTIME"] : f = Subject(b[2], tail)
    BY <1>3 DEF FilterSubjects, MaterializationSubjects
  <2>2. b \in Seq(Words) /\ Len(b) >= 4
    BY <2>1, SubjectsOfWords DEF AuthorizationLoads, IsQrTrustSubscriberSubject
  <2>3. b[2] \in Words BY <2>2
  <2>4. f = Subject(b[2], <<"runtime", "verdict", "observed">>) BY <2>1, VerdictTail
  <2> QED BY <1>1, <2>3, <2>4, Phrases, Versioned
<1> QED BY <1>1, <1>2, <1>3

\* Starts, deliveries, failures and changed allowlists keep the invariant.
LEMMA ObserverKeeps ==
  ASSUME ObserverInv, [RuntimeNext]_runtimeVars, allowlist \in Allowlists
  PROVE  ObserverInv' /\ allowlist' \in Allowlists
<1>1. ASSUME NEW A \in Allowlists, Authorize(A) PROVE ObserverInv' /\ allowlist' \in Allowlists
  BY <1>1 DEF Authorize, ObserverInv, FilterCovered
<1>2. ASSUME NEW m \in Messages, Receive(m) PROVE ObserverInv' /\ allowlist' \in Allowlists
  <2>1. worker.pc # "down" /\ worker'.pc = "received" /\ worker'.m = m /\ worker' \in Hands
    BY <1>2 DEF Receive, Idle, Hands
  <2>2. consumer'.filter = consumer.filter /\ granted' = granted /\ allowlist' = allowlist
    BY <1>2 DEF Receive
  <2>3. SubjectAllowed(consumer.filter, MessageSubject[m]) BY <1>2 DEF Receive, Open
  <2> QED BY <2>1, <2>2, <2>3 DEF ObserverInv, FilterCovered
<1>3. ASSUME NEW c \in Configurations, Start(c) PROVE ObserverInv' /\ allowlist' \in Allowlists
  <2>1. /\ granted' = allowlist /\ allowlist' = allowlist /\ worker'.pc = "idle"
        /\ AuthorizationLoads(allowlist) /\ FilterAccepted(allowlist, c, "QRTRUST_RUNTIME")
        /\ consumer'.filter = FilterSubjects(allowlist, c, "QRTRUST_RUNTIME")
        /\ worker' \in Hands
    BY <1>3 DEF Start, Authorized, Idle, NewConsumer, Hands
  <2>2. FilterCovered' BY <2>1, AcceptedFilter DEF FilterCovered
  <2> QED BY <2>1, <2>2, SubjectsOfWords DEF ObserverInv
<1>4. CASE Shutdown \/ Nak \/ Crash
  <2>1. /\ worker' \in Hands /\ worker'.pc # "received"
        /\ worker'.pc # "down" => worker.pc # "down"
        /\ granted' = granted /\ allowlist' = allowlist /\ consumer' = consumer
    BY <1>4 DEF Shutdown, Nak, Crash, Idle, Down, Hands
  <2> QED BY <2>1 DEF ObserverInv, FilterCovered
<1>5. CASE TerminateObservation \/ Insert \/ Ack
  <2>1. worker \in Hands BY DEF ObserverInv
  <2>2. worker.pc # "down" /\ worker'.pc # "received" /\ worker' \in Hands
    BY <1>5, <2>1 DEF TerminateObservation, Insert, Ack, Settle, Idle, Hands
  <2>3. granted' = granted /\ allowlist' = allowlist /\ consumer'.filter = consumer.filter
    <3>1. CASE TerminateObservation
      <4>1. consumer' = [consumer EXCEPT !.fate[worker.m] = "terminated"]
        BY <3>1 DEF TerminateObservation, Settle
      <4> QED BY <3>1, <4>1 DEF TerminateObservation
    <3>2. CASE Insert BY <3>2 DEF Insert
    <3>3. CASE Ack
      <4>1. consumer' = [consumer EXCEPT !.fate[worker.m] = "acked"] BY <3>3 DEF Ack, Settle
      <4> QED BY <3>3, <4>1 DEF Ack
    <3> QED BY <1>5, <3>1, <3>2, <3>3
  <2> QED BY <2>2, <2>3 DEF ObserverInv, FilterCovered
<1>6. ASSUME NEW m \in Messages, PublishArtifact(m) PROVE ObserverInv' /\ allowlist' \in Allowlists
  BY <1>6 DEF PublishArtifact, ObserverInv, FilterCovered
<1>7. CASE Tick \/ UNCHANGED runtimeVars
  BY <1>7 DEF Tick, runtimeVars, ObserverInv, FilterCovered
<1> QED BY <1>1, <1>2, <1>3, <1>4, <1>5, <1>6, <1>7 DEF RuntimeNext, Process

\* For every set of events, allowlists and configured filters, and whatever
\* operators change while the worker runs: an observation is inserted only when
\* the allowlist of the worker's start allows its subject, through the wildcards
\* of both, and never from the control-plane root (loadNatsSubscriberAuthorization,
\* ensureDurableConsumer).
THEOREM ObservationsAlwaysAuthorized == RuntimeSpec => OnlyAuthorizedSubjects
<1> DEFINE Safe == ObserverInv /\ allowlist \in Allowlists
           Allowed == \A m \in Messages : rows'[m] # rows[m] =>
              SubjectAllowed(granted, MessageSubject[m]) /\ MessageSubject[m][2] # ControlPlane
<1>1. RuntimeInit => Safe BY DEF RuntimeInit, ObserverInv, Hands, Down
<1>2. Safe /\ [RuntimeNext]_runtimeVars => Safe' BY ObserverKeeps
<1>3. ASSUME Safe, [RuntimeNext]_runtimeVars PROVE Allowed
  <2> SUFFICES ASSUME NEW m \in Messages, rows'[m] # rows[m]
               PROVE  SubjectAllowed(granted, MessageSubject[m]) /\ MessageSubject[m][2] # ControlPlane
    OBVIOUS
  <2> DEFINE s == MessageSubject[m]
  <2>1. Insert
    BY <1>3 DEF RuntimeNext, Process, Authorize, Receive, PublishArtifact, Start, Shutdown,
                TerminateObservation, Ack, Nak, Crash, Tick, runtimeVars
  <2>2. worker.m = m /\ Events[m].type = "runtime_verdict"
    BY <2>1 DEF Insert, Materializes, Supported
  <2>3. SubjectAllowed(consumer.filter, s) /\ FilterCovered /\ AuthorizationLoads(granted)
        /\ granted \subseteq Seq(Words)
    BY <1>3, <2>1, <2>2 DEF ObserverInv, Insert
  <2>4. m \in DOMAIN Events /\ Routable(Events[m].type, Events[m].root) BY DEF Messages
  <2>5. Events[m].root.token \in Words /\ Events[m].root.token # ControlPlane
    <3>1. Events[m] \in Event BY <2>4, EventsAssumption
    <3>2. Events[m].root \in [spelling : STRING, token : STRING] BY <3>1 DEF Event
    <3>3. "runtime_verdict" \notin ControlPlaneEventTypes BY DEF ControlPlaneEventTypes
    <3>4. Events[m].root.token \in STRING BY <3>2
    <3> QED BY <2>2, <2>4, <3>3, <3>4 DEF Words, Routable, ControlPlaneBoundary, NormalizeSubjectToken
  <2>6. s = Subject(Events[m].root.token, <<"runtime", "verdict", "observed">>)
    BY <2>2, VerdictTail DEF MessageSubject, SubjectOf, NormalizeSubjectToken
  <2>7. s \in Seq(Words) /\ s[2] = Events[m].root.token
    <3>1. LET u == Subject(Events[m].root.token, <<"runtime", "verdict", "observed">>)
          IN  u \in Seq(Words) /\ u[2] = Events[m].root.token
      BY <2>5, Phrases, Versioned
    <3> QED BY <2>6, <3>1
  <2>8. PICK f \in consumer.filter : NatsSubjectMatches(f, s) BY <2>3 DEF SubjectAllowed
  <2>9. PICK a \in granted : NatsSubjectMatches(a, f)
    BY <2>3, <2>8 DEF FilterCovered, SubjectAllowed
  <2> HIDE DEF s
  <2>10. NatsSubjectMatches(a, s)
    BY <2>3, <2>7, <2>8, <2>9, WildcardsCompose DEF FilterCovered, AuthorizationLoads
  <2> QED BY <2>5, <2>7, <2>9, <2>10 DEF SubjectAllowed, s
<1>4. Safe /\ [RuntimeNext]_runtimeVars => [Allowed]_runtimeVars BY <1>3
<1> QED BY <1>1, <1>2, <1>4, PTL DEF RuntimeSpec, OnlyAuthorizedSubjects
=============================================================================
