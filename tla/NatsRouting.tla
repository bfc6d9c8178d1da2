----------------------------- MODULE NatsRouting -----------------------------
(***************************************************************************)
(* Which NATS subject an event is published on, in which stream it is      *)
(* kept, and which subjects a subscriber may consume. A subject is the     *)
(* sequence of its tokens; the characters a token may hold are left out.   *)
(***************************************************************************)
EXTENDS Naturals, Sequences

\* A root_program_id as it is spelled in an envelope, and the token that
\* normalizeSubjectToken makes of it: lower case, every run of other characters
\* one "-", none at the ends. Several spellings share a token; "" is none.
RootId(spelling, token) == [spelling |-> spelling, token |-> token]

NormalizeSubjectToken(id) == id.token

\* eventTypeToSubjectTail (trust-key.status.changed shares the tail of
\* certificate.status.changed).
SubjectTails ==
    [root_manifest |-> <<"root", "manifest", "published">>,
     root_program |-> <<"root", "program", "upserted">>,
     authority |-> <<"authority", "delegated", "upserted">>,
     authority_manifest |-> <<"authority", "manifest", "published">>,
     issuer_enrollment |-> <<"issuer", "enrollment", "requested">>,
     domain_proof |-> <<"issuer", "domain-proof", "upserted">>,
     issuer_record |-> <<"issuer", "record", "published">>,
     issuer_status |-> <<"issuer", "status", "changed">>,
     policy_upserted |-> <<"destination", "policy", "upserted">>,
     policy_status |-> <<"destination", "policy", "status", "changed">>,
     policy_published |-> <<"destination", "policy", "published">>,
     policy_revoked |-> <<"destination", "policy", "revoked">>,
     trust_key |-> <<"certificate", "trust-key", "upserted">>,
     trust_key_status |-> <<"certificate", "trust-key", "status", "changed">>,
     certificate_status |-> <<"certificate", "status", "changed">>,
     cache_refreshed |-> <<"verifier", "cache", "refreshed">>,
     runtime_provider |-> <<"runtime", "provider", "upserted">>,
     runtime_verdict |-> <<"runtime", "verdict", "observed">>,
     subscriber_authorization |-> <<"authority", "nats-subscriber", "authorization", "changed">>,
     scanner_decision |-> <<"scanner", "decision", "recorded">>,
     scanner_spike |-> <<"scanner", "spike", "detected">>]

ControlPlane == "control-plane"
ControlPlaneEventTypes == {"runtime_provider", "subscriber_authorization"}

StreamSubjectFamilies ==
    [QRTRUST_GOVERNANCE |-> {"root", "authority", "issuer", "destination", "certificate"},
     QRTRUST_RUNTIME |-> {"runtime", "verifier"},
     QRTRUST_SCANNER_AUDIT |-> {"scanner"}]

Families == UNION {StreamSubjectFamilies[n] : n \in DOMAIN StreamSubjectFamilies}

\* enforceControlPlaneBoundary, after the root was normalized.
ControlPlaneBoundary(type, id) ==
    (NormalizeSubjectToken(id) = ControlPlane) <=> (type \in ControlPlaneEventTypes)

\* jetStreamMessageFromEvent fails on unknown types, on roots that form no token
\* and on the control-plane boundary.
Routable(type, id) ==
    /\ type \in DOMAIN SubjectTails
    /\ NormalizeSubjectToken(id) # ""
    /\ ControlPlaneBoundary(type, id)

Subject(root, tail) == <<"qrtrust", root>> \o tail \o <<"v1">>

SubjectOf(type, id) == Subject(NormalizeSubjectToken(id), SubjectTails[type])

StreamForSubject(s) ==
    CHOOSE n \in DOMAIN StreamSubjectFamilies : s[3] \in StreamSubjectFamilies[n]

\* qrTrustJetStreamDefinitions: the subjects each stream is created, or updated,
\* with.
StreamSubjects ==
    [QRTRUST_GOVERNANCE |-> {<<"qrtrust", "*", "root", ">">>, <<"qrtrust", "*", "authority", ">">>,
        <<"qrtrust", "*", "issuer", ">">>, <<"qrtrust", "*", "destination", ">">>,
        <<"qrtrust", "*", "certificate", ">">>},
     QRTRUST_RUNTIME |-> {<<"qrtrust", "*", "verifier", ">">>, <<"qrtrust", "*", "runtime", ">">>},
     QRTRUST_SCANNER_AUDIT |-> {<<"qrtrust", "*", "scanner", ">">>}]

-----------------------------------------------------------------------------
(* Subscriber authorization *)

ControlPlaneSubscriberSubjects ==
    {Subject(ControlPlane, SubjectTails[t]) : t \in ControlPlaneEventTypes}

\* qrtrust.<root>.<family>.<event>.v1 or qrtrust.<root>.<family>.>
IsQrTrustSubscriberSubject(s) ==
    /\ Len(s) >= 4 /\ s[1] = "qrtrust" /\ s[3] \in Families
    /\ \A i \in 1 .. Len(s) - 1 : s[i] # ">"
    /\ IF s[2] = ControlPlane THEN s \in ControlPlaneSubscriberSubjects
       ELSE IF s[Len(s)] = ">" THEN Len(s) = 4
       ELSE s[Len(s)] = "v1" /\ Len(s) >= 5

\* A single token of a pattern: itself or any token.
TokenMatches(allowed, token) == allowed = "*" \/ allowed = token

\* Mutant: the asterisk of the requested subject counts as a match, too.
SubjectsOverlap(allowed, s) ==
    \/ /\ Len(allowed) = Len(s)
       /\ \A i \in 1 .. Len(s) : TokenMatches(allowed[i], s[i]) \/ s[i] = "*"
    \/ /\ allowed[Len(allowed)] = ">" /\ Len(s) >= Len(allowed)
       /\ \A i \in 1 .. Len(allowed) - 1 : TokenMatches(allowed[i], s[i]) \/ s[i] = "*"

\* natsSubjectMatches, for a pattern whose ">" can only be its last token.
NatsSubjectMatches(allowed, s) ==
    IF allowed[Len(allowed)] = ">"
    THEN /\ Len(s) >= Len(allowed)
         /\ \A i \in 1 .. Len(allowed) - 1 : TokenMatches(allowed[i], s[i])
    ELSE /\ Len(s) = Len(allowed)
         /\ \A i \in 1 .. Len(allowed) : TokenMatches(allowed[i], s[i])

\* natsSubscriberSubjectAllowed
SubjectAllowed(subjects, s) == \E a \in subjects : NatsSubjectMatches(a, s)

\* The broker keeps the message in the stream the publisher expects.
Stored(stream, s) == StreamForSubject(s) = stream /\ SubjectAllowed(StreamSubjects[stream], s)

\* natsSubscriberSubjectMatchesStream
SubjectMatchesStream(stream, s) ==
    IsQrTrustSubscriberSubject(s) /\ s[3] \in StreamSubjectFamilies[stream]

\* streamMaterializationSubjects, without their wildcard root.
MaterializationTails ==
    [QRTRUST_GOVERNANCE |->
        {SubjectTails[t] : t \in {"root_manifest", "authority_manifest", "issuer_record",
            "issuer_status", "policy_published", "policy_revoked", "certificate_status"}},
     QRTRUST_RUNTIME |-> {SubjectTails["runtime_verdict"]},
     QRTRUST_SCANNER_AUDIT |-> {SubjectTails["scanner_decision"]}]

\* natsSubscriberMaterializationSubjectsForStream: every allowed subject of the
\* stream is narrowed to the subjects its worker materializes.
MaterializationSubjects(subjects, stream) ==
    UNION {{s \in {Subject(a[2], tail) : tail \in MaterializationTails[stream]} :
                NatsSubjectMatches(a, s)}
           : a \in {b \in subjects : SubjectMatchesStream(stream, b)}}

\* loadNatsSubscriberAuthorization: an active row all of whose subjects are well
\* formed. None is an inactive subscriber, or one without subjects.
AuthorizationLoads(subjects) ==
    subjects # {} /\ \A s \in subjects : IsQrTrustSubscriberSubject(s)

\* The filter of a worker's consumer: the configured subject or the narrowed
\* allowlist.
FilterSubjects(subjects, configured, stream) ==
    IF configured = <<>> THEN MaterializationSubjects(subjects, stream) ELSE {configured}

\* The worker starts with a non-empty filter inside its stream and allowlist.
FilterAccepted(subjects, configured, stream) ==
    LET filter == FilterSubjects(subjects, configured, stream) IN
    /\ filter # {}
    /\ \A s \in filter : SubjectMatchesStream(stream, s) /\ SubjectAllowed(subjects, s)
=============================================================================
