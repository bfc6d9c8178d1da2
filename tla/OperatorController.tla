-------------------------- MODULE OperatorController --------------------------
(***************************************************************************)
(* The operator page: useOperatorController.ts with the forms and buttons  *)
(* that call it.  A workflow is a sequence of POSTs, one awaited after the *)
(* other; keys are issued, listed and revoked; the evidence panel is       *)
(* reloaded after a workflow.  Answers arrive in any order.  The status    *)
(* and trust-store panels only show what they read and are left out.       *)
(***************************************************************************)
EXTENDS BrowserTab, Sequences, SequencesExt, FiniteSets

CONSTANT Offered   \* the workflows the user tries, a subset of Workflows

VARIABLES
  token,     \* whether an admin token is typed in
  message,   \* managementMessage: what it says, and of which submission
  evidence,  \* the evidence panels that hold an answer
  keys,      \* managementKeys: the status shown for each key, "none" if not shown
  latest,    \* latestIssuedManagementKeyId, 0 when no plaintext is shown
  submitting, \* submittingManagementWorkflowId, "none" when no flag is up
  revoking,  \* revokingManagementKeyId, 0 when none
  applied,   \* the server: the POSTs that took effect
  issued     \* the server: the status of each management key

pageVars == <<token, message, evidence, keys, latest, submitting, revoking>>
opVars == <<pageVars, applied, issued>>

Panels == {"outbox", "audit", "providers"}
KeyIds == 1..MaxClicks
NoKeys == [k \in KeyIds |-> "none"]
NoMessage == [says |-> "nothing", n |-> 0, posts |-> 0]

OpInit ==
  /\ token = FALSE /\ message = NoMessage /\ evidence = {}
  /\ keys = NoKeys /\ latest = 0 /\ submitting = "none" /\ revoking = 0
  /\ applied = {} /\ issued = NoKeys

(***************************************************************************)
(* The forms.  A submit is a sequence of POSTs.  The browser refuses an    *)
(* empty required field, but an entry of blanks passes it and is trimmed:  *)
(* the POST that carries such a field is for the server to refuse.         *)
(***************************************************************************)
Post(path, needs) == [path |-> path, needs |-> needs]

GovernanceScopeFields == {"root", "authority", "issuer"}

AuthoritySetupForm ==
  <<Post("root-programs", {"root", "rootName", "programScope", "algorithms"}),
    Post("delegated-authorities", {"root", "authority", "authorityName"})>>

\* A chosen status is a second POST, after the key was upserted.
TrustKeyForm(scope, statusUpdate) ==
  LET upsert == Post("trust-keys",
                     {"root", "key", "signer", "algorithm", "material"} \cup
                     IF scope = "delegated_authority" THEN {"authority"} ELSE {})
  IN  IF statusUpdate
      THEN <<upsert, Post("trust-keys/status", {"root", "key"})>> ELSE <<upsert>>

IssuerEnrollmentForm ==
  <<Post("issuers", GovernanceScopeFields \cup {"displayName"})>>
IssuerStatusForm == <<Post("issuers/status", GovernanceScopeFields)>>
DomainProofForm == <<Post("domain-proofs", GovernanceScopeFields \cup {"domain"})>>
DestinationPolicyForm ==
  <<Post("destination-policies",
         GovernanceScopeFields \cup {"policy", "destination", "finalUrl", "hosts"})>>
DestinationPolicyStatusForm ==
  <<Post("destination-policies/status", GovernanceScopeFields \cup {"policy"})>>
NatsSubscriberForm ==
  <<Post("nats/subscribers", {"subscriber", "displayName", "durable", "subjects"})>>
\* A blank lifetime becomes the default of 300 seconds.
RuntimeProviderForm == <<Post("runtime-providers", {"provider", "displayName"})>>
OutboxRemediationForm == <<Post("outbox/events/remediate", {"event"})>>

Workflows ==
  {"authority-setup", "trust-keys", "issuer-enrollment", "domain-proof",
   "destination-policy", "issuer-status", "policy-status", "runtime-providers",
   "nats-subscribers", "outbox-health", "audit-log"}

\* The forms of a workflow; the audit log has none, only a refresh button.
ManagementWorkflowForm(w) ==
  LET forms ==
        {<<"authority-setup", AuthoritySetupForm>>,
         <<"issuer-enrollment", IssuerEnrollmentForm>>,
         <<"issuer-status", IssuerStatusForm>>,
         <<"domain-proof", DomainProofForm>>,
         <<"destination-policy", DestinationPolicyForm>>,
         <<"policy-status", DestinationPolicyStatusForm>>,
         <<"runtime-providers", RuntimeProviderForm>>,
         <<"nats-subscribers", NatsSubscriberForm>>,
         <<"outbox-health", OutboxRemediationForm>>} \cup
        {<<"trust-keys", TrustKeyForm(scope, update)>> :
            scope \in {"root_program", "delegated_authority"}, update \in BOOLEAN}
  IN  {f[2] : f \in {g \in forms : g[1] = w}}

\* How many POSTs of a submission the server can accept when one field (or
\* "nothing") was left blank.
Acceptable(posts, blank) ==
  Cardinality({i \in DOMAIN posts : \A j \in 1..i : blank \notin posts[j].needs})

ASSUME OperatorAssumption ==
  /\ Offered \subseteq Workflows
  /\ \A w \in Workflows : \A posts \in ManagementWorkflowForm(w) : Len(posts) \in 1..2

OnOperator == route = "operator"

setAdminToken ==
  /\ OnOperator /\ token' = ~token
  /\ UNCHANGED <<tabVars, callVars, message, evidence, keys, latest, submitting,
                 revoking, applied, issued>>

(***************************************************************************)
(* Evidence: one load at a time, three requests that settle together.      *)
(***************************************************************************)
EvidenceCall(n, report) == [op |-> "evidence", inst |-> mount, n |-> n, rest |-> report]
EvidenceInFlight == \E c \in calls : c.op = "evidence" /\ Current(c)

loadManagementEvidence ==
  /\ OnOperator /\ Click
  /\ IF token
     THEN Start("evidence", "evidence", TRUE) /\ UNCHANGED message
     ELSE /\ "evidence" \notin busy
          /\ message' = [NoMessage EXCEPT !.says = "tokenMissing"]
          /\ UNCHANGED callVars
  /\ UNCHANGED <<route, mount, storedKey, token, evidence, keys, latest,
                 submitting, revoking, applied, issued>>

\* A load that a workflow asked for ends that workflow's submission too.
EvidenceLoaded(c) ==
  /\ c.op = "evidence"
  /\ Finish(c, "evidence")
  /\ submitting' = IF Current(c) /\ ~c.rest THEN "none" ELSE submitting
  /\ \E ok \in SUBSET Panels :
       IF Current(c)
       THEN /\ evidence' = ok
            /\ message' = IF ~c.rest THEN message
                          ELSE IF ok = Panels THEN NoMessage
                          ELSE [NoMessage EXCEPT !.says = "partial"]
       ELSE UNCHANGED <<evidence, message>>
  /\ UNCHANGED <<tabVars, token, keys, latest, revoking, applied, issued>>

(***************************************************************************)
(* Workflows.  The button of a form is off while its own workflow is the   *)
(* one shown as submitting; the flag is one for all of them, so the end of *)
(* any submission puts it down.                                            *)
(***************************************************************************)
SubmitEnabled(w) == submitting # w

submitManagementWorkflow(w) ==
  /\ OnOperator /\ Click
  /\ IF token
     THEN /\ SubmitEnabled(w)
          /\ submitting' = w
          /\ \E posts \in ManagementWorkflowForm(w) :
             \E blank \in {"nothing"} \cup UNION {p.needs : p \in ToSet(posts)} :
               calls' = calls \cup
                 {[op |-> "post", inst |-> mount, n |-> clicks',
                   rest |-> [todo |-> [i \in DOMAIN posts |-> posts[i].path],
                             done |-> 0, fit |-> Acceptable(posts, blank)]]}
          /\ UNCHANGED message
     ELSE /\ ManagementWorkflowForm(w) # {} /\ SubmitEnabled(w)
          /\ message' = [NoMessage EXCEPT !.says = "tokenMissing"]
          /\ UNCHANGED <<calls, submitting>>
  /\ UNCHANGED <<route, mount, storedKey, busy, token, evidence, keys, latest,
                 revoking, applied, issued>>

\* The message of a workflow whose last POST was answered.
Recorded(c) == [says |-> "recorded", n |-> c.n,
                posts |-> Len(c.rest.todo) + c.rest.done]

\* Mutant: the answer of the first POST is reported as the workflow's.
FirstPostReports(c) ==
  /\ c.op = "post" /\ c.rest.done < c.rest.fit
  /\ applied' = applied \cup {<<c.n, Head(c.rest.todo)>>}
  /\ message' = IF Current(c) THEN Recorded(c) ELSE message
  /\ Continue(c, [c.rest EXCEPT !.todo = Tail(@), !.done = @ + 1])
  /\ UNCHANGED <<tabVars, busy, token, evidence, keys, latest, submitting, revoking,
                 issued>>

\* The first POST still to do is answered.  The last one reports, and hands
\* over to the evidence unless a load is under way already.
PostAnswered(c) ==
  /\ c.op = "post" /\ c.rest.done < c.rest.fit
  /\ applied' = applied \cup {<<c.n, Head(c.rest.todo)>>}
  /\ IF Len(c.rest.todo) > 1
     THEN /\ Continue(c, [c.rest EXCEPT !.todo = Tail(@), !.done = @ + 1])
          /\ UNCHANGED <<busy, submitting, message>>
     ELSE /\ message' = IF Current(c) THEN Recorded(c) ELSE message
          /\ IF EvidenceInFlight \/ ~Current(c)
             THEN /\ calls' = calls \ {c}
                  /\ submitting' = IF Current(c) THEN "none" ELSE submitting
                  /\ UNCHANGED busy
             ELSE /\ calls' = (calls \ {c}) \cup {EvidenceCall(c.n, FALSE)}
                  /\ busy' = busy \cup {"evidence"}
                  /\ UNCHANGED submitting
  /\ UNCHANGED <<tabVars, token, evidence, keys, latest, revoking, issued>>

\* A POST is refused, or lost before or after it took effect: the rest of the
\* workflow is given up.
PostFails(c) ==
  /\ c.op = "post"
  /\ \/ UNCHANGED applied
     \/ /\ c.rest.done < c.rest.fit
        /\ applied' = applied \cup {<<c.n, Head(c.rest.todo)>>}
  /\ calls' = calls \ {c}
  /\ IF Current(c)
     THEN submitting' = "none" /\ message' = [NoMessage EXCEPT !.says = "failed"]
     ELSE UNCHANGED <<submitting, message>>
  /\ UNCHANGED <<tabVars, busy, token, evidence, keys, latest, revoking, issued>>

(***************************************************************************)
(* Keys.  The server acts on a request before its answer is applied here,  *)
(* so the list an answer carries may be behind.                            *)
(***************************************************************************)
Ask(op, flag, rest) ==
  /\ OnOperator /\ Click /\ token
  /\ Start(op, flag, rest)
  /\ UNCHANGED <<route, mount, storedKey, opVars>>

\* A verifier client key: it goes to local storage, whatever route is shown.
issueKey == Ask("issueClient", "issuingClient", "key")
ClientKeyIssued(c) ==
  /\ c.op = "issueClient"
  /\ Finish(c, "issuingClient")
  /\ storeVerifierApiKey(c.n) \/ UNCHANGED storedKey
  /\ UNCHANGED <<route, mount, clicks, opVars>>

clearSharedKey ==
  /\ OnOperator /\ Click /\ storedKey # 0
  /\ clearStoredVerifierApiKey
  /\ UNCHANGED <<route, mount, callVars, opVars>>

issueManagementKey == Ask("issueManagement", "issuingManagement", "ask")
refreshManagementKeys == Ask("list", "refreshing", NoKeys)

\* The row's button: off for a revoked key and while this key is the one
\* shown as revoking; the plaintext on screen at the click is remembered.
revokeManagementKey(k) ==
  /\ keys[k] = "active"
  /\ OnOperator /\ Click /\ token /\ revoking # k
  /\ revoking' = k
  /\ calls' = calls \cup {[op |-> "revoke", inst |-> mount, n |-> k,
                          rest |-> [shown |-> latest = k, done |-> FALSE]]}
  /\ UNCHANGED <<route, mount, storedKey, busy, token, message, evidence, keys,
                 latest, submitting, applied, issued>>

\* The server's part of a request.
ServerIssues(c) ==
  /\ c.op = "issueManagement" /\ c.rest = "ask"
  /\ issued' = [issued EXCEPT ![c.n] = "active"]
  /\ Continue(c, "done")
  /\ UNCHANGED <<tabVars, busy, pageVars, applied>>

ServerLists(c) ==
  /\ c.op = "list" /\ c.rest = NoKeys /\ issued # NoKeys
  /\ Continue(c, issued)
  /\ UNCHANGED <<tabVars, busy, opVars>>

ServerRevokes(c) ==
  /\ c.op = "revoke" /\ ~c.rest.done
  /\ issued' = [issued EXCEPT ![c.n] = "revoked"]
  /\ Continue(c, [c.rest EXCEPT !.done = TRUE])
  /\ UNCHANGED <<tabVars, busy, pageVars, applied>>

ManagementKeyIssued(c) ==
  /\ c.op = "issueManagement" /\ c.rest = "done"
  /\ Finish(c, "issuingManagement")
  /\ IF Current(c)
     THEN keys' = [keys EXCEPT ![c.n] = "active"] /\ latest' = c.n
     ELSE UNCHANGED <<keys, latest>>
  /\ UNCHANGED <<tabVars, token, message, evidence, submitting, revoking, applied,
                 issued>>

ManagementKeysListed(c) ==
  /\ c.op = "list"
  /\ Finish(c, "refreshing")
  /\ keys' = IF Current(c) THEN c.rest ELSE keys
  /\ UNCHANGED <<tabVars, token, message, evidence, latest, submitting, revoking,
                 applied, issued>>

ManagementKeyRevoked(c) ==
  /\ c.op = "revoke" /\ c.rest.done
  /\ calls' = calls \ {c}
  /\ IF Current(c)
     THEN /\ revoking' = 0
          /\ keys' = [keys EXCEPT ![c.n] = IF @ = "none" THEN @ ELSE "revoked"]
          /\ latest' = IF c.rest.shown THEN 0 ELSE latest
     ELSE UNCHANGED <<revoking, keys, latest>>
  /\ UNCHANGED <<tabVars, busy, token, message, evidence, submitting, applied,
                 issued>>

\* Any of these requests is refused or its answer lost.
KeyRequestFails(c) ==
  /\ \/ c.op = "issueManagement" /\ Finish(c, "issuingManagement") /\ UNCHANGED revoking
     \/ c.op = "list" /\ Finish(c, "refreshing") /\ UNCHANGED revoking
     \/ /\ c.op = "revoke"
        /\ calls' = calls \ {c} /\ UNCHANGED busy
        /\ revoking' = IF Current(c) THEN 0 ELSE revoking
  /\ UNCHANGED <<tabVars, token, message, evidence, keys, latest, submitting,
                 applied, issued>>

OpUser ==
  \/ setAdminToken \/ loadManagementEvidence
  \/ \E w \in Offered : submitManagementWorkflow(w)
  \/ issueKey \/ clearSharedKey \/ issueManagementKey \/ refreshManagementKeys
  \/ \E k \in KeyIds : revokeManagementKey(k)

OpAnswer(c) ==
  \/ EvidenceLoaded(c) \/ PostAnswered(c) \/ PostFails(c)
  \/ ClientKeyIssued(c)
  \/ ServerIssues(c) \/ ServerLists(c) \/ ServerRevokes(c)
  \/ ManagementKeyIssued(c) \/ ManagementKeysListed(c) \/ ManagementKeyRevoked(c)
  \/ KeyRequestFails(c)

OpUnmount ==
  /\ token' = FALSE /\ message' = NoMessage /\ evidence' = {}
  /\ keys' = NoKeys /\ latest' = 0 /\ submitting' = "none" /\ revoking' = 0
  /\ UNCHANGED <<applied, issued>>
===============================================================================
