--------------------------- MODULE WebClientProofs ----------------------------
(***************************************************************************)
(* Proofs about the web client, for any number of clicks and mounts, any   *)
(* scenarios, picks and offered workflows.                                 *)
(*                                                                         *)
(* The lab: the timer of a hold keeps the decision it was started on, and  *)
(* that decision's start was posted then (HoldWasStarted). Answers replace *)
(* the decision on screen under it, but each of them is a response of the  *)
(* endpoint (DecisionIsAnswer), which asks for no hold on a green one.     *)
(*                                                                         *)
(* The operator page: every POST of a submission that took effect is in    *)
(* applied once (PostsAreCounted), for the paths of a form are distinct    *)
(* and no two submissions have a number in common (PostsAreApart).         *)
(***************************************************************************)
EXTENDS WebClient, FiniteSetTheorems, SequenceTheorems, TLAPS

-----------------------------------------------------------------------------
(* The lab *)

\* What is on screen is what the endpoint answered to some request.
DecisionIsAnswer ==
    decision.id # 0 => \E n, p : \E r \in Ratings : decision = Response(n, p, r)

\* A hold that is running was started on a decision that allows to open, and the
\* start was posted.
HoldWasStarted == hold.id # 0 => hold.open /\ Event("hold_start", hold) \in sent

OpenInv == DecisionIsAnswer /\ HoldWasStarted /\ OpenedWasAllowed

\* An answer asks for a hold exactly when an opening is allowed above green.
LEMMA AnswerHolds ==
    ASSUME DecisionIsAnswer, decision.id # 0
    PROVE  /\ decision.contract /\ decision.risk \in {"green", "amber", "red"}
           /\ decision.hold = (decision.open /\ decision.risk # "green")
  <1>1. PICK n, p : \E r \in Ratings : decision = Response(n, p, r)
    BY DEF DecisionIsAnswer
  <1>2. PICK r \in Ratings : decision = Response(n, p, r)
    BY <1>1
  <1>3. /\ decision.contract /\ decision.risk = r.risk /\ decision.open = r.open
        /\ decision.hold = (r.open /\ r.risk # "green")
    BY <1>2 DEF Response
  <1>4. r.risk \in {"green", "amber", "red"}
    BY DEF Ratings
  <1> QED
    BY <1>3, <1>4

\* What most steps do to the lab: nothing is opened, no event is taken back, the
\* hold goes on or ends, and a decision is shown or voided.
ShowsOnly ==
    /\ opened' = opened /\ sent \subseteq sent'
    /\ hold' \in {hold, NoDecision}
    /\ \/ decision' \in {decision, NoDecision}
       \/ \E n, p : \E r \in Ratings : decision' = Response(n, p, r)

\* Such a step keeps the invariant.
LEMMA ShowsOnlyKeeps ==
    ASSUME OpenInv, ShowsOnly
    PROVE  OpenInv'
  <1>1. NoDecision.id = 0
    BY DEF NoDecision
  <1>2. DecisionIsAnswer'
    BY <1>1 DEF OpenInv, ShowsOnly, DecisionIsAnswer
  <1>3. HoldWasStarted'
    BY <1>1 DEF OpenInv, ShowsOnly, HoldWasStarted, Event
  <1>4. OpenedWasAllowed'
    BY DEF OpenInv, ShowsOnly, OpenedWasAllowed, Event
  <1> QED
    BY <1>2, <1>3, <1>4 DEF OpenInv

\* The hold button is kept or dropped, nothing else.
LEMMA KeepHoldOrDrop ==
    ASSUME KeepHold
    PROVE  hold' \in {hold, NoDecision}
  BY DEF KeepHold

\* Everything the user does on the lab page keeps the invariant.
LEMMA LabUserKeepsOpen ==
    ASSUME OpenInv, LabUser
    PROVE  OpenInv'
  <1>1. ASSUME NEW s \in Steps, goToStep(s)
        PROVE  ShowsOnly
    BY <1>1, KeepHoldOrDrop DEF goToStep, ShowsOnly
  <1>2. CASE EditForm
    BY <1>2, ShowsOnlyKeeps DEF EditForm, ShowsOnly
  <1>3. CASE updateScannedPayload
    BY <1>3, ShowsOnlyKeeps, KeepHoldOrDrop DEF updateScannedPayload, ShowDecision, ShowsOnly
  <1>4. CASE generateDemo
    BY <1>4, ShowsOnlyKeeps DEF generateDemo, generateDemoFor, ShowsOnly
  <1>5. CASE generateComparisonDemo
    BY <1>5, ShowsOnlyKeeps DEF generateComparisonDemo, generateDemoFor, ShowsOnly
  <1>6. CASE checkScannerDecision
    BY <1>6, ShowsOnlyKeeps DEF checkScannerDecision, ShowsOnly
  <1>7. CASE verifyScannedPayload
    BY <1>7, ShowsOnlyKeeps DEF verifyScannedPayload, ShowsOnly
  <1>8. CASE handleImageSelection
    BY <1>8, ShowsOnlyKeeps DEF handleImageSelection, ShowsOnly
  <1>9. CASE verifyCurrent
    BY <1>9, ShowsOnlyKeeps DEF verifyCurrent, ShowsOnly
  <1>10. CASE startCamera
    BY <1>10, ShowsOnlyKeeps DEF startCamera, ShowsOnly
  <1>11. CASE StopPressed
    BY <1>11, ShowsOnlyKeeps DEF StopPressed, ShowsOnly
  <1>12. CASE OpenPressed
    <2>1. decision.id # 0 /\ decision.open /\ ~decision.hold
      BY <1>12 DEF OpenPressed, OpenShown, HoldShown
    <2>5. decision.risk = "green"
      BY <2>1, AnswerHolds DEF OpenInv
    <2>2. opened' \subseteq opened \cup {decision} /\ sent \subseteq sent'
      BY <1>12 DEF OpenPressed, openScannerDestination, recordScannerUxEvent
    <2>3. OpenedWasAllowed'
      BY <2>1, <2>2, <2>5 DEF OpenInv, OpenedWasAllowed, Event
    <2>4. DecisionIsAnswer' /\ HoldWasStarted'
      BY <1>12, <2>2 DEF OpenPressed, OpenInv, DecisionIsAnswer, HoldWasStarted, Event
    <2> QED
      BY <2>3, <2>4 DEF OpenInv
  <1>13. CASE VerdictLinkPressed
    <2>1. decision.id # 0 /\ decision.open /\ VerdictTone(decision) = "green"
      BY <1>13 DEF VerdictLinkPressed, VerdictOpens, OpenShown
    <2>2. decision.contract /\ decision.hold = (decision.open /\ decision.risk # "green")
      BY <2>1, AnswerHolds DEF OpenInv
    <2>3. decision.risk \in {"green", "amber", "red"}
      BY <2>1, AnswerHolds DEF OpenInv
    <2>5. decision.risk = "green" /\ ~decision.hold
      BY <2>1, <2>2, <2>3 DEF VerdictTone
    <2>6. OpenedWasAllowed'
      BY <1>13, <2>1, <2>5 DEF VerdictLinkPressed, OpenInv, OpenedWasAllowed, Event
    <2>7. DecisionIsAnswer' /\ HoldWasStarted'
      BY <1>13 DEF VerdictLinkPressed, OpenInv, DecisionIsAnswer, HoldWasStarted, Event
    <2> QED
      BY <2>6, <2>7 DEF OpenInv
  <1>14. CASE startScannerHold
    <2>1. decision.open /\ hold' = decision /\ opened' = opened /\ decision' = decision
      BY <1>14 DEF startScannerHold, HoldShown, OpenShown
    <2>2. sent' = sent \cup {Event("hold_start", decision)}
      BY <1>14 DEF startScannerHold, recordScannerUxEvent, KeptEvents
    <2> QED
      BY <2>1, <2>2 DEF OpenInv, DecisionIsAnswer, HoldWasStarted, OpenedWasAllowed, Event
  <1>15. CASE cancelScannerDestination
    BY <1>15, ShowsOnlyKeeps DEF cancelScannerDestination, recordScannerUxEvent, ShowsOnly
  <1>16. CASE issueLocalLabKey
    BY <1>16, ShowsOnlyKeeps DEF issueLocalLabKey, ShowsOnly
  <1> QED
    BY <1>1, <1>2, <1>3, <1>4, <1>5, <1>6, <1>7, <1>8, <1>9, <1>10, <1>11, <1>12, <1>13,
       <1>14, <1>15, <1>16, ShowsOnlyKeeps DEF LabUser

\* So do the timers of the page: the one of a hold opens the decision it has kept.
LEMMA LabTimerKeepsOpen ==
    ASSUME OpenInv, LabTimer
    PROVE  OpenInv'
  <1>1. CASE ScanTick
    BY <1>1, ShowsOnlyKeeps DEF ScanTick, ShowsOnly
  <1>2. CASE loadScanActivity
    BY <1>2, ShowsOnlyKeeps DEF loadScanActivity, ShowsOnly
  <1>3. CASE completeScannerHold
    <2>1. hold.open /\ Event("hold_start", hold) \in sent
      BY <1>3 DEF completeScannerHold, OpenInv, HoldWasStarted
    <2>2. opened' \subseteq opened \cup {hold} /\ sent \subseteq sent'
      BY <1>3 DEF completeScannerHold, openScannerDestination, recordScannerUxEvent
    <2>3. hold' = NoDecision /\ decision' = decision /\ NoDecision.id = 0
      BY <1>3 DEF completeScannerHold, NoDecision
    <2> QED
      BY <2>1, <2>2, <2>3 DEF OpenInv, DecisionIsAnswer, HoldWasStarted, OpenedWasAllowed, Event
  <1> QED
    BY <1>1, <1>2, <1>3 DEF LabTimer

\* So does every answer: the decision of a late one replaces what is shown, and
\* leaves the decision of a running hold alone.
LEMMA LabAnswerKeepsOpen ==
    ASSUME OpenInv, NEW c, LabAnswer(c)
    PROVE  OpenInv'
  <1>1. CASE GenerateAnswered(c)
    BY <1>1, KeepHoldOrDrop, ShowsOnlyKeeps DEF GenerateAnswered, ShowDecision, ShowsOnly
  <1>2. CASE GenerateFailed(c)
    BY <1>2, KeepHoldOrDrop, ShowsOnlyKeeps DEF GenerateFailed, ShowsOnly
  <1>3. CASE DecisionAnswered(c)
    BY <1>3, KeepHoldOrDrop, ShowsOnlyKeeps
       DEF DecisionAnswered, DecisionEnds, ShowDecision, recordScannerUxEvent, ShowsOnly
  <1>4. CASE DecisionTonePlayed(c) \/ DecisionFailed(c)
    BY <1>4, ShowsOnlyKeeps
       DEF DecisionTonePlayed, DecisionEnds, recordScannerUxEvent, DecisionFailed, ShowsOnly
  <1>5. CASE ImageDecoded(c)
    BY <1>5, KeepHoldOrDrop, ShowsOnlyKeeps DEF ImageDecoded, ShowDecision, ShowsOnly
  <1>6. CASE VerifyAnswered(c)
    BY <1>6, KeepHoldOrDrop, ShowsOnlyKeeps DEF VerifyAnswered, ShowsOnly
  <1>7. CASE VerifyTonePlayed(c) \/ VerifyFailed(c)
    BY <1>7, ShowsOnlyKeeps DEF VerifyTonePlayed, VerifyFailed, ShowsOnly
  <1>8. CASE StreamGranted(c) \/ CameraPlays(c) \/ StartFails(c)
    BY <1>8, ShowsOnlyKeeps DEF StreamGranted, CameraPlays, StartFails, ShowsOnly
  <1>9. CASE ScanAgain(c) \/ ScanDecides(c) \/ ScanFails(c)
    BY <1>9, ShowsOnlyKeeps DEF ScanAgain, ScanDecides, ScanFails, ShowsOnly
  <1>10. CASE ScanCaptured(c)
    BY <1>10, KeepHoldOrDrop, ShowsOnlyKeeps DEF ScanCaptured, ShowDecision, ShowsOnly
  <1>11. CASE ActivityAnswered(c) \/ ActivityFailed(c)
    BY <1>11, ShowsOnlyKeeps DEF ActivityAnswered, ActivityFailed, ShowsOnly
  <1>12. CASE KeyIssued(c) \/ KeyIssueFails(c)
    BY <1>12, ShowsOnlyKeeps DEF KeyIssued, KeyIssueFails, ShowsOnly
  <1> QED
    BY <1>1, <1>2, <1>3, <1>4, <1>5, <1>6, <1>7, <1>8, <1>9, <1>10, <1>11, <1>12 DEF LabAnswer

\* Whatever the order of scans, answers and presses and however often routes are
\* left, the page opens only what its decision allowed, and an amber or red one only
\* after a hold was started on it (useLabController.ts).
THEOREM OpenedAlwaysAllowed == Spec => []OpenedWasAllowed
  <1>1. Init => OpenInv
    BY DEF Init, LabInit, NoDecision, OpenInv, DecisionIsAnswer, HoldWasStarted, OpenedWasAllowed
  <1>2. OpenInv /\ [Next]_vars => OpenInv'
    <2> SUFFICES ASSUME OpenInv, [Next]_vars
                 PROVE  OpenInv'
      OBVIOUS
    <2>1. ASSUME UNCHANGED labVars
          PROVE  OpenInv'
      BY <2>1, ShowsOnlyKeeps DEF labVars, ShowsOnly
    <2>2. ASSUME NEW r \in Routes, Leave(r)
          PROVE  OpenInv'
      BY <2>2, ShowsOnlyKeeps DEF Leave, LabUnmount, ShowsOnly
    <2> QED
      BY <2>1, <2>2, LabUserKeepsOpen, LabTimerKeepsOpen, LabAnswerKeepsOpen
         DEF Next, Answered, vars
  <1>3. OpenInv => OpenedWasAllowed
    BY DEF OpenInv
  <1> QED
    BY <1>1, <1>2, <1>3, PTL DEF Spec

-----------------------------------------------------------------------------
(* The operator page *)

\* The paths a form posts to.
Paths ==
    {"root-programs", "delegated-authorities", "trust-keys", "trust-keys/status", "issuers",
     "issuers/status", "domain-proofs", "destination-policies", "destination-policies/status",
     "nats/subscribers", "runtime-providers", "outbox/events/remediate"}

\* A continuation, and the one of a submission whose paths are still to be posted.
Call(op, inst, n, rest) == [op |-> op, inst |-> inst, n |-> n, rest |-> rest]
Rest(todo, done, fit) == [todo |-> todo, done |-> done, fit |-> fit]
IsCall(c) == c = Call(c.op, c.inst, c.n, c.rest)
Distinct(s) == \A i, j \in DOMAIN s : s[i] = s[j] => i = j
IsTodo(s) == s \in Seq(Paths) /\ s # <<>> /\ Distinct(s)

\* The POSTs of submission n that took effect.
Effects(n) == {a \in applied : a[1] = n}

\* Submissions are numbered by clicks.
PostsAreApart ==
    /\ clicks \in Nat /\ \A c \in calls : IsCall(c)
    /\ \A c \in calls : c.op = "post" => c.n \in 1 .. clicks
    /\ \A c, d \in calls : c.op = "post" /\ d.op = "post" /\ c.n = d.n => c = d

\* A submission under way has posted what its counter says and none of the rest.
PostsAreCounted ==
    /\ IsFiniteSet(applied) /\ \A a \in applied : a[1] \in 1 .. clicks
    /\ \A c \in calls : c.op = "post" =>
        /\ c.rest = Rest(c.rest.todo, c.rest.done, c.rest.fit)
        /\ IsTodo(c.rest.todo) /\ Cardinality(Effects(c.n)) = c.rest.done
        /\ \A i \in DOMAIN c.rest.todo : <<c.n, c.rest.todo[i]>> \notin applied

\* A submission that is reported has nothing left to post.
ReportedIsOver ==
    message.says = "recorded" =>
        message.n \in 1 .. clicks /\ \A c \in calls : c.op = "post" => c.n # message.n

WorkflowInv == PostsAreApart /\ PostsAreCounted /\ ReportedIsOver /\ RecordedWorkflowIsWhole

\* No submission is begun or carried on: what is new among the continuations is of
\* other requests.
CallsKept == \A c \in calls' : IsCall(c) /\ (c.op = "post" => c \in calls)

\* What most steps do to the submissions: they post nothing and report nothing.
LeavesPosts ==
    /\ applied' = applied /\ clicks' \in {clicks, clicks + 1} /\ CallsKept
    /\ message' = message \/ message'.says # "recorded"

\* Such a step keeps the invariant.
LEMMA LeavesPostsKeeps ==
    ASSUME WorkflowInv, LeavesPosts
    PROVE  WorkflowInv'
  <1>1. clicks \in Nat /\ clicks' \in Nat /\ \A k \in 1 .. clicks : k \in 1 .. clicks'
    BY DEF WorkflowInv, PostsAreApart, LeavesPosts
  <1>2. PostsAreApart'
    BY <1>1 DEF WorkflowInv, PostsAreApart, LeavesPosts, CallsKept
  <1>3. PostsAreCounted'
    <2>1. \A n : Effects(n)' = Effects(n)
      BY DEF Effects, LeavesPosts
    <2> QED
      BY <1>1, <2>1 DEF WorkflowInv, PostsAreCounted, LeavesPosts, CallsKept
  <1>4. ReportedIsOver'
    BY <1>1 DEF WorkflowInv, ReportedIsOver, LeavesPosts, CallsKept
  <1>5. RecordedWorkflowIsWhole'
    BY DEF WorkflowInv, RecordedWorkflowIsWhole, LeavesPosts
  <1> QED
    BY <1>2, <1>3, <1>4, <1>5 DEF WorkflowInv

\* A handler of another request is begun.
LEMMA StartKeepsCalls ==
    ASSUME WorkflowInv, NEW op, op # "post", NEW flag, NEW rest, Start(op, flag, rest)
    PROVE  CallsKept
  BY DEF WorkflowInv, PostsAreApart, Start, CallsKept, IsCall, Call

\* A continuation is done.
LEMMA DoneKeepsCalls ==
    ASSUME WorkflowInv, calls' \subseteq calls
    PROVE  CallsKept
  BY DEF WorkflowInv, PostsAreApart, CallsKept

\* A handler ends.
LEMMA FinishKeepsCalls ==
    ASSUME WorkflowInv, NEW c, NEW flag, Finish(c, flag)
    PROVE  CallsKept
  BY DoneKeepsCalls DEF Finish

\* Another continuation goes on with its rest.
LEMMA Continued ==
    ASSUME NEW c, IsCall(c), NEW rest
    PROVE  [c EXCEPT !.rest = rest] = Call(c.op, c.inst, c.n, rest)
  BY DEF IsCall, Call

\* That is none of a submission.
LEMMA ContinueKeepsCalls ==
    ASSUME WorkflowInv, NEW c \in calls, c.op # "post", NEW rest, Continue(c, rest)
    PROVE  CallsKept
  <1>1. IsCall(c) /\ \A d \in calls : IsCall(d)
    BY DEF WorkflowInv, PostsAreApart
  <1>2. calls' = (calls \ {c}) \cup {Call(c.op, c.inst, c.n, rest)}
    BY <1>1, Continued DEF Continue
  <1>3. IsCall(Call(c.op, c.inst, c.n, rest)) /\ Call(c.op, c.inst, c.n, rest).op # "post"
    BY DEF IsCall, Call
  <1> QED
    BY <1>1, <1>2, <1>3 DEF CallsKept

\* The lab page neither posts nor reports a workflow.
LEMMA LabKeepsWorkflows ==
    ASSUME WorkflowInv, UNCHANGED opVars,
           LabUser \/ LabTimer \/ \E c \in calls : LabAnswer(c)
    PROVE  WorkflowInv'
  <1> USE DEF LeavesPosts, tabVars, Click
  <1>1. applied' = applied /\ message' = message
    BY DEF opVars, pageVars
  <1> SUFFICES clicks' \in {clicks, clicks + 1} /\ CallsKept
    BY <1>1, LeavesPostsKeeps
  <1>2. CASE LabUser
    <2>1. CASE calls' = calls
      BY <1>2, <2>1, DoneKeepsCalls
         DEF LabUser, goToStep, EditForm, updateScannedPayload, generateDemo, generateComparisonDemo,
             generateDemoFor, checkScannerDecision, verifyScannedPayload, handleImageSelection,
             verifyCurrent, startCamera, StopPressed, OpenPressed, VerdictLinkPressed,
             startScannerHold, cancelScannerDestination, issueLocalLabKey
    <2>2. CASE calls' # calls
      <3>1. CASE generateDemo \/ generateComparisonDemo
        BY <2>2, <3>1, StartKeepsCalls DEF generateDemo, generateComparisonDemo, generateDemoFor
      <3>2. CASE checkScannerDecision \/ verifyScannedPayload \/ handleImageSelection
        BY <3>2, StartKeepsCalls
           DEF checkScannerDecision, verifyScannedPayload, handleImageSelection
      <3>3. CASE verifyCurrent \/ startCamera \/ issueLocalLabKey
        BY <3>3, StartKeepsCalls DEF verifyCurrent, startCamera, issueLocalLabKey
      <3> QED
        BY <1>2, <2>2, <3>1, <3>2, <3>3
           DEF LabUser, goToStep, EditForm, updateScannedPayload, StopPressed, OpenPressed,
               VerdictLinkPressed, startScannerHold, cancelScannerDestination
    <2> QED
      BY <2>1, <2>2
  <1>3. CASE LabTimer
    <2>1. \A d \in calls : IsCall(d)
      BY DEF WorkflowInv, PostsAreApart
    <2>2. CASE ScanTick
      BY <2>1, <2>2 DEF ScanTick, CallsKept, IsCall, Call
    <2>3. CASE loadScanActivity
      BY <2>1, <2>3 DEF loadScanActivity, CallsKept, IsCall, Call
    <2>4. CASE completeScannerHold
      BY <2>1, <2>4 DEF completeScannerHold, CallsKept
    <2> QED
      BY <1>3, <2>2, <2>3, <2>4 DEF LabTimer
  <1>4. CASE \E c \in calls : LabAnswer(c)
    <2>1. PICK c \in calls : LabAnswer(c)
      BY <1>4
    <2>2. clicks' = clicks
      BY <2>1
         DEF LabAnswer, GenerateAnswered, GenerateFailed, DecisionAnswered,
             DecisionTonePlayed, DecisionFailed, ImageDecoded, VerifyAnswered,
             VerifyTonePlayed, VerifyFailed, StreamGranted, CameraPlays, StartFails,
             ScanAgain, ScanCaptured, ScanDecides, ScanFails, ActivityAnswered, ActivityFailed,
             KeyIssued, KeyIssueFails
    <2>3. CASE GenerateAnswered(c) \/ GenerateFailed(c) \/ VerifyTonePlayed(c) \/ VerifyFailed(c)
      BY <2>3, FinishKeepsCalls DEF GenerateAnswered, GenerateFailed, VerifyTonePlayed, VerifyFailed
    <2>11. CASE VerifyAnswered(c)
      BY <2>11, ContinueKeepsCalls DEF VerifyAnswered
    <2>4. CASE DecisionTonePlayed(c) \/ DecisionFailed(c)
      BY <2>4, FinishKeepsCalls DEF DecisionTonePlayed, DecisionEnds, DecisionFailed
    <2>12. CASE DecisionAnswered(c)
      <3>1. c.op # "post"
        BY <2>12 DEF DecisionAnswered, DecisionFlag
      <3> QED
        BY <2>12, <3>1, FinishKeepsCalls, ContinueKeepsCalls DEF DecisionAnswered, DecisionEnds
    <2>5. CASE ImageDecoded(c)
      BY <2>5, FinishKeepsCalls, ContinueKeepsCalls DEF ImageDecoded
    <2>6. CASE StreamGranted(c)
      BY <2>6, FinishKeepsCalls, ContinueKeepsCalls DEF StreamGranted, AttachStream
    <2>7. CASE CameraPlays(c) \/ StartFails(c) \/ ScanAgain(c) \/ ScanFails(c)
      BY <2>7, FinishKeepsCalls DEF CameraPlays, StartFails, ScanAgain, ScanFails
    <2>8. CASE ScanCaptured(c) \/ ScanDecides(c)
      BY <2>8, ContinueKeepsCalls DEF ScanCaptured, ScanDecides
    <2>9. CASE ActivityAnswered(c) \/ ActivityFailed(c)
      BY <2>9, DoneKeepsCalls DEF ActivityAnswered, ActivityFailed
    <2>10. CASE KeyIssued(c) \/ KeyIssueFails(c)
      BY <2>10, FinishKeepsCalls DEF KeyIssued, KeyIssueFails
    <2> QED
      BY <2>1, <2>2, <2>3, <2>4, <2>5, <2>6, <2>7, <2>8, <2>9, <2>10, <2>11, <2>12 DEF LabAnswer
  <1> QED
    BY <1>2, <1>3, <1>4

-----------------------------------------------------------------------------
\* Every form posts to at least one path and to none twice.
LEMMA FormsPostApart ==
    ASSUME NEW w \in Workflows, NEW posts \in ManagementWorkflowForm(w)
    PROVE  IsTodo([i \in DOMAIN posts |-> posts[i].path])
  <1>1. \/ posts \in {AuthoritySetupForm, IssuerEnrollmentForm, IssuerStatusForm, DomainProofForm,
                      DestinationPolicyForm, DestinationPolicyStatusForm, RuntimeProviderForm,
                      NatsSubscriberForm, OutboxRemediationForm}
        \/ posts \in {TrustKeyForm(scope, update) :
                        scope \in {"root_program", "delegated_authority"}, update \in BOOLEAN}
    BY DEF ManagementWorkflowForm
  <1>2. \/ \E p \in Paths : \E x : posts = <<Post(p, x)>>
        \/ \E p, q \in Paths : \E x, y : p # q /\ posts = <<Post(p, x), Post(q, y)>>
    <2>1. CASE posts = AuthoritySetupForm
      BY <2>1 DEF AuthoritySetupForm, Paths
    <2>2. CASE posts \in {TrustKeyForm(scope, update) :
                            scope \in {"root_program", "delegated_authority"}, update \in BOOLEAN}
      <3>1. PICK scope \in {"root_program", "delegated_authority"}, update \in BOOLEAN :
              posts = TrustKeyForm(scope, update)
        BY <2>2
      <3>2. \E x, y : posts = IF update THEN <<Post("trust-keys", x), Post("trust-keys/status", y)>>
                             ELSE <<Post("trust-keys", x)>>
        BY <3>1, Zenon DEF TrustKeyForm
      <3> QED
        BY <3>2 DEF Paths
    <2>3. CASE posts \in {IssuerEnrollmentForm, IssuerStatusForm, DomainProofForm,
                          DestinationPolicyForm, DestinationPolicyStatusForm, RuntimeProviderForm,
                          NatsSubscriberForm, OutboxRemediationForm}
      BY <2>3 DEF IssuerEnrollmentForm, IssuerStatusForm, DomainProofForm, DestinationPolicyForm,
                  DestinationPolicyStatusForm, RuntimeProviderForm, NatsSubscriberForm,
                  OutboxRemediationForm, Paths
    <2> QED
      BY <1>1, <2>1, <2>2, <2>3
  <1>3. \A p, x : Post(p, x).path = p
    BY DEF Post
  <1>4. CASE \E p \in Paths : \E x : posts = <<Post(p, x)>>
    <2>1. PICK p \in Paths : \E x : posts = <<Post(p, x)>>
      BY <1>4
    <2>2. PICK x : posts = <<Post(p, x)>>
      BY <2>1
    <2>3. [i \in DOMAIN posts |-> posts[i].path] = <<p>>
      BY <1>3, <2>2
    <2> QED
      BY <2>3 DEF IsTodo, Distinct
  <1>5. CASE \E p, q \in Paths : \E x, y : p # q /\ posts = <<Post(p, x), Post(q, y)>>
    <2>1. PICK p, q \in Paths : \E x, y : p # q /\ posts = <<Post(p, x), Post(q, y)>>
      BY <1>5
    <2>2. PICK x, y : p # q /\ posts = <<Post(p, x), Post(q, y)>>
      BY <2>1
    <2>3. [i \in DOMAIN posts |-> posts[i].path] = <<p, q>>
      BY <1>3, <2>2
    <2> QED
      BY <2>2, <2>3 DEF IsTodo, Distinct
  <1> QED
    BY <1>2, <1>4, <1>5

\* A new submission has a number of its own, under which nothing was posted.
LEMMA SubmitKeepsWorkflows ==
    ASSUME WorkflowInv, NEW w \in Workflows, submitManagementWorkflow(w)
    PROVE  WorkflowInv'
  <1>1. clicks \in Nat /\ clicks' = clicks + 1 /\ applied' = applied
    BY DEF WorkflowInv, PostsAreApart, submitManagementWorkflow, Click
  <1>2. CASE ~token
    <2>1. LeavesPosts
      BY <1>1, <1>2, DoneKeepsCalls DEF submitManagementWorkflow, LeavesPosts, NoMessage
    <2> QED
      BY <2>1, LeavesPostsKeeps
  <1>3. CASE token
    <2>a. PICK posts \in ManagementWorkflowForm(w) : \E fit :
            calls' = calls \cup
              {Call("post", mount, clicks',
                    Rest([i \in DOMAIN posts |-> posts[i].path], 0, fit))}
      BY <1>3 DEF submitManagementWorkflow, Call, Rest
    <2>1. PICK fit :
            calls' = calls \cup
              {Call("post", mount, clicks',
                    Rest([i \in DOMAIN posts |-> posts[i].path], 0, fit))}
      BY <2>a
    <2> DEFINE todo == [i \in DOMAIN posts |-> posts[i].path]
               new == Call("post", mount, clicks', Rest(todo, 0, fit))
    <2>2. IsTodo(todo)
      BY FormsPostApart
    <2>3. calls' = calls \cup {new} /\ message' = message
      BY <1>3, <2>1 DEF submitManagementWorkflow
    <2> HIDE DEF todo
    <2>4. /\ IsCall(new) /\ new.op = "post" /\ new.n = clicks + 1
          /\ new.rest = Rest(todo, 0, fit) /\ new.rest.todo = todo /\ new.rest.done = 0
          /\ new.rest = Rest(new.rest.todo, new.rest.done, new.rest.fit)
      BY <1>1 DEF IsCall, Call, Rest
    <2> HIDE DEF new
    <2>5. \A n : Effects(n)' = Effects(n)
      BY <1>1 DEF Effects
    <2>6. Effects(clicks + 1) = {} /\ \A x : <<clicks + 1, x>> \notin applied
      BY <1>1 DEF WorkflowInv, PostsAreCounted, Effects
    <2>7. \A k \in 1 .. clicks : k \in 1 .. clicks' /\ k # clicks + 1
      BY <1>1
    <2>8. clicks' \in Nat /\ clicks + 1 \in 1 .. clicks'
      BY <1>1
    <2>9. PostsAreApart'
      BY <2>3, <2>4, <2>7, <2>8 DEF WorkflowInv, PostsAreApart
    <2>10. PostsAreCounted'
      BY <1>1, <2>2, <2>3, <2>4, <2>5, <2>6, <2>7, FS_EmptySet DEF WorkflowInv, PostsAreCounted
    <2>11. ReportedIsOver'
      BY <2>3, <2>4, <2>7 DEF WorkflowInv, ReportedIsOver
    <2>12. RecordedWorkflowIsWhole'
      BY <1>1, <2>3 DEF WorkflowInv, RecordedWorkflowIsWhole
    <2> QED
      BY <2>9, <2>10, <2>11, <2>12 DEF WorkflowInv
  <1> QED
    BY <1>2, <1>3

\* A POST of submission c takes effect: one more effect of c, and of c only.
LEMMA EffectAdded ==
    ASSUME WorkflowInv, NEW c \in calls, c.op = "post",
           applied' = applied \cup {<<c.n, Head(c.rest.todo)>>}
    PROVE  /\ IsFiniteSet(applied')
           /\ \A a \in applied' : a[1] \in 1 .. clicks
           /\ Cardinality(Effects(c.n)') = c.rest.done + 1
           /\ \A n : n # c.n => Effects(n)' = Effects(n)
  <1> DEFINE e == <<c.n, Head(c.rest.todo)>>
  <1>1. /\ IsFiniteSet(applied) /\ c.n \in 1 .. clicks /\ IsTodo(c.rest.todo)
        /\ Cardinality(Effects(c.n)) = c.rest.done
        /\ \A i \in DOMAIN c.rest.todo : <<c.n, c.rest.todo[i]>> \notin applied
    BY DEF WorkflowInv, PostsAreApart, PostsAreCounted
  <1>2. e \notin applied
    <2>1. 1 \in DOMAIN c.rest.todo /\ Head(c.rest.todo) = c.rest.todo[1]
      BY <1>1 DEF IsTodo
    <2> QED
      BY <1>1, <2>1
  <1>3. Effects(c.n)' = Effects(c.n) \cup {e} /\ e \notin Effects(c.n)
    BY <1>2 DEF Effects
  <1>4. IsFiniteSet(Effects(c.n))
    BY <1>1, FS_Subset DEF Effects
  <1>5. Cardinality(Effects(c.n) \cup {e}) = Cardinality(Effects(c.n)) + 1
    BY <1>3, <1>4, FS_AddElement
  <1>6. IsFiniteSet(applied \cup {e})
    BY <1>1, FS_AddElement
  <1>7. \A a \in applied' : a[1] \in 1 .. clicks
    BY <1>1 DEF WorkflowInv, PostsAreCounted
  <1>8. \A n : n # c.n => Effects(n)' = Effects(n)
    BY DEF Effects
  <1> QED
    BY <1>1, <1>3, <1>5, <1>6, <1>7, <1>8

\* The effect of c is on no other submission's count or rest, and on no report made.
LEMMA OthersUndisturbed ==
    ASSUME WorkflowInv, NEW c \in calls, c.op = "post",
           applied' = applied \/ applied' = applied \cup {<<c.n, Head(c.rest.todo)>>}
    PROVE  /\ \A d \in calls : d.op = "post" /\ d # c =>
                /\ Cardinality(Effects(d.n)') = d.rest.done
                /\ \A i \in DOMAIN d.rest.todo : <<d.n, d.rest.todo[i]>> \notin applied'
           /\ \A n : message.says = "recorded" /\ n = message.n => Effects(n)' = Effects(n)
  <1>1. \A d \in calls : d.op = "post" /\ d # c => d.n # c.n
    BY DEF WorkflowInv, PostsAreApart
  <1>2. message.says = "recorded" => message.n # c.n
    BY DEF WorkflowInv, ReportedIsOver
  <1>3. \A n : n # c.n => Effects(n)' = Effects(n)
    BY DEF Effects
  <1> QED
    <2>1. \A d \in calls : d.op = "post" => Cardinality(Effects(d.n)) = d.rest.done
      BY DEF WorkflowInv, PostsAreCounted
    <2>2. \A d \in calls : d.op = "post" =>
            \A i \in DOMAIN d.rest.todo : <<d.n, d.rest.todo[i]>> \notin applied
      BY DEF WorkflowInv, PostsAreCounted
    <2>3. \A n, x : n # c.n /\ <<n, x>> \in applied' => <<n, x>> \in applied
      OBVIOUS
    <2>4. \A d \in calls : d.op = "post" /\ d # c => Cardinality(Effects(d.n)') = d.rest.done
      BY <1>1, <1>3, <2>1
    <2>5. \A d \in calls : d.op = "post" /\ d # c =>
            \A i \in DOMAIN d.rest.todo : <<d.n, d.rest.todo[i]>> \notin applied'
      BY <1>1, <2>2, <2>3
    <2> QED
      BY <1>2, <1>3, <2>4, <2>5

\* The paths that remain once the first was posted to.
LEMMA TodoGoesOn ==
    ASSUME NEW s, IsTodo(s), Len(s) > 1
    PROVE  /\ IsTodo(Tail(s))
           /\ \A i \in DOMAIN Tail(s) :
               Tail(s)[i] # Head(s) /\ \E j \in DOMAIN s : Tail(s)[i] = s[j]
  <1>1. s \in Seq(Paths) /\ s # <<>> /\ Distinct(s)
    BY DEF IsTodo
  <1>2. /\ Tail(s) \in Seq(Paths) /\ Len(Tail(s)) = Len(s) - 1 /\ Head(s) = s[1]
        /\ Len(s) \in Nat /\ DOMAIN s = 1 .. Len(s) /\ DOMAIN Tail(s) = 1 .. Len(s) - 1
        /\ \A i \in 1 .. Len(s) - 1 : Tail(s)[i] = s[i + 1]
    BY <1>1, LenProperties, HeadTailProperties
  <1>3. \A i \in DOMAIN Tail(s) : i + 1 \in DOMAIN s /\ i + 1 # 1 /\ Tail(s)[i] = s[i + 1]
    BY <1>2
  <1>4. \A i, j \in DOMAIN Tail(s) : i + 1 = j + 1 => i = j
    BY <1>2
  <1>5. Distinct(Tail(s))
    BY <1>1, <1>3, <1>4 DEF Distinct
  <1>6. 1 \in DOMAIN s
    BY <1>2
  <1>7. \A i \in DOMAIN Tail(s) : Tail(s)[i] # Head(s)
    BY <1>1, <1>2, <1>3, <1>6 DEF Distinct
  <1>8. Tail(s) # <<>>
    <2>1. 1 \in DOMAIN Tail(s)
      BY <1>2
    <2> QED
      BY <2>1
  <1> QED
    BY <1>2, <1>3, <1>5, <1>7, <1>8 DEF IsTodo

\* Otherwise it was the last one.
LEMMA TodoAtItsEnd ==
    ASSUME NEW s, IsTodo(s), ~(Len(s) > 1)
    PROVE  Len(s) = 1
  <1>1. s \in Seq(Paths) /\ s # <<>>
    BY DEF IsTodo
  <1>2. PICK k \in Nat \ {0} : k = Len(s)
    BY <1>1, EmptySeq
  <1>3. ~(k > 1)
    BY <1>2
  <1>4. k = 1
    BY <1>3
  <1> QED
    BY <1>2, <1>4

\* The rest of a submission once its first POST was answered.
LEMMA PostCounted ==
    ASSUME NEW r, r = Rest(r.todo, r.done, r.fit), r.done \in Nat
    PROVE  [r EXCEPT !.todo = Tail(@), !.done = @ + 1] = Rest(Tail(r.todo), r.done + 1, r.fit)
  <1>1. PICK done : done = r.done + 1
    OBVIOUS
  <1>2. PICK s : s = [r EXCEPT !.todo = Tail(@)]
    OBVIOUS
  <1>3. s = Rest(Tail(r.todo), r.done, r.fit)
    BY <1>2 DEF Rest
  <1>4. [s EXCEPT !.done = @ + 1] = [s EXCEPT !.done = done]
    BY <1>1, <1>3, Zenon DEF Rest
  <1>5. [s EXCEPT !.done = done] = Rest(Tail(r.todo), done, r.fit)
    <2>1. ASSUME NEW t, NEW d, NEW f
          PROVE  [Rest(t, d, f) EXCEPT !.done = done] = Rest(t, done, f)
      BY DEF Rest
    <2> QED
      BY <1>3, <2>1, Zenon
  <1> QED
    BY <1>1, <1>2, <1>4, <1>5, Zenon

\* A POST is answered, which may be the last one.
LEMMA AnswerKeepsWorkflows ==
    ASSUME WorkflowInv, NEW c \in calls, PostAnswered(c)
    PROVE  WorkflowInv'
  <1> DEFINE todo == c.rest.todo
             rest == Rest(Tail(todo), c.rest.done + 1, c.rest.fit)
             next == Call("post", c.inst, c.n, rest)
  <1>1. c.op = "post" /\ applied' = applied \cup {<<c.n, Head(todo)>>} /\ clicks' = clicks
    BY DEF PostAnswered, tabVars
  <1>2. /\ IsCall(c) /\ c.n \in 1 .. clicks /\ IsTodo(todo) /\ clicks \in Nat
        /\ c.rest = Rest(todo, c.rest.done, c.rest.fit)
        /\ \A i \in DOMAIN todo : <<c.n, todo[i]>> \notin applied
        /\ Cardinality(Effects(c.n)) = c.rest.done /\ IsFiniteSet(applied)
    BY <1>1 DEF WorkflowInv, PostsAreApart, PostsAreCounted
  <1>3. c.rest.done \in Nat
    <2>1. IsFiniteSet(Effects(c.n))
      BY <1>2, FS_Subset DEF Effects
    <2> QED
      BY <1>2, <2>1, FS_CardinalityType
  <1>4. /\ IsFiniteSet(applied')
        /\ \A a \in applied' : a[1] \in 1 .. clicks
        /\ Cardinality(Effects(c.n)') = c.rest.done + 1
    BY <1>1, EffectAdded
  <1>5. /\ \A d \in calls : d.op = "post" /\ d # c =>
             /\ Cardinality(Effects(d.n)') = d.rest.done
             /\ \A i \in DOMAIN d.rest.todo : <<d.n, d.rest.todo[i]>> \notin applied'
        /\ \A n : message.says = "recorded" /\ n = message.n => Effects(n)' = Effects(n)
    BY <1>1, OthersUndisturbed
  <1>6. CASE Len(todo) > 1
    <2>1. Continue(c, [c.rest EXCEPT !.todo = Tail(@), !.done = @ + 1]) /\ message' = message
      BY <1>6 DEF PostAnswered
    <2>2. [c.rest EXCEPT !.todo = Tail(@), !.done = @ + 1] = rest
      BY <1>2, <1>3, PostCounted
    <2>3. calls' = (calls \ {c}) \cup {next}
      <3>1. [c EXCEPT !.rest = rest] = Call(c.op, c.inst, c.n, rest)
        BY <1>2, Continued
      <3> QED
        BY <1>1, <2>1, <2>2, <3>1, Zenon DEF Continue
    <2>4. /\ IsCall(next) /\ next.op = "post" /\ next.n = c.n
          /\ next.rest = Rest(next.rest.todo, next.rest.done, next.rest.fit)
          /\ next.rest.todo = Tail(todo) /\ next.rest.done = c.rest.done + 1
      BY DEF IsCall, Call, Rest
    <2>5. IsTodo(Tail(todo)) /\ \A i \in DOMAIN Tail(todo) : <<c.n, Tail(todo)[i]>> \notin applied'
      <3>1. /\ IsTodo(Tail(todo))
            /\ \A i \in DOMAIN Tail(todo) :
                Tail(todo)[i] # Head(todo) /\ \E j \in DOMAIN todo : Tail(todo)[i] = todo[j]
        BY <1>2, <1>6, TodoGoesOn
      <3>2. \A i \in DOMAIN Tail(todo) : <<c.n, Tail(todo)[i]>> \notin applied
        BY <1>2, <3>1
      <3> QED
        BY <1>1, <3>1, <3>2
    <2> HIDE DEF next
    <2>6. PostsAreApart'
      BY <1>1, <1>2, <2>3, <2>4 DEF WorkflowInv, PostsAreApart
    <2>7. PostsAreCounted'
      BY <1>1, <1>4, <1>5, <2>3, <2>4, <2>5 DEF WorkflowInv, PostsAreCounted
    <2>8. ReportedIsOver'
      BY <1>1, <2>1, <2>3, <2>4 DEF WorkflowInv, ReportedIsOver
    <2>9. RecordedWorkflowIsWhole'
      BY <1>5, <2>1 DEF WorkflowInv, RecordedWorkflowIsWhole, Effects
    <2> QED
      BY <2>6, <2>7, <2>8, <2>9 DEF WorkflowInv
  <1>7. CASE ~(Len(todo) > 1)
    <2>1. Len(todo) = 1
      BY <1>2, <1>7, TodoAtItsEnd
    <2>2. message' = message \/ message' = Recorded(c)
      BY <1>7 DEF PostAnswered
    <2>3. \A d \in calls' : IsCall(d) /\ (d.op = "post" => d \in calls \ {c})
      BY <1>7 DEF PostAnswered, EvidenceCall, WorkflowInv, PostsAreApart, IsCall, Call
    <2>4. Recorded(c).says = "recorded" /\ Recorded(c).n = c.n /\ Recorded(c).posts = 1 + c.rest.done
      BY <2>1 DEF Recorded
    <2>5. PostsAreApart'
      BY <1>1, <2>3 DEF WorkflowInv, PostsAreApart
    <2>6. PostsAreCounted'
      BY <1>1, <1>4, <1>5, <2>3 DEF WorkflowInv, PostsAreCounted
    <2>7. ReportedIsOver'
      BY <1>1, <1>2, <2>2, <2>3, <2>4 DEF WorkflowInv, ReportedIsOver, PostsAreApart
    <2>8. RecordedWorkflowIsWhole'
      <3>1. c.rest.done + 1 = 1 + c.rest.done
        BY <1>3
      <3> QED
        BY <1>4, <1>5, <2>2, <2>4, <3>1 DEF WorkflowInv, RecordedWorkflowIsWhole, Effects
    <2> QED
      BY <2>5, <2>6, <2>7, <2>8 DEF WorkflowInv
  <1> QED
    BY <1>6, <1>7

\* A submission is given up, its last POST having taken effect or not.
LEMMA FailureKeepsWorkflows ==
    ASSUME WorkflowInv, NEW c \in calls, PostFails(c)
    PROVE  WorkflowInv'
  <1>1. /\ c.op = "post" /\ calls' = calls \ {c} /\ clicks' = clicks
        /\ applied' = applied \/ applied' = applied \cup {<<c.n, Head(c.rest.todo)>>}
        /\ message' = message \/ message'.says # "recorded"
    BY DEF PostFails, tabVars, NoMessage
  <1>2. IsFiniteSet(applied') /\ \A a \in applied' : a[1] \in 1 .. clicks
    BY <1>1, EffectAdded DEF WorkflowInv, PostsAreCounted
  <1>3. /\ \A d \in calls : d.op = "post" /\ d # c =>
             /\ Cardinality(Effects(d.n)') = d.rest.done
             /\ \A i \in DOMAIN d.rest.todo : <<d.n, d.rest.todo[i]>> \notin applied'
        /\ \A n : message.says = "recorded" /\ n = message.n => Effects(n)' = Effects(n)
    BY <1>1, OthersUndisturbed
  <1>4. PostsAreApart'
    BY <1>1 DEF WorkflowInv, PostsAreApart
  <1>5. PostsAreCounted'
    BY <1>1, <1>2, <1>3 DEF WorkflowInv, PostsAreCounted
  <1>6. ReportedIsOver'
    BY <1>1 DEF WorkflowInv, ReportedIsOver
  <1>7. RecordedWorkflowIsWhole'
    BY <1>1, <1>3 DEF WorkflowInv, RecordedWorkflowIsWhole, Effects
  <1> QED
    BY <1>4, <1>5, <1>6, <1>7 DEF WorkflowInv

\* Evidence and keys leave the submissions alone.
LEMMA OtherRequestsKeepWorkflows ==
    ASSUME WorkflowInv, NEW c \in calls, OpAnswer(c), ~PostAnswered(c), ~PostFails(c)
    PROVE  WorkflowInv'
  <1> USE DEF LeavesPosts, tabVars, opVars, pageVars
  <1>1. CASE EvidenceLoaded(c)
    <2>1. message' = message \/ message'.says # "recorded"
      BY <1>1 DEF EvidenceLoaded, NoMessage
    <2> QED
      BY <1>1, <2>1, FinishKeepsCalls, LeavesPostsKeeps DEF EvidenceLoaded
  <1>2. CASE ClientKeyIssued(c)
    BY <1>2, FinishKeepsCalls, LeavesPostsKeeps DEF ClientKeyIssued
  <1>3. CASE ServerIssues(c) \/ ServerLists(c) \/ ServerRevokes(c)
    BY <1>3, ContinueKeepsCalls, LeavesPostsKeeps DEF ServerIssues, ServerLists, ServerRevokes
  <1>4. CASE ManagementKeyIssued(c) \/ ManagementKeysListed(c)
    BY <1>4, FinishKeepsCalls, LeavesPostsKeeps DEF ManagementKeyIssued, ManagementKeysListed
  <1>5. CASE ManagementKeyRevoked(c)
    BY <1>5, DoneKeepsCalls, LeavesPostsKeeps DEF ManagementKeyRevoked
  <1>6. CASE KeyRequestFails(c)
    BY <1>6, FinishKeepsCalls, DoneKeepsCalls, LeavesPostsKeeps DEF KeyRequestFails
  <1> QED
    BY <1>1, <1>2, <1>3, <1>4, <1>5, <1>6 DEF OpAnswer

\* What the user does on the operator page.
LEMMA OpUserKeepsWorkflows ==
    ASSUME WorkflowInv, OpUser
    PROVE  WorkflowInv'
  <1> USE DEF LeavesPosts, tabVars, callVars, opVars, pageVars, Click
  <1>1. CASE setAdminToken
    BY <1>1, DoneKeepsCalls, LeavesPostsKeeps DEF setAdminToken
  <1>2. CASE loadManagementEvidence
    BY <1>2, StartKeepsCalls, DoneKeepsCalls, LeavesPostsKeeps DEF loadManagementEvidence, NoMessage
  <1>3. CASE \E w \in Offered : submitManagementWorkflow(w)
    BY <1>3, OperatorAssumption, SubmitKeepsWorkflows
  <1>4. CASE issueKey \/ issueManagementKey \/ refreshManagementKeys
    BY <1>4, StartKeepsCalls, LeavesPostsKeeps
       DEF issueKey, issueManagementKey, refreshManagementKeys, Ask
  <1>5. CASE clearSharedKey
    BY <1>5, DoneKeepsCalls, LeavesPostsKeeps DEF clearSharedKey
  <1>6. CASE \E k \in KeyIds : revokeManagementKey(k)
    <2>1. CallsKept
      BY <1>6 DEF revokeManagementKey, CallsKept, IsCall, Call, WorkflowInv, PostsAreApart
    <2> QED
      BY <1>6, <2>1, LeavesPostsKeeps DEF revokeManagementKey
  <1> QED
    BY <1>1, <1>2, <1>3, <1>4, <1>5, <1>6 DEF OpUser

\* A workflow is reported recorded only when every POST of its form took effect, for
\* any workflows, failures between two POSTs, answers that are lost and pages that
\* are left (useOperatorController.ts).
THEOREM RecordedAlwaysWhole == Spec => []RecordedWorkflowIsWhole
  <1>1. Init => WorkflowInv
    <2>1. Init => PostsAreApart /\ ReportedIsOver /\ RecordedWorkflowIsWhole
      BY DEF Init, TabInit, OpInit, NoMessage, PostsAreApart, ReportedIsOver, RecordedWorkflowIsWhole
    <2>2. Init => PostsAreCounted
      BY FS_EmptySet DEF Init, TabInit, OpInit, PostsAreCounted
    <2> QED
      BY <2>1, <2>2 DEF WorkflowInv
  <1>2. WorkflowInv /\ [Next]_vars => WorkflowInv'
    <2> SUFFICES ASSUME WorkflowInv, [Next]_vars
                 PROVE  WorkflowInv'
      OBVIOUS
    <2>1. CASE LabUser /\ UNCHANGED opVars
      BY <2>1, LabKeepsWorkflows
    <2>2. CASE LabTimer /\ UNCHANGED opVars
      BY <2>2, LabKeepsWorkflows
    <2>3. CASE OpUser
      BY <2>3, OpUserKeepsWorkflows
    <2>4. CASE \E c \in calls : Answered(c)
      BY <2>4, LabKeepsWorkflows, AnswerKeepsWorkflows, FailureKeepsWorkflows,
         OtherRequestsKeepWorkflows DEF Answered
    <2>5. CASE \E r \in Routes : Leave(r)
      BY <2>5, DoneKeepsCalls, LeavesPostsKeeps
         DEF Leave, Navigate, OpUnmount, NoMessage, LeavesPosts
    <2>6. CASE UNCHANGED vars
      BY <2>6, DoneKeepsCalls, LeavesPostsKeeps
         DEF vars, tabVars, callVars, opVars, pageVars, LeavesPosts
    <2> QED
      BY <2>1, <2>2, <2>3, <2>4, <2>5, <2>6 DEF Next
  <1>3. WorkflowInv => RecordedWorkflowIsWhole
    BY DEF WorkflowInv
  <1> QED
    BY <1>1, <1>2, <1>3, PTL DEF Spec
===============================================================================
