---------------------------- MODULE LabController -----------------------------
(***************************************************************************)
(* The lab page: useLabController.ts with the steps that call it.  Every   *)
(* handler is cut at its awaits: a first action runs up to the request, a  *)
(* later one runs the continuation when the answer, a failure or a device  *)
(* event comes back, in any order.  A continuation of an instance that is  *)
(* gone changes no component state, but what it does to local storage, to  *)
(* the camera and to the server happens all the same.                      *)
(***************************************************************************)
EXTENDS BrowserTab, LabViews

CONSTANTS
  Scenarios,  \* the scenarios offered, a subset of ScenarioKeys
  Linked,     \* what the link of the page may name for comparison
  Picks       \* what the expiry field may hold

ASSUME LabAssumption ==
  /\ "valid" \in Scenarios /\ Scenarios \subseteq ScenarioKeys
  /\ Linked \subseteq Scenarios \cup {"none"}

VARIABLES
  form,       \* scenario, compareScenario ("none" or a scenario), expiresAt
  artifact,   \* demo with generatedScenario and generatedExpiresAt
  payload,    \* scannedPayload
  decision,   \* scannerDecision
  verdict,    \* whether a signed verifier result is shown
  activity,   \* scanActivityState
  camera,     \* streamRef, isCameraRunning, scanLoopIdRef, scanPendingRef
  live,       \* the media streams whose tracks still run
  keyRef,     \* apiKey of each instance
  view,       \* activeStep and visitedSteps
  hold,       \* the decision a hold was started on
  opened,     \* decisions whose destination the browser opened
  sent        \* scanner UX events posted, of KeptEvents

labVars == <<form, artifact, payload, decision, verdict, activity, camera,
             live, keyRef, view, hold, opened, sent>>

NoArtifact == [env |-> 0]
NoDecision == [id |-> 0]
NoActivity == [env |-> 0]
Foreign == MaxClicks + 1        \* a payload that no artifact of the lab carries

Steps == 1..4
InitialForm == [scenario |-> "valid", compare |-> "none", expiry |-> NoPick]
IdleCamera == [stream |-> 0, running |-> FALSE, timer |-> FALSE, pending |-> FALSE]
InitialView == [step |-> 1, visited |-> {1}]

LabInit ==
  /\ form \in {[InitialForm EXCEPT !.compare = x] : x \in Linked}
  /\ artifact = NoArtifact /\ payload = 0
  /\ decision = NoDecision /\ verdict = FALSE /\ activity = NoActivity
  /\ camera = IdleCamera /\ live = {}
  /\ keyRef = [i \in 1..MaxMounts |-> 0] /\ view = InitialView
  /\ hold = NoDecision /\ opened = {} /\ sent = {}

On(step) == route = "lab" /\ view.step = step
HasKey(i) == keyRef[i] # 0

(***************************************************************************)
(* Decisions.  The colour comes from the score, and whether the QR may be  *)
(* opened from the decision's state and the payload: a plain URL of a      *)
(* known bad host is red and may be opened, a payload that is no URL is    *)
(* amber and may not.  Only a verified issuer scores below amber, and its  *)
(* destination may be opened.  A hold is asked for whenever an opening is  *)
(* allowed above green.  Every answer has a contract, so that its state    *)
(* colours nothing.                                                        *)
(***************************************************************************)
Ratings == {r \in [risk : {"green", "amber", "red"}, open : BOOLEAN] :
              r.risk = "green" => r.open}

Response(n, p, r) ==
  [id |-> n, payload |-> p, risk |-> r.risk, open |-> r.open,
   hold |-> r.open /\ r.risk # "green", contract |-> TRUE,
   state |-> IF r.risk = "green" THEN "verified_issuer" ELSE "unverified"]

OpenShown(d) == d.id # 0 /\ d.open
HoldShown(d) == OpenShown(d) /\ d.hold
VerdictOpens(d) == OpenShown(d) /\ VerdictTone(d) = "green"

\* The hold button lives as long as it is drawn: its timer survives a change
\* of the decision that leaves it on screen, and nothing else.
KeepHold == hold' = IF On(3)' /\ HoldShown(decision)' THEN hold ELSE NoDecision

ShowDecision(d) == decision' = d /\ verdict' = FALSE

Event(type, d) == [type |-> type, id |-> d.id]

\* Of the events posted the previews and the starts of holds are kept; what
\* came of an opening (open, cancel, hold_complete) is telemetry.
KeptEvents == {"preview", "hold_start"}
recordScannerUxEvent(types, d) ==
  sent' = sent \cup {Event(t, d) : t \in types \cap KeptEvents}

(***************************************************************************)
(* Steps and form.                                                         *)
(***************************************************************************)
deriveFlowState ==
  IF artifact.env = 0 THEN 2 ELSE IF verdict \/ decision.id # 0 THEN 4 ELSE 3

goToStep(s) ==
  /\ route = "lab" /\ s # view.step
  /\ s <= deriveFlowState \/ s \in view.visited
  /\ view' = [step |-> s, visited |-> view.visited \cup {s}]
  /\ UNCHANGED <<tabVars, form, artifact, payload, decision, verdict, activity,
                 busy, calls, camera, live, keyRef, opened, sent>>
  /\ KeepHold

\* The pickers of the scenario and the generate step; the expired scenario
\* switches the expiry field off.
EditForm ==
  /\ Click
  /\ \/ On(1) /\ \E x \in Scenarios : form' = [form EXCEPT !.scenario = x]
     \/ /\ On(1)
        /\ \E x \in Scenarios \cup {"none"} : form' = [form EXCEPT !.compare = x]
     \/ /\ On(2) /\ scenarioMeta[form.scenario].offset > 0
        /\ \E x \in Picks : form' = [form EXCEPT !.expiry = x]
  /\ form' # form
  /\ UNCHANGED <<route, mount, storedKey, artifact, payload, decision, verdict,
                 activity, busy, calls, camera, live, keyRef, view, hold,
                 opened, sent>>

\* The same for a payload typed on the scan step: it voids what was decided.
updateScannedPayload ==
  /\ Click /\ On(3)
  /\ payload' \in {0, Foreign} \ {payload}
  /\ ShowDecision(NoDecision)
  /\ UNCHANGED <<route, mount, storedKey, form, artifact, activity, busy, calls,
                 camera, live, keyRef, view, opened, sent>>
  /\ KeepHold

(***************************************************************************)
(* Camera.                                                                 *)
(***************************************************************************)
clearActiveStream == live' = live \ {camera.stream}
stopCamera == clearActiveStream /\ camera' = IdleCamera

(***************************************************************************)
(* Generation.  The scenario and the pick of the click travel with the     *)
(* request; form may have moved on when the answer arrives.                *)
(***************************************************************************)
generateDemoFor(s, previous) ==
  /\ Click /\ route = "lab"
  /\ IF expiryValidation(form.expiry) = "fine"
     THEN /\ Start("generate", "generating",
                   [scenario |-> s, expiry |-> form.expiry, previous |-> previous])
          /\ stopCamera
     ELSE "generating" \notin busy /\ UNCHANGED <<busy, calls, camera, live>>
  /\ UNCHANGED <<route, mount, storedKey, form, artifact, payload, decision,
                 verdict, activity, keyRef, opened, sent>>

\* The button of the generate step, off while the pick it shows is refused.
generateDemo ==
  /\ On(2)
  /\ \/ scenarioMeta[form.scenario].offset <= 0
     \/ expiryValidation(form.expiry) = "fine"
  /\ generateDemoFor(form.scenario, "none")
  /\ UNCHANGED <<view, hold>>

\* The verdict step loads the paired scenario and shows the generate step.
generateComparisonDemo ==
  /\ On(4) /\ form.compare # "none"
  /\ generateDemoFor(form.compare, form.scenario)
  /\ view' = [step |-> 2, visited |-> view.visited \cup {2}]
  /\ UNCHANGED hold

\* What the server seals: the requested scenario with its window.
Sealed(r) == [scenario |-> r.scenario,
              minutes |-> lifetimeMinutesFor(scenarioMeta[r.scenario], r.expiry)]

\* generatedScenario and generatedExpiresAt, set with the artifact.
GeneratedLabel(r) == [scenario |-> r.scenario, expiry |-> r.expiry]

GenerateAnswered(c) ==
  /\ c.op = "generate"
  /\ Finish(c, "generating")
  /\ IF Current(c)
     THEN /\ form' = [form EXCEPT !.scenario = c.rest.scenario,
                !.compare = IF c.rest.previous # "none" THEN c.rest.previous ELSE @]
          /\ artifact' = [env |-> c.n, sealed |-> Sealed(c.rest),
                          label |-> GeneratedLabel(c.rest)]
          /\ payload' = c.n
          /\ ShowDecision(NoDecision)
     ELSE UNCHANGED <<form, artifact, payload, decision, verdict>>
  /\ UNCHANGED <<tabVars, activity, camera, live, keyRef, view, opened, sent>>
  /\ KeepHold

\* A refused key: clearLabKey, for a 403 while this instance holds some key.
RefuseKey(c, forbidden) ==
  IF forbidden /\ HasKey(c.inst)
  THEN /\ clearStoredVerifierApiKey
       /\ keyRef' = IF Current(c) THEN [keyRef EXCEPT ![c.inst] = 0] ELSE keyRef
  ELSE UNCHANGED <<storedKey, keyRef>>

GenerateFailed(c) ==
  /\ c.op = "generate"
  /\ Finish(c, "generating")
  /\ \E forbidden \in BOOLEAN : RefuseKey(c, forbidden)
  /\ IF Current(c)
     THEN artifact' = NoArtifact /\ payload' = 0 /\ decision' = NoDecision
     ELSE UNCHANGED <<artifact, payload, decision>>
  /\ UNCHANGED <<route, mount, clicks, form, verdict, activity, camera, live,
                 view, opened, sent>>
  /\ KeepHold

(***************************************************************************)
(* Decisions and signed verification.  Nothing orders the answers: the one *)
(* that arrives last is shown.                                             *)
(***************************************************************************)
DecisionFlag == [check |-> "checking", typed |-> "verifyingScanned",
                 image |-> "decoding", scan |-> "scanning"]

checkScannerDecision ==
  /\ Click /\ On(3) /\ artifact.env # 0
  /\ Start("check", "checking", [phase |-> "decide", payload |-> artifact.env])
  /\ UNCHANGED <<route, mount, storedKey, form, artifact, payload, decision,
                 verdict, activity, camera, live, keyRef, view, hold, opened,
                 sent>>

verifyScannedPayload ==
  /\ Click /\ On(3) /\ payload # 0
  /\ Start("typed", "verifyingScanned", [phase |-> "decide", payload |-> payload])
  /\ UNCHANGED <<route, mount, storedKey, form, artifact, payload, decision,
                 verdict, activity, camera, live, keyRef, view, hold, opened,
                 sent>>

handleImageSelection ==
  /\ Click /\ On(3)
  /\ Start("image", "decoding", [phase |-> "decode", payload |-> 0])
  /\ UNCHANGED <<route, mount, storedKey, form, artifact, payload, decision,
                 verdict, activity, camera, live, keyRef, view, hold, opened,
                 sent>>

verifyCurrent ==
  /\ Click /\ On(2) /\ artifact.env # 0
  /\ Start("verify", "verifyingCurrent", [phase |-> "verify", payload |-> artifact.env])
  /\ payload' = artifact.env
  /\ UNCHANGED <<route, mount, storedKey, form, artifact, decision, verdict,
                 activity, camera, live, keyRef, view, hold, opened, sent>>

\* The end of runScannerDecision and of the handler that awaits it; a scan
\* may be started again.
DecisionEnds(c) ==
  /\ recordScannerUxEvent({"preview"}, [id |-> c.n])
  /\ Finish(c, DecisionFlag[c.op])
  /\ camera' = IF c.op = "scan" /\ Current(c)
               THEN [camera EXCEPT !.pending = FALSE] ELSE camera

\* runScannerDecision after its request: the decision replaces what is shown.
\* Green and red play a tone before the rest; scans, answers and presses may
\* come in between.
DecisionAnswered(c) ==
  /\ c.op \in DOMAIN DecisionFlag /\ c.rest.phase = "decide"
  /\ \E r \in Ratings :
       /\ IF Current(c) THEN ShowDecision(Response(c.n, c.rest.payload, r))
          ELSE UNCHANGED <<decision, verdict>>
       /\ IF r.risk = "amber" THEN DecisionEnds(c)
          ELSE /\ Continue(c, [c.rest EXCEPT !.phase = "tone"])
               /\ UNCHANGED <<busy, camera, sent>>
  /\ UNCHANGED <<tabVars, form, artifact, payload, activity, live, keyRef, view,
                 opened>>
  /\ KeepHold

\* emitVerificationFeedback is over; it swallows what the audio throws.
DecisionTonePlayed(c) ==
  /\ c.op \in DOMAIN DecisionFlag /\ c.rest.phase = "tone"
  /\ DecisionEnds(c)
  /\ UNCHANGED <<tabVars, form, artifact, payload, decision, verdict, activity,
                 live, keyRef, view, hold, opened>>

\* Mutant: the failure leaves the flag up.
DecisionFailsBusy(c) ==
  /\ c.op \in {"check", "typed", "image"} /\ c.rest.phase = "decide"
  /\ calls' = calls \ {c}
  /\ UNCHANGED <<tabVars, busy, labVars>>

\* The same request refused; a scan is handled with the camera below.
DecisionFailed(c) ==
  /\ c.op \in {"check", "typed", "image"} /\ c.rest.phase = "decide"
  /\ Finish(c, DecisionFlag[c.op])
  /\ UNCHANGED <<tabVars, form, artifact, payload, decision, verdict, activity,
                 camera, live, keyRef, view, hold, opened, sent>>

\* An image is decoded here or by the verifier; its payload is staged.
ImageDecoded(c) ==
  /\ c.op = "image" /\ c.rest.phase = "decode"
  /\ \/ /\ Continue(c, [phase |-> "decide", payload |-> Foreign])
        /\ busy' = busy
        /\ IF Current(c) THEN payload' = Foreign /\ ShowDecision(NoDecision)
           ELSE UNCHANGED <<payload, decision, verdict>>
     \/ Finish(c, "decoding") /\ UNCHANGED <<payload, decision, verdict>>
  /\ UNCHANGED <<tabVars, form, artifact, activity, camera, live, keyRef, view,
                 opened, sent>>
  /\ KeepHold

\* runScannedVerifier after its request.
VerifyAnswered(c) ==
  /\ c.op = "verify" /\ c.rest.phase = "verify"
  /\ Continue(c, [c.rest EXCEPT !.phase = "tone"])
  /\ IF Current(c) THEN decision' = NoDecision /\ verdict' = TRUE
     ELSE UNCHANGED <<decision, verdict>>
  /\ UNCHANGED <<tabVars, form, artifact, payload, activity, busy, camera, live,
                 keyRef, view, opened, sent>>
  /\ KeepHold

VerifyTonePlayed(c) ==
  /\ c.op = "verify" /\ c.rest.phase = "tone"
  /\ Finish(c, "verifyingCurrent")
  /\ UNCHANGED <<tabVars, form, artifact, payload, decision, verdict, activity,
                 camera, live, keyRef, view, hold, opened, sent>>

VerifyFailed(c) ==
  /\ c.op = "verify" /\ c.rest.phase = "verify"
  /\ Finish(c, "verifyingCurrent")
  /\ \E forbidden \in BOOLEAN : RefuseKey(c, forbidden)
  /\ UNCHANGED <<route, mount, clicks, form, artifact, payload, decision,
                 verdict, activity, camera, live, view, hold, opened, sent>>

(***************************************************************************)
(* The camera at work.                                                     *)
(***************************************************************************)
startCamera ==
  /\ Click /\ On(3) /\ ~camera.running
  /\ Start("start", "starting", "media")
  /\ UNCHANGED <<route, mount, storedKey, form, artifact, payload, decision,
                 verdict, activity, camera, live, keyRef, view, hold, opened,
                 sent>>

\* getUserMedia is granted.  Without a video element the handler throws and
\* its catch stops the stream that it has just been given.
AttachStream(c) ==
  IF Current(c) /\ On(3)
  THEN /\ camera' = [camera EXCEPT !.stream = c.n]
       /\ live' = live \cup {c.n}
       /\ Continue(c, "play") /\ busy' = busy
  ELSE /\ Finish(c, "starting")
       /\ IF Current(c) THEN stopCamera ELSE UNCHANGED <<camera, live>>

StreamGranted(c) ==
  /\ c.op = "start" /\ c.rest = "media"
  /\ AttachStream(c)
  /\ UNCHANGED <<tabVars, form, artifact, payload, decision, verdict, activity,
                 keyRef, view, hold, opened, sent>>

\* The video plays: the loop is scheduled, whether or not the stream was
\* stopped meanwhile.
CameraPlays(c) ==
  /\ c.op = "start" /\ c.rest = "play"
  /\ Finish(c, "starting")
  /\ camera' = IF Current(c) THEN [camera EXCEPT !.running = TRUE, !.timer = TRUE]
               ELSE camera
  /\ UNCHANGED <<tabVars, form, artifact, payload, decision, verdict, activity,
                 live, keyRef, view, hold, opened, sent>>

StartFails(c) ==
  /\ c.op = "start"
  /\ Finish(c, "starting")
  /\ IF Current(c) THEN stopCamera ELSE UNCHANGED <<camera, live>>
  /\ UNCHANGED <<tabVars, form, artifact, payload, decision, verdict, activity,
                 keyRef, view, hold, opened, sent>>

StopPressed ==
  /\ On(3) /\ camera.running
  /\ stopCamera
  /\ UNCHANGED <<tabVars, form, artifact, payload, decision,
                 verdict, activity, busy, calls, keyRef, view, hold, opened,
                 sent>>

\* scanCameraFrame up to the decoder; without a stream the loop ends here.
\* Off the scan step there is no video to take a frame from.
ScanTick ==
  /\ route = "lab" /\ camera.timer
  /\ IF camera.stream # 0 /\ ~camera.pending
     THEN /\ camera' = [camera EXCEPT !.timer = FALSE, !.pending = TRUE]
          /\ calls' = calls \cup {[op |-> "scan", inst |-> mount,
                                  n |-> camera.stream,
                                  rest |-> [phase |-> "decode", payload |-> 0,
                                            frame |-> On(3)]]}
     ELSE camera' = [camera EXCEPT !.timer = FALSE] /\ UNCHANGED calls
  /\ UNCHANGED <<tabVars, form, artifact, payload, decision, verdict, activity,
                 busy, live, keyRef, view, hold, opened, sent>>

\* No code in the frame, no video, a rate limit: the loop is scheduled again.
ScanAgain(c) ==
  /\ c.op = "scan" /\ c.rest.phase \in {"decode", "decide"}
  /\ Finish(c, "scanning")
  /\ camera' = IF Current(c) THEN [camera EXCEPT !.timer = TRUE, !.pending = FALSE]
               ELSE camera
  /\ UNCHANGED <<tabVars, form, artifact, payload, decision, verdict, activity,
                 live, keyRef, view, hold, opened, sent>>

\* A payload is read from the frame, if need be by the verifier while the user
\* leaves the step: it is staged, and after the capture tone the camera is
\* stopped and the decision asked for.
ScanCaptured(c) ==
  /\ c.op = "scan" /\ c.rest.phase = "decode" /\ c.rest.frame
  /\ Continue(c, [c.rest EXCEPT !.phase = "captured", !.payload = Foreign])
  /\ IF Current(c) THEN payload' = Foreign /\ ShowDecision(NoDecision)
     ELSE UNCHANGED <<payload, decision, verdict>>
  /\ UNCHANGED <<tabVars, form, artifact, activity, busy, camera, live, keyRef,
                 view, opened, sent>>
  /\ KeepHold

ScanDecides(c) ==
  /\ c.op = "scan" /\ c.rest.phase = "captured"
  /\ Continue(c, [c.rest EXCEPT !.phase = "decide"])
  /\ IF Current(c) THEN stopCamera ELSE UNCHANGED <<camera, live>>
  /\ UNCHANGED <<tabVars, form, artifact, payload, decision, verdict, activity,
                 busy, keyRef, view, hold, opened, sent>>

ScanFails(c) ==
  /\ c.op = "scan" /\ c.rest.phase \in {"decode", "decide"} /\ c.rest.frame
  /\ Finish(c, "scanning")
  /\ IF Current(c) THEN stopCamera ELSE UNCHANGED <<camera, live>>
  /\ UNCHANGED <<tabVars, form, artifact, payload, decision, verdict, activity,
                 keyRef, view, hold, opened, sent>>

(***************************************************************************)
(* Scan activity of the artifact on screen.  The effect of an envelope has *)
(* at most one request under way; its answer is dropped once the envelope  *)
(* or the instance is gone.                                                *)
(***************************************************************************)
Polling(env) == \E c \in calls : c.op = "poll" /\ c.inst = mount /\ c.n = env

loadScanActivity ==
  /\ route = "lab" /\ artifact.env # 0 /\ ~Polling(artifact.env)
  /\ calls' = calls \cup {[op |-> "poll", inst |-> mount, n |-> artifact.env,
                          rest |-> "activity"]}
  /\ UNCHANGED <<tabVars, form, artifact, payload, decision, verdict, activity,
                 busy, camera, live, keyRef, view, hold, opened, sent>>

Cancelled(c) == ~Current(c) \/ artifact.env # c.n

ActivityAnswered(c) ==
  /\ c.op = "poll"
  /\ calls' = calls \ {c}
  /\ activity' = IF Cancelled(c) THEN activity
                 ELSE [env |-> c.n, of |-> c.n, error |-> FALSE]
  /\ UNCHANGED <<tabVars, form, artifact, payload, decision, verdict, busy,
                 camera, live, keyRef, view, hold, opened, sent>>

\* The last good answer is kept with the error, unless it is of another code.
ActivityFailed(c) ==
  /\ c.op = "poll"
  /\ calls' = calls \ {c}
  /\ activity' = IF Cancelled(c) THEN activity
                 ELSE [env |-> c.n, error |-> TRUE,
                       of |-> IF activity.env = c.n THEN activity.of ELSE 0]
  /\ UNCHANGED <<tabVars, form, artifact, payload, decision, verdict, busy,
                 camera, live, keyRef, view, hold, opened, sent>>

\* The scans the page attributes to the code on screen (0: none yet).
scanActivity ==
  IF artifact.env # 0 /\ activity.env = artifact.env THEN activity.of ELSE 0

(***************************************************************************)
(* Opening a destination.  window.open asks for noopener, so the browser   *)
(* may open the tab and still return no handle: the page then reports a    *)
(* cancel.                                                                 *)
(***************************************************************************)
openScannerDestination(d, before) ==
  \E outcome \in {"handle", "noHandle", "blocked"} :
    /\ opened' = IF outcome = "blocked" THEN opened ELSE opened \cup {d}
    /\ recordScannerUxEvent(before \cup
                            {IF outcome = "handle" THEN "open" ELSE "cancel"}, d)

OpenPressed ==
  /\ On(3) /\ OpenShown(decision) /\ ~HoldShown(decision)
  /\ openScannerDestination(decision, {})
  /\ UNCHANGED <<tabVars, form, artifact, payload, decision,
                 verdict, activity, busy, calls, camera, live, keyRef, view,
                 hold>>

\* The link of the verdict step; it posts nothing.
VerdictLinkPressed ==
  /\ On(4) /\ VerdictOpens(decision)
  /\ opened' = opened \cup {decision}
  /\ UNCHANGED <<tabVars, form, artifact, payload, decision,
                 verdict, activity, busy, calls, camera, live, keyRef, view,
                 hold, sent>>

startScannerHold ==
  /\ On(3) /\ HoldShown(decision) /\ hold.id = 0
  /\ hold' = decision
  /\ recordScannerUxEvent({"hold_start"}, decision)
  /\ UNCHANGED <<tabVars, form, artifact, payload, decision,
                 verdict, activity, busy, calls, camera, live, keyRef, view,
                 opened>>

cancelScannerDestination ==
  /\ hold.id # 0
  /\ hold' = NoDecision
  /\ recordScannerUxEvent({"cancel"}, decision)
  /\ UNCHANGED <<tabVars, form, artifact, payload, decision, verdict, activity,
                 busy, calls, camera, live, keyRef, view, opened>>

\* Mutant: the timer opens what is on screen when it fires.
CompleteOnScreen ==
  /\ hold.id # 0
  /\ hold' = NoDecision
  /\ openScannerDestination(decision, {"hold_complete"})
  /\ UNCHANGED <<tabVars, form, artifact, payload, decision, verdict, activity,
                 busy, calls, camera, live, keyRef, view>>

\* The timer keeps the decision it was started for.
completeScannerHold ==
  /\ hold.id # 0
  /\ hold' = NoDecision
  /\ openScannerDestination(hold, {"hold_complete"})
  /\ UNCHANGED <<tabVars, form, artifact, payload, decision, verdict, activity,
                 busy, calls, camera, live, keyRef, view>>

(***************************************************************************)
(* The lab key.                                                            *)
(***************************************************************************)
issueLocalLabKey ==
  /\ Click /\ On(2) /\ ~HasKey(mount)
  /\ Start("issue", "issuing", "key")
  /\ UNCHANGED <<route, mount, storedKey, form, artifact, payload, decision,
                 verdict, activity, camera, live, keyRef, view, hold, opened,
                 sent>>

\* The key reaches local storage through an effect of the mounted instance.
KeyIssued(c) ==
  /\ c.op = "issue"
  /\ Finish(c, "issuing")
  /\ IF Current(c)
     THEN keyRef' = [keyRef EXCEPT ![mount] = c.n] /\ storeVerifierApiKey(c.n)
     ELSE UNCHANGED <<keyRef, storedKey>>
  /\ UNCHANGED <<route, mount, clicks, form, artifact, payload, decision, verdict,
                 activity, camera, live, view, hold, opened, sent>>

KeyIssueFails(c) ==
  /\ c.op = "issue"
  /\ Finish(c, "issuing")
  /\ UNCHANGED <<tabVars, form, artifact, payload, decision, verdict, activity,
                 camera, live, keyRef, view, hold, opened, sent>>

(***************************************************************************)
(* What the user does, and what comes back.                                *)
(***************************************************************************)
LabUser ==
  \/ \E s \in Steps : goToStep(s)
  \/ EditForm \/ updateScannedPayload \/ generateDemo \/ generateComparisonDemo
  \/ checkScannerDecision \/ verifyScannedPayload \/ handleImageSelection
  \/ verifyCurrent \/ startCamera \/ StopPressed
  \/ OpenPressed \/ VerdictLinkPressed \/ startScannerHold
  \/ cancelScannerDestination \/ issueLocalLabKey

LabTimer == ScanTick \/ loadScanActivity \/ completeScannerHold

LabAnswer(c) ==
  \/ GenerateAnswered(c) \/ GenerateFailed(c)
  \/ DecisionAnswered(c) \/ DecisionTonePlayed(c) \/ DecisionFailed(c)
  \/ ImageDecoded(c) \/ VerifyAnswered(c) \/ VerifyTonePlayed(c) \/ VerifyFailed(c)
  \/ StreamGranted(c) \/ CameraPlays(c) \/ StartFails(c)
  \/ ScanAgain(c) \/ ScanCaptured(c) \/ ScanDecides(c) \/ ScanFails(c)
  \/ ActivityAnswered(c) \/ ActivityFailed(c)
  \/ KeyIssued(c) \/ KeyIssueFails(c)

\* FlowPage is dropped: the unmount effect stops the stream it holds.
LabUnmount ==
  /\ form' = InitialForm /\ artifact' = NoArtifact /\ payload' = 0
  /\ decision' = NoDecision /\ verdict' = FALSE /\ activity' = NoActivity
  /\ view' = InitialView /\ hold' = NoDecision
  /\ stopCamera
  /\ UNCHANGED <<opened, sent>>

\* A new instance reads the stored key.
LabMount == keyRef' = [keyRef EXCEPT ![mount'] = storedKey]
===============================================================================
