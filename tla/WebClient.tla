------------------------------ MODULE WebClient -------------------------------
(***************************************************************************)
(* The web client: the lab and the operator page in one tab.  Leaving a    *)
(* route drops its component and leaves its requests under way; both pages *)
(* write the verifier key in local storage.                                *)
(***************************************************************************)
EXTENDS LabController, OperatorController

vars == <<tabVars, callVars, labVars, opVars>>

Init == TabInit /\ LabInit /\ OpInit

\* The router: the page that is left is unmounted, the next one mounted.
Leave(r) ==
  /\ Navigate(r)
  /\ busy' = {} /\ UNCHANGED calls
  /\ LabUnmount /\ LabMount /\ OpUnmount

Answered(c) ==
  \/ LabAnswer(c) /\ UNCHANGED opVars
  \/ OpAnswer(c) /\ UNCHANGED labVars

Next ==
  \/ LabUser /\ UNCHANGED opVars
  \/ LabTimer /\ UNCHANGED opVars
  \/ OpUser /\ UNCHANGED labVars
  \/ \E c \in calls : Answered(c)
  \/ \E r \in Routes : Leave(r)

Spec == Init /\ [][Next]_vars

LabOps == {"generate", "check", "typed", "image", "verify", "start", "issue"}
OpOps == {"evidence", "post", "issueClient", "issueManagement", "list", "revoke"}

\* The camera prompt of getUserMedia: it waits for the user.
Prompts(c) == c.op = "start" /\ c.rest = "media"

\* Requests are answered or fail, and what a handler awaits of the browser
\* itself (decoding, playing the video or a tone) comes back: as long as any
\* of that is out, some of it does.  The user, whom the camera prompt waits
\* for, and the timers owe nothing.
Fairness ==
  WF_vars(\E c \in calls : c.op \in LabOps \cup OpOps /\ ~Prompts(c) /\ Answered(c))

FairSpec == Spec /\ Fairness

(***************************************************************************)
(* Safety.                                                                 *)
(***************************************************************************)
\* Whatever the order of scans, answers and presses, the browser opens a
\* destination only of a decision that allowed it, and one that is amber or
\* red, or asks for a hold, only after a hold was started on that very
\* decision.
OpenedWasAllowed ==
  \A d \in opened :
    d.open /\ (d.hold \/ d.risk # "green" => Event("hold_start", d) \in sent)

\* A workflow is reported recorded only when every one of its POSTs took
\* effect, although it may stop between two of them.
RecordedWorkflowIsWhole ==
  message.says = "recorded" =>
    Cardinality({a \in applied : a[1] = message.n}) = message.posts

(***************************************************************************)
(* Liveness.                                                               *)
(***************************************************************************)
\* No control stays disabled when the user is done: the flags of generation,
\* decision, signed verification, image decoding and lab key on the lab page,
\* and of evidence, workflow, client and management key and revocation on the
\* operator page come down, by the answer, by the failure or because the page
\* is left.  The flag of the camera's start does so too unless the prompt is
\* still on screen, which the user may leave unanswered.
EveryBusyEnds ==
  <>[](/\ \/ busy = {}
          \/ busy = {"starting"} /\ \E c \in calls : Current(c) /\ Prompts(c)
       /\ submitting = "none" /\ revoking = 0)
===============================================================================
