------------------------------ MODULE BrowserTab ------------------------------
(***************************************************************************)
(* The browser tab that the lab and the operator page share: which route   *)
(* is mounted, the verifier key in local storage, the requests under way   *)
(* and a bound on what the user does.  A route that is left is unmounted:  *)
(* its component state is dropped, the requests it has started are not.    *)
(***************************************************************************)
EXTENDS Naturals

CONSTANTS
  MaxClicks,  \* what the user does is bounded; a click's number names its result
  MaxMounts   \* how often a route is mounted

ASSUME TabAssumption == MaxClicks \in Nat /\ MaxMounts \in Nat \ {0}

VARIABLES
  route,      \* the route that is mounted
  mount,      \* the number of its instance
  storedKey,  \* localStorage "verifier.lab.api-key", 0 when there is none
  clicks,     \* clicks so far
  busy,       \* the isGenerating, isSubmitting... flags that are up
  calls       \* continuations that wait, of this instance and of earlier ones

tabVars == <<route, mount, storedKey, clicks>>
callVars == <<busy, calls>>

Routes == {"lab", "operator", "about"}

TabInit ==
  /\ route = "lab" /\ mount = 1 /\ storedKey = 0 /\ clicks = 0
  /\ busy = {} /\ calls = {}

\* An action of the user that a request or a new value comes from.  Presses
\* that only choose among what is there are not counted.
Click == clicks < MaxClicks /\ clicks' = clicks + 1

\* navigate: the same target is left alone, another one unmounts this route.
Navigate(r) ==
  /\ r # route /\ mount < MaxMounts
  /\ route' = r /\ mount' = mount + 1
  /\ UNCHANGED <<storedKey, clicks>>

\* Whether the instance that made a call is the one on screen.
Current(c) == c.inst = mount

\* A handler up to its first await: the flag goes up, the rest waits.
Start(op, flag, rest) ==
  /\ flag \notin busy
  /\ busy' = busy \cup {flag}
  /\ calls' = calls \cup {[op |-> op, inst |-> mount, n |-> clicks', rest |-> rest]}

\* The end of a handler: its finally clears the flag, if the instance lives.
Finish(c, flag) ==
  /\ calls' = calls \ {c}
  /\ busy' = IF Current(c) THEN busy \ {flag} ELSE busy

Continue(c, rest) == calls' = (calls \ {c}) \cup {[c EXCEPT !.rest = rest]}

storeVerifierApiKey(k) == storedKey' = k
clearStoredVerifierApiKey == storedKey' = 0
===============================================================================
