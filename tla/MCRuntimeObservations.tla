------------------------ MODULE MCRuntimeObservations ------------------------
(* Small instances of RuntimeObservations for TLC. *)
EXTENDS RuntimeObservations

RootA == RootId("Root A", "root-a")
RootB == RootId("root-b", "root-b")
Plane == RootId("Control Plane", ControlPlane)

\* Three hosts seen by two providers under two roots. One message does not have
\* its envelope's hash, one artifact is late, one event borrows the reserved root
\* under another spelling, one is kept in another stream.
SmallEvents ==
    << Observation(RootA, "walled", "a", "clear", 95, 2, 0),
       Observation(RootA, "walled", "b", "blocked", 10, 1, 0),
       Observation(RootB, "open", "c", "risky", 200, 1, 2),
       [Observation(RootA, "open", "b", "clear", 0, 2, 1) EXCEPT !.hash = FALSE],
       Observation(Plane, "open", "a", "unavailable", 40, 3, 1),
       Observation(RootA, "open", "a", "unavailable", 40, 3, 1),
       [Observation(Plane, "open", "a", "clear", 0, 0, 0) EXCEPT !.type = "runtime_provider"],
       [Observation(RootA, "open", "a", "clear", 0, 0, 0) EXCEPT !.type = "scanner_decision"] >>

SmallLate == {6}

\* Root A's verdicts, everything of the runtime families, nobody.
SmallAllowlists ==
    {{Subject("root-a", SubjectTails["runtime_verdict"])},
     {<<"qrtrust", "*", "runtime", ">">>, <<"qrtrust", "*", "verifier", ">">>},
     {}}

\* Not configured, or the verdicts of every root.
SmallConfigurations == {<<>>, Subject("*", SubjectTails["runtime_verdict"])}
=============================================================================
