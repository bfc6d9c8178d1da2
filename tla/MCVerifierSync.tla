--------------------------- MODULE MCVerifierSync ---------------------------
(* Instances of VerifierSync for TLC. *)
EXTENDS VerifierSync

Pub(kind, seq, active, until, defect) ==
    [kind |-> kind, seq |-> seq, active |-> active, until |-> until, defect |-> defect]

Manifests == <<Pub("root", 1, TRUE, 3, "none"), Pub("authority", 1, TRUE, 3, "none")>>

\* The manifests, a withdrawal of one, a record, a policy, a revocation, a new
\* tier and announcements that fail a check.
Lifecycle ==
    {Manifests[1], Manifests[2],
     Pub("root", 2, FALSE, 3, "none"),
     Pub("issuer", 1, TRUE, 1, "none"),
     Pub("policy", 1, TRUE, 2, "none"),
     Pub("revocation", 1, FALSE, 0, "none"),
     Pub("assurance", 1, TRUE, 0, "none"),
     Pub("policy", 2, TRUE, 3, "unsigned"),
     Pub("policy", 3, TRUE, 0, "partial"),
     Pub("issuer", 2, TRUE, 3, "undecodable")}

\* The reference subscriber's subjects, too few of them, and none.
Authorizations == {Kinds, {"root", "issuer"}, {}}
AllKinds == {Kinds}

\* Two versions of a policy.
Versions ==
    {Manifests[1], Manifests[2],
     Pub("policy", 1, TRUE, 2, "none"), Pub("policy", 2, TRUE, 2, "none")}
=============================================================================
