-------------------------- MODULE ProductionEvidence --------------------------
(***************************************************************************)
(* The production evidence documents: what must be evidenced, the refs an  *)
(* operator offers, and the reports derived from the two.                  *)
(*                                                                         *)
(* Every report is a function of its inputs. A program that is handed a    *)
(* report derives it again from the inputs it is handed with it and throws *)
(* when the two differ - except the closure bundle, which compares ids and *)
(* statuses. Assert... operators say when the assertion of that name does  *)
(* not throw.                                                              *)
(***************************************************************************)
EXTENDS Naturals, Sequences, FiniteSets

CONSTANT ControlCount

ASSUME ControlCountAssumption == ControlCount \in Nat \ {0}

Controls == 1..ControlCount     \* OPERATOR_EVIDENCE_CONTROL_IDS, in the canonical order

Roles == {"security", "operations"}

\* A ref is under docs/public or network ("repo"), under ops://qrtrust/ ("ops") or
\* elsewhere; a placeholder is one copied from a collection slot.
Ref ==
    [uri : STRING, scheme : {"repo", "ops", "elsewhere"}, placeholder : BOOLEAN,
     owner : STRING, role : Roles \union {"none"}]

\* ProductionEvidenceRequirements: artifacts counts the required artifact classes.
Requirements ==
    [id : STRING, mode : {"reference_drill", "production_candidate"},
     controls : [Controls -> [min : Nat, role : Roles, owner : STRING, artifacts : Nat]]]

\* OperatorEvidenceIndex
Index ==
    [id : STRING, mode : {"reference_drill", "production_candidate"},
     controls : [Controls -> [status : {"reference_backed", "operator_backed", "blocked"},
                              owner : STRING, refs : Seq(Ref)]]]

\* assertProductionEvidenceRequirements
AssertRequirements(req) ==
    /\ req.mode = "production_candidate"
    /\ \A c \in Controls : req.controls[c].min >= 1 /\ req.controls[c].artifacts >= 1

\* assertPathRef and assertReviewRole of the operator evidence index
AssertRef(ref, mode) ==
    /\ ref.scheme \in {"repo", "ops"}
    /\ mode = "production_candidate" => ref.scheme = "ops" /\ ref.role # "none"

\* assertOperatorEvidenceIndex
AssertIndex(idx) ==
    \A c \in Controls :
        LET control == idx.controls[c]
        IN  /\ idx.mode = "production_candidate" => control.status = "operator_backed"
            /\ control.refs # <<>>
            /\ \A i \in DOMAIN control.refs : AssertRef(control.refs[i], idx.mode)

\* collectOperatorEvidenceRefs
CollectRefs(idx) ==
    UNION {{idx.controls[c].refs[i].uri : i \in DOMAIN idx.controls[c].refs} : c \in Controls}

-----------------------------------------------------------------------------
\* isQualifiedEvidenceRef
IsQualified(ref, role) == ref.scheme = "ops" /\ ref.role = role

\* makeGapControl, makeControlStatus: a ref that is listed twice is counted twice.
MakeGapControl(requirement, control) ==
    LET provided == SelectSeq(control.refs, LAMBDA ref : IsQualified(ref, requirement.role))
        count == Cardinality({i \in DOMAIN control.refs : IsQualified(control.refs[i], requirement.role)})
        missing == IF count >= requirement.min THEN 0 ELSE requirement.min - count
    IN  [provided |-> provided, missing |-> missing, min |-> requirement.min,
         role |-> requirement.role,
         status |-> IF control.status = "blocked" THEN "blocked"
                    ELSE IF missing > 0 THEN "missing_refs" ELSE "satisfied"]

\* summarizeControls, summarizeStatus
SummarizeStatus(controls) ==
    IF \E c \in Controls : controls[c].status = "blocked" THEN "blocked"
    ELSE IF \E c \in Controls : controls[c].missing > 0 THEN "incomplete" ELSE "complete"

CanMakeGap(req, idx) ==
    AssertRequirements(req) /\ AssertIndex(idx) /\ idx.mode = "production_candidate"

\* makeProductionEvidenceGapReport
MakeGap(req, idx) ==
    LET controls == [c \in Controls |-> MakeGapControl(req.controls[c], idx.controls[c])]
    IN  [requirements |-> req.id, index |-> idx.id, controls |-> controls,
         status |-> SummarizeStatus(controls)]

\* assertProductionEvidenceGapReport: consistent with itself.
AssertGap(gap) ==
    /\ gap.status = SummarizeStatus(gap.controls)
    /\ \A c \in Controls :
        LET control == gap.controls[c]
        IN  /\ control.min >= 1
            /\ control.missing = IF Len(control.provided) >= control.min THEN 0
                                 ELSE control.min - Len(control.provided)
            /\ \A i \in DOMAIN control.provided : IsQualified(control.provided[i], control.role)

\* assertProductionEvidenceGapReportMatches
GapMatches(gap, req, idx) ==
    /\ AssertGap(gap) /\ CanMakeGap(req, idx)
    /\ gap = MakeGap(req, idx)

-----------------------------------------------------------------------------
\* makeCollectionControl, makeCollectionSlot: one slot for each artifact class.
MakeCollectionControl(requirement) ==
    [min |-> requirement.min, role |-> requirement.role, owner |-> requirement.owner,
     slots |-> requirement.artifacts]

\* assertProductionEvidenceCollectionTemplate
AssertTemplate(tpl) ==
    \A c \in Controls : tpl.controls[c].min >= 1 /\ tpl.controls[c].slots >= tpl.controls[c].min

\* makeProductionEvidenceCollectionTemplate
MakeTemplate(id, req) ==
    [id |-> id, requirements |-> req.id,
     controls |-> [c \in Controls |-> MakeCollectionControl(req.controls[c])]]

CanMakeTemplate(req) == AssertRequirements(req) /\ AssertTemplate(MakeTemplate("any", req))

\* assertProductionEvidenceCollectionTemplateMatches
TemplateMatches(tpl, req) ==
    /\ AssertTemplate(tpl) /\ CanMakeTemplate(req)
    /\ tpl = MakeTemplate(tpl.id, req)

-----------------------------------------------------------------------------
\* Where each ref of the index stands.
Positions(idx) == UNION {{c} \X DOMAIN idx.controls[c].refs : c \in Controls}
RefAt(idx, p) == idx.controls[p[1]].refs[p[2]]
Earlier(p, q) == p[1] < q[1] \/ (p[1] = q[1] /\ p[2] < q[2])

Finding(code, c, uri) == [code |-> code, control |-> c, uri |-> uri]

\* makeGapFindings
GapFindings(gap) ==
    (IF gap.status = "complete" THEN {} ELSE {Finding("gap_report_incomplete", 0, "none")})
    \union {Finding("control_not_satisfied", c, "none") :
                c \in {d \in Controls : gap.controls[d].status # "satisfied"}}

\* makePlaceholderFindings
PlaceholderFindings(idx) ==
    {Finding("placeholder_ref", p[1], RefAt(idx, p).uri) :
        p \in {q \in Positions(idx) : RefAt(idx, q).placeholder}}

\* Mutant: a ref is a duplicate only in another control.
ReusedByAnotherControl(idx) ==
    {Finding("duplicate_ref", p[1], RefAt(idx, p).uri) :
        p \in {q \in Positions(idx) : \E r \in Positions(idx) :
                    r[1] < q[1] /\ RefAt(idx, q).uri = RefAt(idx, r).uri}}

\* makeDuplicateFindings: a uri that any earlier ref of the index has.
DuplicateFindings(idx) ==
    {Finding("duplicate_ref", p[1], RefAt(idx, p).uri) :
        p \in {q \in Positions(idx) : \E r \in Positions(idx) :
                    Earlier(r, q) /\ RefAt(idx, q).uri = RefAt(idx, r).uri}}

\* makeOwnerAlignmentFindings
OwnerFindings(req, idx) ==
    {Finding("owner_alignment", c, "none") :
        c \in {d \in Controls :
                LET owner == req.controls[d].owner control == idx.controls[d]
                IN  control.owner # owner \/ \E i \in DOMAIN control.refs : control.refs[i].owner # owner}}

CanMakeIntake(req, idx, tpl, gap) ==
    /\ AssertRequirements(req) /\ AssertIndex(idx)
    /\ TemplateMatches(tpl, req) /\ GapMatches(gap, req, idx)
    /\ idx.mode = "production_candidate"

\* makeProductionEvidenceIntakeReport, makeFindings
MakeIntake(req, idx, tpl, gap) ==
    LET blockers == GapFindings(gap) \union PlaceholderFindings(idx) \union DuplicateFindings(idx)
    IN  [requirements |-> req.id, index |-> idx.id, template |-> tpl.id, gapStatus |-> gap.status,
         findings |-> IF blockers # {} THEN blockers ELSE OwnerFindings(req, idx),
         status |-> IF blockers = {} THEN "accepted_for_review" ELSE "blocked"]

\* assertProductionEvidenceIntakeReport
AssertIntake(intake) ==
    (intake.status = "blocked") <=> \E f \in intake.findings : f.code # "owner_alignment"

-----------------------------------------------------------------------------
\* assertInputIdsMatch
InputIdsMatch(req, tpl, gap, intake) ==
    /\ gap.requirements = req.id /\ intake.requirements = req.id
    /\ intake.template = tpl.id /\ intake.gapStatus = gap.status

CanMakeClosure(req, tpl, gap, intake) ==
    /\ AssertRequirements(req) /\ TemplateMatches(tpl, req)
    /\ AssertGap(gap) /\ AssertIntake(intake)
    /\ InputIdsMatch(req, tpl, gap, intake)

\* makeProductionEvidenceClosureBundle, makeClosureItem
MakeClosure(req, tpl, gap, intake) ==
    [requirements |-> req.id, template |-> tpl.id, gapStatus |-> gap.status,
     intakeStatus |-> intake.status,
     items |-> {[control |-> c, missing |-> gap.controls[c].missing, slots |-> tpl.controls[c].slots] :
                    c \in {d \in Controls : gap.controls[d].missing > 0}},
     status |-> IF gap.status = "complete" /\ intake.status = "accepted_for_review"
                THEN "ready_for_human_review" ELSE "blocked_until_operator_refs_complete"]

\* makeProductionEvidencePrivateIndexValidationReport: derives the template, the gap
\* report and the intake report itself, and leaves the uris out of the findings.
MakePrivateValidation(req, idx) ==
    LET gap == MakeGap(req, idx)
        intake == MakeIntake(req, idx, MakeTemplate("private", req), gap)
    IN  [index |-> idx.id,
         findings |-> {[f EXCEPT !.uri = "none"] : f \in intake.findings},
         status |-> IF gap.status = "complete" /\ intake.status = "accepted_for_review"
                    THEN "ready_for_human_review" ELSE "blocked"]
=============================================================================
