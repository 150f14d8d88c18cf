----------------------------- MODULE Conformance -----------------------------
(***************************************************************************)
(* The conformance gate (conformance/certify.py): it looks for the         *)
(* evidence that each control asks for among the settings that the         *)
(* production baseline, the office's bundle and, because it flattens that  *)
(* file too, the list of controls declare.  The gate runs on every pull    *)
(* request that edits them.  The offices differ in nothing that a control  *)
(* asks for, so one stands for all.                                        *)
(***************************************************************************)
EXTENDS Naturals, FiniteSets

CONSTANTS
  Settings,  \* evidence that a control may ask for and a file declare
  Controls,  \* a set of records: a severity, and the evidence asked for
  Within     \* pairs of settings of which the first's name is in the second's

VARIABLES
  declared,      \* settings of the baseline and the bundle
  certification  \* of the report: "none" before the first run

vars == <<declared, certification>>

Init == declared \in SUBSET Settings /\ certification = "none"

\* flatten() of the controls yields the evidence they ask for.
Corpus == declared \cup UNION {c.evidence : c \in Controls}

Present(item, corpus) ==
  \E token \in corpus : token = item \/ <<item, token>> \in Within

Found(control, corpus) == {item \in control.evidence : Present(item, corpus)}

Passing(corpus) == {c \in Controls : Found(c, corpus) = c.evidence}
Failing(corpus) == {c \in Controls \ Passing(corpus) : Found(c, corpus) = {}}

AtLeast(percent, controls) ==
  Cardinality(controls) * 100 >= percent * Cardinality(Controls)

\* Blocking failures rule out PASS, and nothing else.
Certified(corpus) ==
  IF /\ \A c \in Failing(corpus) : c.severity \notin {"critical", "high"}
     /\ AtLeast(95, Passing(corpus)) THEN "PASS"
  ELSE IF AtLeast(70, Passing(corpus)) THEN "PARTIAL"
  ELSE "FAIL"

Certify ==
  /\ certification' = Certified(Corpus)
  /\ UNCHANGED declared

\* The report of the last run stays on disk.
Edit ==
  /\ declared' \in SUBSET Settings
  /\ UNCHANGED certification

Next == Certify \/ Edit

Spec == Init /\ [][Next]_vars

-----------------------------------------------------------------------------
(* Properties                                                              *)

\* README.md of the gate: a declared setting is the evidence of a configuration.
\* A run that certifies PASS found the evidence of nearly every control declared
\* by the baseline or the bundle, not only asked for by the control itself.
PassIsDeclared ==
  [][Certify /\ certification' = "PASS" => Certified(declared) = "PASS"]_vars
=============================================================================
