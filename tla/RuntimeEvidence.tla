--------------------------- MODULE RuntimeEvidence ---------------------------
(***************************************************************************)
(* The harvest of runtime evidence (runtime-evidence/harvest.py) and the   *)
(* certification of what it found (certify_runtime.py), two scripts that   *)
(* meet only in files.  A harvest probes the service one endpoint after    *)
(* the other while the service comes and goes, so that each may answer or  *)
(* not, then writes three files; it may die anywhere, in the middle of a   *)
(* file too.  Nothing keeps the scripts apart: harvests and certifications *)
(* may overlap, and one may read or write what another is writing.         *)
(*                                                                         *)
(* The 82 offices share one set of evidence, so one stands for all.  Every *)
(* file names the harvest it is from; harvests are numbered as they begin. *)
(* witnessed and overlapped are history variables.                         *)
(***************************************************************************)
EXTENDS Naturals, Sequences, FiniteSets

CONSTANTS
  None,        \* no such file yet, or no report read
  Torn,        \* a file truncated and not written
  Garbled,     \* a file on which a longer text shows behind a shorter one
  Certifiers,  \* the processes that run certify_runtime.py
  Flaky,       \* the probes that may fail; the others are always answered
  MaxHarvests  \* bound of the number of harvests

ASSUME MaxHarvestsValid == MaxHarvests \in Nat

VARIABLES
  harvests,   \* number of harvests begun
  harvest,    \* for each harvest, where main() of harvest.py is, and its locals
  disk,       \* the files, by name
  certifier,  \* for each certifier, where main() is, and the report it has read
  witnessed,  \* history: the harvests in which all Required was answered
  overlapped  \* history: a harvest began while another was running

vars == <<harvests, harvest, disk, certifier, witnessed, overlapped>>

Probes == <<"health", "readiness", "executors", "topology", "events", "dispatches">>
Canary == "safe_canary"
Names == {Probes[i] : i \in DOMAIN Probes} \cup {Canary}

\* RUNTIME_REQUIREMENTS: the controls that probes can prove, each of severity
\* high or critical.  The other controls wait for a probe of their own.
Requirements ==
  [AI_01 |-> {"topology", "safe_canary"}, OBS_01 |-> {"events"},
   OBS_02 |-> {"events"}, OPS_01 |-> {"health", "readiness"},
   PRF_01 |-> {"dispatches", "events"}, LOOP_01 |-> {"topology", "dispatches"}]
Controls == 20

Required == UNION {Requirements[c] : c \in DOMAIN Requirements}

\* The files of a harvest, in the order they are written.
Outputs == <<"report", "receipt", "repairs">>
Files == {Outputs[i] : i \in DOMAIN Outputs} \cup {"certificate"}

Idle == [at |-> "idle"]

Init ==
  /\ harvests = 0
  /\ harvest = [h \in 1 .. MaxHarvests |-> Idle]
  /\ disk = [f \in Files |-> None]
  /\ certifier = [c \in Certifiers |-> Idle]
  /\ witnessed = {}
  /\ overlapped = FALSE

\* A text that json.loads() accepts.
Whole(f) == disk[f] \notin {None, Torn, Garbled}

-----------------------------------------------------------------------------
(* harvest.py                                                              *)

Running(h) == harvest[h] # Idle

Begin(h, canary) ==
  /\ h = harvests + 1
  /\ harvests' = h
  /\ harvest' = [harvest EXCEPT ![h] =
       [at |-> "probe", evidence |-> [n \in Names |-> "MISSING"],
        todo |-> IF canary THEN Append(Probes, Canary) ELSE Probes]]
  /\ overlapped' = (overlapped \/ \E g \in 1 .. harvests : Running(g))
  /\ UNCHANGED <<disk, certifier, witnessed>>

\* Any error, a timeout included, is evidence of nothing.
Probe(h, state) ==
  /\ harvest[h].at = "probe" /\ harvest[h].todo # <<>>
  /\ state = "PROVEN" \/ Head(harvest[h].todo) \in Flaky
  /\ harvest' = [harvest EXCEPT ![h].evidence[Head(harvest[h].todo)] = state,
                                ![h].todo = Tail(@)]
  /\ witnessed' = IF \A n \in Required : harvest'[h].evidence[n] = "PROVEN"
                  THEN witnessed \cup {h} ELSE witnessed
  /\ UNCHANGED <<harvests, disk, certifier, overlapped>>

RuntimeState(evidence) ==
  IF evidence["health"] = "PROVEN" /\ evidence["readiness"] = "PROVEN" THEN "LIVE"
  ELSE IF evidence["health"] = "PROVEN" \/ evidence["readiness"] = "PROVEN" THEN "DEGRADED"
  ELSE "OFFLINE"

Report(h) == [harvest |-> h, evidence |-> harvest[h].evidence,
              state |-> RuntimeState(harvest[h].evidence)]

\* Mutant: the receipt is written before the report it is the receipt of.
ReceiptFirst == <<"receipt", "report", "repairs">>

OutputOrder == Outputs

Publish(h) ==
  /\ harvest[h].at = "probe" /\ harvest[h].todo = <<>>
  /\ harvest' = [harvest EXCEPT ![h] = [at |-> "publish", todo |-> OutputOrder,
                                        evidence |-> harvest[h].evidence]]
  /\ UNCHANGED <<harvests, disk, certifier, witnessed, overlapped>>

\* What a file holds once text is written from its beginning.  When another has
\* written since this one truncated the file, the end of a longer text remains.
Written(f, text) == IF disk[f] = Torn THEN {text} ELSE {text, Garbled}

\* Opening a file for writing truncates it.
Truncate(h) ==
  /\ harvest[h].at = "publish" /\ harvest[h].todo # <<>>
  /\ harvest' = [harvest EXCEPT ![h].at = "write"]
  /\ disk' = [disk EXCEPT ![Head(harvest[h].todo)] = Torn]
  /\ UNCHANGED <<harvests, certifier, witnessed, overlapped>>

Text(h, f) == IF f = "report" THEN Report(h) ELSE [harvest |-> h]

Write(h) ==
  /\ harvest[h].at = "write"
  /\ harvest' = [harvest EXCEPT ![h].at = "publish", ![h].todo = Tail(@)]
  /\ \E text \in Written(Head(harvest[h].todo), Text(h, Head(harvest[h].todo))) :
       disk' = [disk EXCEPT ![Head(harvest[h].todo)] = text]
  /\ UNCHANGED <<harvests, certifier, witnessed, overlapped>>

\* The harvest is over, or dies.
Stop(h) ==
  /\ Running(h)
  /\ harvest' = [harvest EXCEPT ![h] = Idle]
  /\ UNCHANGED <<harvests, disk, certifier, witnessed, overlapped>>

-----------------------------------------------------------------------------
(* certify_runtime.py                                                      *)

Proven(evidence, names) == {n \in names : evidence[n] = "PROVEN"}
Passed(evidence) == {c \in DOMAIN Requirements :
                       Proven(evidence, Requirements[c]) = Requirements[c]}
Blocking(evidence) == {c \in DOMAIN Requirements :
                         Proven(evidence, Requirements[c]) = {}}

\* Mutant: a quarter of the controls is enough.
QuarterPassed(evidence, percent) ==
  Cardinality(Passed(evidence)) * 100 >= (percent - 5) * Controls

PassPercent(evidence, percent) ==
  Cardinality(Passed(evidence)) * 100 >= percent * Controls

Certification(report) ==
  IF Blocking(report.evidence) = {} /\ PassPercent(report.evidence, 95) THEN "PASS"
  ELSE IF PassPercent(report.evidence, 30) /\ report.state # "OFFLINE" THEN "PARTIAL"
  ELSE "FAIL"

\* A report that is missing or no JSON ends the script.
ReadReport(c) ==
  /\ certifier[c] = Idle
  /\ Whole("report")
  /\ certifier' = [certifier EXCEPT ![c] = [at |-> "certify", report |-> disk["report"]]]
  /\ UNCHANGED <<harvests, harvest, disk, witnessed, overlapped>>

TruncateCertificate(c) ==
  /\ certifier[c].at = "certify"
  /\ certifier' = [certifier EXCEPT ![c].at = "write"]
  /\ disk' = [disk EXCEPT !["certificate"] = Torn]
  /\ UNCHANGED <<harvests, harvest, witnessed, overlapped>>

Certificate(report) ==
  [harvest |-> report.harvest, certification |-> Certification(report)]

WriteCertificate(c) ==
  /\ certifier[c].at = "write"
  /\ \E text \in Written("certificate", Certificate(certifier[c].report)) :
       disk' = [disk EXCEPT !["certificate"] = text]
  /\ certifier' = [certifier EXCEPT ![c] = Idle]
  /\ UNCHANGED <<harvests, harvest, witnessed, overlapped>>

CertifierDies(c) ==
  /\ certifier[c] # Idle
  /\ certifier' = [certifier EXCEPT ![c] = Idle]
  /\ UNCHANGED <<harvests, harvest, disk, witnessed, overlapped>>

-----------------------------------------------------------------------------
Next ==
  \/ \E h \in 1 .. MaxHarvests :
       \/ \E canary \in BOOLEAN : Begin(h, canary)
       \/ \E state \in {"PROVEN", "ERROR"} : Probe(h, state)
       \/ Publish(h) \/ Truncate(h) \/ Write(h) \/ Stop(h)
  \/ \E c \in Certifiers :
       \/ ReadReport(c) \/ TruncateCertificate(c)
       \/ WriteCertificate(c) \/ CertifierDies(c)

Spec == Init /\ [][Next]_vars

-----------------------------------------------------------------------------
(* Properties                                                              *)

\* Every file that can be read, and every report that was, is of some harvest.
TypeOK ==
  /\ harvests \in 0 .. MaxHarvests
  /\ \A h \in 1 .. MaxHarvests :
       /\ Running(h) => h <= harvests
       /\ harvest[h] = Idle \/ harvest[h].at \in {"probe", "publish", "write"}
  /\ \A f \in Files : Whole(f) => disk[f].harvest \in 1 .. harvests
  /\ \A c \in Certifiers :
       certifier[c] # Idle => certifier[c].report.harvest \in 1 .. harvests
  /\ witnessed \subseteq 1 .. harvests
  /\ overlapped \in BOOLEAN

\* README.md: missing evidence is never interpreted as PASS, and registration is
\* no proof of liveness.  Whatever crashes or overlaps, and whatever the
\* certification reads while harvests write, an office is certified only if one
\* and the same harvest had every endpoint that a control requires answer, and
\* the canary accepted.
CertifiedWasProven ==
  Whole("certificate") /\ disk["certificate"].certification # "FAIL" =>
    disk["certificate"].harvest \in witnessed

\* As long as no two harvests overlapped, no file speaks of a harvest whose
\* report was not written: a crash between two files leaves older ones behind a
\* newer report, never the reverse.
ReportLeads ==
  ~overlapped /\ Whole("report") =>
    \A f \in Files : Whole(f) => disk[f].harvest <= disk["report"].harvest
=============================================================================
