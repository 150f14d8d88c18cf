----------------------- MODULE RuntimeEvidence_proofs -----------------------
(***************************************************************************)
(* For any number of harvests and certifications, overlapping or not, and  *)
(* any probes that may fail: what is certified was proven.  Where harvests *)
(* do not overlap, no file is ahead of the report.                         *)
(***************************************************************************)
EXTENDS RuntimeEvidence, FiniteSetTheorems, TLAPS

-----------------------------------------------------------------------------
(* What certification counts                                               *)

Answered(evidence) == \A n \in Required : evidence[n] = "PROVEN"

LEMMA ControlsOfProbes ==
  /\ IsFiniteSet(DOMAIN Requirements)
  /\ Cardinality(DOMAIN Requirements) = 6
<1> DEFINE D == {"AI_01", "OBS_01", "OBS_02", "OPS_01", "PRF_01"}
<1>1. IsFiniteSet({}) /\ Cardinality({}) = 0
  BY FS_EmptySet
<1>2. IsFiniteSet({"AI_01"}) /\ Cardinality({"AI_01"}) = 1
  BY FS_Singleton
<1>3. /\ IsFiniteSet({"AI_01"} \cup {"OBS_01"})
      /\ Cardinality({"AI_01"} \cup {"OBS_01"}) = 2
  BY <1>2, FS_AddElement
<1>4. /\ IsFiniteSet({"AI_01"} \cup {"OBS_01"} \cup {"OBS_02"})
      /\ Cardinality({"AI_01"} \cup {"OBS_01"} \cup {"OBS_02"}) = 3
  BY <1>3, FS_AddElement
<1>5. /\ IsFiniteSet({"AI_01"} \cup {"OBS_01"} \cup {"OBS_02"} \cup {"OPS_01"})
      /\ Cardinality({"AI_01"} \cup {"OBS_01"} \cup {"OBS_02"} \cup {"OPS_01"}) = 4
  BY <1>4, FS_AddElement
<1>6. D = {"AI_01"} \cup {"OBS_01"} \cup {"OBS_02"} \cup {"OPS_01"} \cup {"PRF_01"}
  OBVIOUS
<1>7. IsFiniteSet(D) /\ Cardinality(D) = 5
  <2>1. "PRF_01" \notin {"AI_01"} \cup {"OBS_01"} \cup {"OBS_02"} \cup {"OPS_01"}
    OBVIOUS
  <2> QED BY <1>5, <1>6, <2>1, FS_AddElement
<1>8. DOMAIN Requirements = D \cup {"LOOP_01"} /\ "LOOP_01" \notin D
  BY DEF Requirements
<1> HIDE DEF D
<1> QED BY <1>7, <1>8, FS_AddElement

\* Six of the twenty controls are the least that certifies anything, and all
\* that probes can prove; they need every endpoint of Required.
LEMMA CertifiedIsAnswered ==
  ASSUME NEW report, Certification(report) # "FAIL"
  PROVE  Answered(report.evidence)
<1> DEFINE P == Passed(report.evidence)
<1>1. P \subseteq DOMAIN Requirements
  BY DEF Passed
<1>2. IsFiniteSet(P) /\ Cardinality(P) \in Nat /\ Cardinality(P) <= 6
  BY <1>1, ControlsOfProbes, FS_Subset, FS_CardinalityType
<1>3. ~PassPercent(report.evidence, 95)
  BY <1>2 DEF PassPercent, Controls
<1>4. PassPercent(report.evidence, 30)
  BY <1>3 DEF Certification
<1>5. Cardinality(P) = 6
  BY <1>2, <1>4 DEF PassPercent, Controls
<1>6. P = DOMAIN Requirements
  BY <1>1, <1>5, ControlsOfProbes, FS_Subset
<1>7. ASSUME NEW n \in Required PROVE report.evidence[n] = "PROVEN"
  <2>1. PICK c \in DOMAIN Requirements : n \in Requirements[c]
    BY DEF Required
  <2>2. Proven(report.evidence, Requirements[c]) = Requirements[c]
    BY <1>6, <2>1 DEF Passed
  <2> QED BY <2>1, <2>2 DEF Proven
<1> QED BY <1>7 DEF Answered

-----------------------------------------------------------------------------
(* The inductive invariant                                                 *)

Evidence == [Names -> {"MISSING", "PROVEN", "ERROR"}]

\* What a harvest may still have to write.
Remaining == {<<"report", "receipt", "repairs">>, <<"receipt", "repairs">>, <<"repairs">>, <<>>}

Probing == [at: {"probe"}, evidence: Evidence, todo: Seq(Names)]
Publishing == [at: {"publish", "write"}, todo: Remaining, evidence: Evidence]

Reports == [harvest: Nat, evidence: Evidence, state: {"LIVE", "DEGRADED", "OFFLINE"}]
Certificates == [harvest: Nat, certification: {"PASS", "PARTIAL", "FAIL"}]

Texts == Reports \cup Certificates \cup [harvest: Nat]

Certifying == [at: {"certify", "write"}, report: Reports]

FilesOK ==
  /\ disk \in [Files -> {None, Torn, Garbled} \cup Texts]
  /\ Whole("report") => disk["report"] \in Reports

HarvestOK ==
  /\ harvest \in [1 .. MaxHarvests -> {Idle} \cup Probing \cup Publishing]
  /\ \A h \in 1 .. MaxHarvests : harvest[h].at = "write" => harvest[h].todo # <<>>

CertifierOK == certifier \in [Certifiers -> {Idle} \cup Certifying]

\* A complete set of answers is known to be one, whoever holds it.
AnswersWitnessed ==
  /\ \A h \in 1 .. MaxHarvests :
       Running(h) /\ Answered(harvest[h].evidence) => h \in witnessed
  /\ Whole("report") /\ Answered(disk["report"].evidence) =>
       disk["report"].harvest \in witnessed
  /\ \A c \in Certifiers :
       certifier[c] # Idle /\ Answered(certifier[c].report.evidence) =>
         certifier[c].report.harvest \in witnessed

\* Without overlap the one harvest that runs is the latest.
OneRuns == ~overlapped => \A h \in 1 .. MaxHarvests : Running(h) => h = harvests

\* Nor is what is about to be written ahead of the report.
CertifiersLag ==
  ~overlapped /\ Whole("report") =>
    \A c \in Certifiers :
      certifier[c] # Idle => certifier[c].report.harvest <= disk["report"].harvest

WritersLag ==
  ~overlapped /\ Whole("report") =>
    \A h \in 1 .. MaxHarvests :
      harvest[h] \in Publishing /\ harvest[h].todo # Outputs => disk["report"].harvest = h

EvidenceInv ==
  /\ TypeOK /\ FilesOK /\ HarvestOK /\ CertifierOK
  /\ AnswersWitnessed /\ OneRuns /\ CertifiersLag /\ WritersLag
  /\ CertifiedWasProven /\ ReportLeads

-----------------------------------------------------------------------------
LEMMA FileNames == Files = {"report", "receipt", "repairs", "certificate"}
BY DEF Files, Outputs

LEMMA ProbeNames ==
  /\ Names = {"health", "readiness", "executors", "topology", "events", "dispatches", "safe_canary"}
  /\ Probes \in Seq(Names)
  /\ Append(Probes, Canary) \in Seq(Names)
BY DEF Names, Probes, Canary

LEMMA SomeRequired == "health" \in Required
<1>1. "OPS_01" \in DOMAIN Requirements /\ "health" \in Requirements["OPS_01"]
  BY DEF Requirements
<1> QED BY <1>1 DEF Required

\* A harvest writes its files one after the other, the report first.
LEMMA NextOutput ==
  ASSUME NEW todo \in Remaining, todo # <<>>
  PROVE  /\ Tail(todo) \in Remaining /\ Tail(todo) # Outputs
         /\ Head(todo) \in Files /\ Head(todo) # "certificate"
         /\ Head(todo) = "report" <=> todo = Outputs
<1>1. CASE todo = <<"report", "receipt", "repairs">>
  BY <1>1, FileNames DEF Remaining, Outputs
<1>2. CASE todo = <<"receipt", "repairs">>
  BY <1>2, FileNames DEF Remaining, Outputs
<1>3. CASE todo = <<"repairs">>
  BY <1>3, FileNames DEF Remaining, Outputs
<1> QED BY <1>1, <1>2, <1>3 DEF Remaining

\* The three states of a process are told apart.
LEMMA Stages ==
  /\ Idle.at = "idle" /\ Idle \notin Probing /\ Idle \notin Publishing
  /\ \A x \in Probing : x.at = "probe" /\ x # Idle /\ x \notin Publishing
  /\ \A x \in Publishing : x.at \in {"publish", "write"} /\ x # Idle /\ x \notin Probing
  /\ \A x \in Certifying : x.at \in {"certify", "write"} /\ x # Idle
BY DEF Idle, Probing, Publishing, Certifying

LEMMA InitInv == Init => EvidenceInv
<1> SUFFICES ASSUME Init PROVE EvidenceInv
  OBVIOUS
<1>1. \A f \in Files : disk[f] = None
  BY DEF Init
<1>2. "report" \in Files /\ "certificate" \in Files
  BY FileNames
<1>3. /\ \A h \in 1 .. MaxHarvests : harvest[h] = Idle
      /\ \A c \in Certifiers : certifier[c] = Idle
  BY DEF Init
<1>4. TypeOK /\ FilesOK
  <2>1. harvests \in 0 .. MaxHarvests /\ witnessed = {} /\ overlapped = FALSE
    BY MaxHarvestsValid DEF Init
  <2>2. TypeOK
    BY <1>1, <1>3, <2>1 DEF TypeOK, Whole, Running
  <2>3. FilesOK
    BY <1>1, <1>2 DEF Init, FilesOK, Whole
  <2> QED BY <2>2, <2>3
<1>5. HarvestOK /\ CertifierOK
  BY <1>3, Stages DEF Init, HarvestOK, CertifierOK
<1>6. AnswersWitnessed /\ OneRuns
  BY <1>1, <1>2, <1>3 DEF AnswersWitnessed, OneRuns, Whole, Running
<1>7. CertifiersLag /\ WritersLag /\ CertifiedWasProven /\ ReportLeads
  BY <1>1, <1>2 DEF CertifiersLag, WritersLag, CertifiedWasProven, ReportLeads, Whole
<1> QED BY <1>4, <1>5, <1>6, <1>7 DEF EvidenceInv

-----------------------------------------------------------------------------
(* The harvest                                                             *)

LEMMA BeginInv ==
  ASSUME EvidenceInv, NEW h \in 1 .. MaxHarvests, NEW canary \in BOOLEAN, Begin(h, canary)
  PROVE  EvidenceInv'
<1> USE DEF EvidenceInv
<1>1. /\ h = harvests + 1 /\ harvests' = h /\ harvests \in Nat /\ h \in Nat
      /\ UNCHANGED <<disk, certifier, witnessed>>
      /\ overlapped' = (overlapped \/ \E g \in 1 .. harvests : Running(g))
  BY MaxHarvestsValid DEF Begin, TypeOK
<1>2. \A f : Whole(f)' = Whole(f)
  BY <1>1 DEF Whole
<1>3. /\ harvest' \in [1 .. MaxHarvests -> {Idle} \cup Probing \cup Publishing]
      /\ \A g \in (1 .. MaxHarvests) \ {h} : harvest'[g] = harvest[g]
      /\ harvest'[h] \in Probing /\ harvest'[h].evidence["health"] = "MISSING"
  <2> DEFINE begun == [at |-> "probe", evidence |-> [n \in Names |-> "MISSING"],
                       todo |-> IF canary THEN Append(Probes, Canary) ELSE Probes]
  <2>1. begun \in Probing /\ begun.evidence["health"] = "MISSING"
    BY ProbeNames DEF Probing, Evidence
  <2>2. harvest' = [harvest EXCEPT ![h] = begun]
    BY DEF Begin
  <2> HIDE DEF begun
  <2> QED BY <2>1, <2>2 DEF HarvestOK
<1>4. ~overlapped' => ~overlapped /\ \A g \in 1 .. MaxHarvests : ~Running(g)
  <2>1. ASSUME NEW g \in 1 .. MaxHarvests, Running(g)
        PROVE  overlapped'
    <3>1. g \in 1 .. harvests
      BY <2>1, <1>1 DEF TypeOK
    <3> QED BY <3>1, <2>1, <1>1
  <2>2. overlapped => overlapped'
    BY <1>1
  <2> QED BY <2>1, <2>2
<1>5. TypeOK'
  BY <1>1, <1>2, <1>3, Stages DEF TypeOK, Running
<1>6. FilesOK' /\ HarvestOK' /\ CertifierOK'
  BY <1>1, <1>2, <1>3, Stages DEF FilesOK, HarvestOK, CertifierOK
<1>7. ~Answered(harvest'[h].evidence)
  BY <1>3, SomeRequired DEF Answered
<1>8. AnswersWitnessed'
  BY <1>1, <1>2, <1>3, <1>7 DEF AnswersWitnessed, Answered, Running
<1>9. OneRuns'
  BY <1>1, <1>3, <1>4 DEF OneRuns, Running
<1>10. CertifiersLag' /\ WritersLag'
  BY <1>1, <1>2, <1>3, <1>4, Stages DEF CertifiersLag, WritersLag
<1>11. CertifiedWasProven' /\ ReportLeads'
  BY <1>1, <1>2, <1>4 DEF CertifiedWasProven, ReportLeads
<1> QED BY <1>5, <1>6, <1>8, <1>9, <1>10, <1>11

LEMMA ProbeInv ==
  ASSUME EvidenceInv, NEW h \in 1 .. MaxHarvests, NEW state \in {"PROVEN", "ERROR"},
         Probe(h, state)
  PROVE  EvidenceInv'
<1> USE DEF EvidenceInv
<1>1. UNCHANGED <<harvests, disk, certifier, overlapped>>
  BY DEF Probe
<1>2. \A f : Whole(f)' = Whole(f)
  BY <1>1 DEF Whole
<1>3. harvest[h] \in Probing /\ harvest[h].todo # <<>> /\ Running(h)
  BY Stages DEF Probe, HarvestOK, Running
<1>4. h \in 1 .. harvests
  BY <1>3 DEF TypeOK
<1>5. Head(harvest[h].todo) \in Names /\ Tail(harvest[h].todo) \in Seq(Names)
  BY <1>3 DEF Probing
<1>6. /\ harvest' \in [1 .. MaxHarvests -> {Idle} \cup Probing \cup Publishing]
      /\ \A g \in (1 .. MaxHarvests) \ {h} : harvest'[g] = harvest[g]
      /\ harvest'[h] \in Probing
  <2> DEFINE after == [harvest[h] EXCEPT !.evidence[Head(harvest[h].todo)] = state,
                                         !.todo = Tail(harvest[h].todo)]
  <2>1. after \in Probing
    BY <1>3, <1>5 DEF Probing, Evidence
  <2>2. harvest' = [harvest EXCEPT ![h] = after]
    BY DEF Probe, HarvestOK
  <2> HIDE DEF after
  <2> QED BY <2>1, <2>2 DEF HarvestOK
<1>7. /\ witnessed \subseteq witnessed' /\ witnessed' \subseteq witnessed \cup {h}
      /\ Answered(harvest'[h].evidence) => h \in witnessed'
  BY DEF Probe, Answered
<1>8. TypeOK'
  BY <1>1, <1>2, <1>3, <1>4, <1>6, <1>7, Stages DEF TypeOK, Running
<1>9. FilesOK' /\ HarvestOK' /\ CertifierOK'
  BY <1>1, <1>2, <1>6, Stages DEF FilesOK, HarvestOK, CertifierOK
<1>10. AnswersWitnessed'
  BY <1>1, <1>2, <1>6, <1>7 DEF AnswersWitnessed, Answered, Running
<1>11. OneRuns'
  BY <1>1, <1>3, <1>6 DEF OneRuns, Running
<1>12. CertifiersLag' /\ WritersLag'
  BY <1>1, <1>2, <1>6, Stages DEF CertifiersLag, WritersLag
<1>13. CertifiedWasProven' /\ ReportLeads'
  BY <1>1, <1>2, <1>7 DEF CertifiedWasProven, ReportLeads
<1> QED BY <1>8, <1>9, <1>10, <1>11, <1>12, <1>13

LEMMA PublishInv ==
  ASSUME EvidenceInv, NEW h \in 1 .. MaxHarvests, Publish(h)
  PROVE  EvidenceInv'
<1> USE DEF EvidenceInv
<1>1. UNCHANGED <<harvests, disk, certifier, witnessed, overlapped>>
  BY DEF Publish
<1>2. \A f : Whole(f)' = Whole(f)
  BY <1>1 DEF Whole
<1>3. harvest[h] \in Probing /\ Running(h)
  BY Stages DEF Publish, HarvestOK, Running
<1>4. /\ harvest' \in [1 .. MaxHarvests -> {Idle} \cup Probing \cup Publishing]
      /\ \A g \in (1 .. MaxHarvests) \ {h} : harvest'[g] = harvest[g]
      /\ harvest'[h] \in Publishing /\ harvest'[h].at = "publish"
      /\ harvest'[h].todo = Outputs /\ harvest'[h].evidence = harvest[h].evidence
  <2> DEFINE after == [at |-> "publish", todo |-> OutputOrder,
                       evidence |-> harvest[h].evidence]
  <2>1. /\ after \in Publishing /\ after.at = "publish" /\ after.todo = Outputs
        /\ after.evidence = harvest[h].evidence
    BY <1>3 DEF OutputOrder, Outputs, Probing, Publishing, Remaining
  <2>2. harvest' = [harvest EXCEPT ![h] = after]
    BY DEF Publish
  <2> HIDE DEF after
  <2> QED BY <2>1, <2>2 DEF HarvestOK
<1>5. TypeOK' /\ FilesOK'
  BY <1>1, <1>2, <1>3, <1>4, Stages DEF TypeOK, FilesOK, Running
<1>6. HarvestOK' /\ CertifierOK'
  BY <1>1, <1>4 DEF HarvestOK, CertifierOK
<1>7. AnswersWitnessed' /\ OneRuns'
  BY <1>1, <1>2, <1>3, <1>4 DEF AnswersWitnessed, Answered, OneRuns, Running
<1>8. CertifiersLag' /\ WritersLag'
  BY <1>1, <1>2, <1>4 DEF CertifiersLag, WritersLag
<1>9. CertifiedWasProven' /\ ReportLeads'
  BY <1>1, <1>2 DEF CertifiedWasProven, ReportLeads
<1> QED BY <1>5, <1>6, <1>7, <1>8, <1>9

LEMMA StopInv ==
  ASSUME EvidenceInv, NEW h \in 1 .. MaxHarvests, Stop(h)
  PROVE  EvidenceInv'
<1> USE DEF EvidenceInv
<1>1. UNCHANGED <<harvests, disk, certifier, witnessed, overlapped>>
  BY DEF Stop
<1>2. \A f : Whole(f)' = Whole(f)
  BY <1>1 DEF Whole
<1>3. /\ harvest' \in [1 .. MaxHarvests -> {Idle} \cup Probing \cup Publishing]
      /\ \A g \in (1 .. MaxHarvests) \ {h} : harvest'[g] = harvest[g]
      /\ harvest'[h] = Idle
  BY DEF Stop, HarvestOK
<1>4. TypeOK' /\ FilesOK'
  BY <1>1, <1>2, <1>3 DEF TypeOK, FilesOK, Running
<1>5. HarvestOK' /\ CertifierOK'
  BY <1>1, <1>3, Stages DEF HarvestOK, CertifierOK
<1>6. AnswersWitnessed' /\ OneRuns'
  BY <1>1, <1>2, <1>3 DEF AnswersWitnessed, Answered, OneRuns, Running
<1>7. CertifiersLag' /\ WritersLag'
  BY <1>1, <1>2, <1>3, Stages DEF CertifiersLag, WritersLag
<1>8. CertifiedWasProven' /\ ReportLeads'
  BY <1>1, <1>2 DEF CertifiedWasProven, ReportLeads
<1> QED BY <1>4, <1>5, <1>6, <1>7, <1>8

\* A file that cannot be read says nothing.
LEMMA UnreadableFile ==
  ASSUME EvidenceInv, NEW file \in Files, NEW text \in {Torn, Garbled},
         disk' = [disk EXCEPT ![file] = text],
         UNCHANGED <<harvests, witnessed, overlapped>>
  PROVE  /\ \A f \in Files : Whole(f)' => Whole(f) /\ disk'[f] = disk[f]
         /\ "report" \in Files /\ "certificate" \in Files
         /\ FilesOK' /\ CertifiedWasProven' /\ ReportLeads'
         /\ \A f \in Files : Whole(f)' => disk'[f].harvest \in 1 .. harvests
<1> USE DEF EvidenceInv
<1>1. \A f \in Files : Whole(f)' => Whole(f) /\ disk'[f] = disk[f]
  BY DEF FilesOK, Whole
<1>2. "report" \in Files /\ "certificate" \in Files
  BY FileNames
<1>3. FilesOK'
  BY <1>1, <1>2 DEF FilesOK
<1>4. CertifiedWasProven' /\ ReportLeads'
  BY <1>1, <1>2 DEF CertifiedWasProven, ReportLeads
<1> QED BY <1>1, <1>2, <1>3, <1>4 DEF TypeOK

\* A harvest at its files: where it is before and after one step of writing.
LEMMA AtFiles ==
  ASSUME EvidenceInv, NEW h \in 1 .. MaxHarvests, harvest[h].at \in {"publish", "write"},
         harvest[h].todo # <<>>
  PROVE  /\ harvest[h] \in Publishing /\ Running(h) /\ h \in 1 .. harvests
         /\ Head(harvest[h].todo) \in Files /\ Head(harvest[h].todo) # "certificate"
         /\ Tail(harvest[h].todo) \in Remaining /\ Tail(harvest[h].todo) # Outputs
         /\ Head(harvest[h].todo) = "report" <=> harvest[h].todo = Outputs
<1>1. harvest[h] \in Publishing /\ Running(h)
  BY Stages DEF EvidenceInv, HarvestOK, Running
<1>2. harvest[h].todo \in Remaining
  BY <1>1 DEF Publishing
<1> QED BY <1>1, <1>2, NextOutput DEF EvidenceInv, TypeOK

LEMMA TruncateInv ==
  ASSUME EvidenceInv, NEW h \in 1 .. MaxHarvests, Truncate(h)
  PROVE  EvidenceInv'
<1> USE DEF EvidenceInv
<1>1. /\ UNCHANGED <<harvests, certifier, witnessed, overlapped>>
      /\ disk' = [disk EXCEPT ![Head(harvest[h].todo)] = Torn]
      /\ harvest' = [harvest EXCEPT ![h].at = "write"]
      /\ harvest[h].todo # <<>> /\ harvest[h].at \in {"publish", "write"}
  BY DEF Truncate
<1>2. harvest[h] \in Publishing /\ Running(h) /\ Head(harvest[h].todo) \in Files
  BY <1>1, AtFiles
<1>3. /\ \A f \in Files : Whole(f)' => Whole(f) /\ disk'[f] = disk[f]
      /\ "report" \in Files /\ "certificate" \in Files
      /\ FilesOK' /\ CertifiedWasProven' /\ ReportLeads'
      /\ \A f \in Files : Whole(f)' => disk'[f].harvest \in 1 .. harvests
  BY <1>1, <1>2, UnreadableFile
<1>4. /\ harvest' \in [1 .. MaxHarvests -> {Idle} \cup Probing \cup Publishing]
      /\ \A g \in (1 .. MaxHarvests) \ {h} : harvest'[g] = harvest[g]
      /\ harvest'[h] \in Publishing /\ harvest'[h].todo = harvest[h].todo
      /\ harvest'[h].evidence = harvest[h].evidence
  <2> DEFINE after == [harvest[h] EXCEPT !.at = "write"]
  <2>1. /\ after \in Publishing /\ after.todo = harvest[h].todo
        /\ after.evidence = harvest[h].evidence
    BY <1>2 DEF Publishing
  <2>2. harvest' = [harvest EXCEPT ![h] = after]
    BY <1>1 DEF HarvestOK
  <2> HIDE DEF after
  <2> QED BY <2>1, <2>2 DEF HarvestOK
<1>5. TypeOK' /\ HarvestOK' /\ CertifierOK'
  BY <1>1, <1>2, <1>3, <1>4, Stages DEF TypeOK, HarvestOK, CertifierOK, Running
<1>6. AnswersWitnessed' /\ OneRuns'
  BY <1>1, <1>2, <1>3, <1>4 DEF AnswersWitnessed, Answered, OneRuns, Running
<1>7. CertifiersLag' /\ WritersLag'
  BY <1>1, <1>2, <1>3, <1>4 DEF CertifiersLag, WritersLag
<1> QED BY <1>3, <1>5, <1>6, <1>7

\* What a harvest writes is of itself, the report first.
LEMMA WriteInv ==
  ASSUME EvidenceInv, NEW h \in 1 .. MaxHarvests, Write(h)
  PROVE  EvidenceInv'
<1> USE DEF EvidenceInv
<1>1. PICK file, text :
        /\ file = Head(harvest[h].todo)
        /\ text = Text(h, file) \/ text = Garbled
        /\ disk' = [disk EXCEPT ![file] = text]
  BY DEF Write, Written
<1>2. /\ UNCHANGED <<harvests, certifier, witnessed, overlapped>>
      /\ harvest' = [harvest EXCEPT ![h].at = "publish", ![h].todo = Tail(@)]
      /\ harvest[h].todo # <<>> /\ harvest[h].at \in {"publish", "write"}
  BY DEF Write, HarvestOK
<1>3. /\ harvest[h] \in Publishing /\ Running(h) /\ h \in 1 .. harvests
      /\ file \in Files /\ file # "certificate"
      /\ Tail(harvest[h].todo) \in Remaining /\ Tail(harvest[h].todo) # Outputs
      /\ file = "report" <=> harvest[h].todo = Outputs
  BY <1>1, <1>2, AtFiles
<1>4. /\ harvest' \in [1 .. MaxHarvests -> {Idle} \cup Probing \cup Publishing]
      /\ \A g \in (1 .. MaxHarvests) \ {h} : harvest'[g] = harvest[g]
      /\ harvest'[h] \in Publishing /\ harvest'[h].at = "publish"
      /\ harvest'[h].todo # Outputs /\ harvest'[h].evidence = harvest[h].evidence
  <2> DEFINE after == [harvest[h] EXCEPT !.at = "publish", !.todo = Tail(harvest[h].todo)]
  <2>1. /\ after \in Publishing /\ after.at = "publish" /\ after.todo # Outputs
        /\ after.evidence = harvest[h].evidence
    BY <1>3 DEF Publishing
  <2>2. harvest' = [harvest EXCEPT ![h] = after]
    BY <1>2 DEF HarvestOK
  <2> HIDE DEF after
  <2> QED BY <2>1, <2>2 DEF HarvestOK
<1>5. /\ "report" \in Files /\ "certificate" \in Files
      /\ \A f \in Files \ {file} : disk'[f] = disk[f] /\ Whole(f)' = Whole(f)
      /\ disk'[file] = text
      /\ Whole(file)' => text = Text(h, file)
  BY <1>1, <1>3, FileNames DEF FilesOK, Whole
<1>6. h \in Nat /\ harvests \in Nat
  BY MaxHarvestsValid DEF TypeOK
<1>7. /\ Text(h, file) \in Texts /\ Text(h, file).harvest = h
      /\ file = "report" => /\ Text(h, file) \in Reports
                            /\ Text(h, file).evidence = harvest[h].evidence
  BY <1>3, <1>6 DEF Text, Report, Texts, Reports, RuntimeState, Publishing
<1>8. \A f \in Files : Whole(f)' => disk'[f].harvest \in 1 .. harvests
  BY <1>3, <1>5, <1>7 DEF TypeOK
<1>9. TypeOK'
  BY <1>2, <1>3, <1>4, <1>8, Stages DEF TypeOK, Running
<1>10. FilesOK'
  <2>1. disk' \in [Files -> {None, Torn, Garbled} \cup Texts]
    BY <1>1, <1>3, <1>7 DEF FilesOK
  <2>2. Whole("report")' => disk'["report"] \in Reports
    BY <1>5, <1>7 DEF FilesOK
  <2> QED BY <2>1, <2>2 DEF FilesOK
<1>11. HarvestOK' /\ CertifierOK'
  BY <1>2, <1>4 DEF HarvestOK, CertifierOK
<1>12. AnswersWitnessed'
  <2>1. Whole("report")' /\ Answered(disk'["report"].evidence) =>
          disk'["report"].harvest \in witnessed
    BY <1>3, <1>5, <1>7 DEF AnswersWitnessed
  <2>2. \A g \in 1 .. MaxHarvests :
          Running(g)' /\ Answered(harvest'[g].evidence) => g \in witnessed
    BY <1>3, <1>4 DEF AnswersWitnessed, Running
  <2> QED BY <2>1, <2>2, <1>2 DEF AnswersWitnessed, Answered
<1>13. OneRuns'
  BY <1>2, <1>3, <1>4 DEF OneRuns, Running
<1>14. ~overlapped => h = harvests /\ (Whole("report")' => disk'["report"].harvest = h)
  BY <1>3, <1>5, <1>7 DEF OneRuns, WritersLag
<1>15. CertifiersLag'
  <2>1. ASSUME NEW c \in Certifiers, certifier[c] # Idle
        PROVE  certifier[c].report.harvest <= harvests
    BY <2>1, <1>6 DEF TypeOK
  <2> QED BY <2>1, <1>2, <1>14 DEF CertifiersLag
<1>16. WritersLag'
  <2>1. ~overlapped => \A g \in (1 .. MaxHarvests) \ {h} : harvest'[g] \notin Publishing
    BY <1>4, <1>14, Stages DEF OneRuns, Running, HarvestOK
  <2> QED BY <2>1, <1>2, <1>14 DEF WritersLag
<1>17. CertifiedWasProven'
  BY <1>2, <1>3, <1>5 DEF CertifiedWasProven
<1>18. ReportLeads'
  <2>1. ASSUME NEW f \in Files, Whole(f)'
        PROVE  disk'[f].harvest <= harvests
    BY <2>1, <1>6, <1>8
  <2> QED BY <2>1, <1>2, <1>14 DEF ReportLeads
<1> QED BY <1>9, <1>10, <1>11, <1>12, <1>13, <1>15, <1>16, <1>17, <1>18

-----------------------------------------------------------------------------
(* The certification                                                       *)

LEMMA ReadReportInv ==
  ASSUME EvidenceInv, NEW c \in Certifiers, ReadReport(c)
  PROVE  EvidenceInv'
<1> USE DEF EvidenceInv
<1>1. /\ UNCHANGED <<harvests, harvest, disk, witnessed, overlapped>>
      /\ Whole("report")
      /\ certifier' = [certifier EXCEPT ![c] = [at |-> "certify", report |-> disk["report"]]]
  BY DEF ReadReport
<1>2. \A f : Whole(f)' = Whole(f)
  BY <1>1 DEF Whole
<1>3. disk["report"] \in Reports /\ disk["report"].harvest \in 1 .. harvests
  BY <1>1, FileNames DEF FilesOK, TypeOK
<1>4. /\ certifier' \in [Certifiers -> {Idle} \cup Certifying]
      /\ \A d \in Certifiers \ {c} : certifier'[d] = certifier[d]
      /\ certifier'[c].report = disk["report"]
  BY <1>1, <1>3 DEF CertifierOK, Certifying
<1>5. disk["report"].harvest \in Nat
  BY <1>3 DEF Reports
<1>6. TypeOK' /\ FilesOK'
  BY <1>1, <1>2, <1>3, <1>4 DEF TypeOK, FilesOK, Running
<1>7. HarvestOK' /\ CertifierOK'
  BY <1>1, <1>4 DEF HarvestOK, CertifierOK
<1>8. AnswersWitnessed' /\ OneRuns'
  BY <1>1, <1>2, <1>4 DEF AnswersWitnessed, OneRuns, Running
<1>9. CertifiersLag' /\ WritersLag'
  BY <1>1, <1>2, <1>4, <1>5 DEF CertifiersLag, WritersLag
<1>10. CertifiedWasProven' /\ ReportLeads'
  BY <1>1, <1>2 DEF CertifiedWasProven, ReportLeads
<1> QED BY <1>6, <1>7, <1>8, <1>9, <1>10

LEMMA TruncateCertificateInv ==
  ASSUME EvidenceInv, NEW c \in Certifiers, TruncateCertificate(c)
  PROVE  EvidenceInv'
<1> USE DEF EvidenceInv
<1>1. /\ UNCHANGED <<harvests, harvest, witnessed, overlapped>>
      /\ certifier[c].at = "certify"
      /\ certifier' = [certifier EXCEPT ![c].at = "write"]
      /\ disk' = [disk EXCEPT !["certificate"] = Torn]
  BY DEF TruncateCertificate
<1>2. /\ \A f \in Files : Whole(f)' => Whole(f) /\ disk'[f] = disk[f]
      /\ "report" \in Files /\ "certificate" \in Files
      /\ FilesOK' /\ CertifiedWasProven' /\ ReportLeads'
      /\ \A f \in Files : Whole(f)' => disk'[f].harvest \in 1 .. harvests
  BY <1>1, FileNames, UnreadableFile
<1>3. certifier[c] \in Certifying /\ certifier[c] # Idle
  BY <1>1, Stages DEF CertifierOK
<1>4. /\ certifier' \in [Certifiers -> {Idle} \cup Certifying]
      /\ \A d \in Certifiers \ {c} : certifier'[d] = certifier[d]
      /\ certifier'[c].report = certifier[c].report
  BY <1>1, <1>3 DEF CertifierOK, Certifying
<1>5. TypeOK'
  BY <1>1, <1>2, <1>3, <1>4 DEF TypeOK, Running
<1>6. HarvestOK' /\ CertifierOK'
  BY <1>1, <1>4 DEF HarvestOK, CertifierOK
<1>7. AnswersWitnessed' /\ OneRuns'
  BY <1>1, <1>2, <1>3, <1>4 DEF AnswersWitnessed, OneRuns, Running
<1>8. CertifiersLag' /\ WritersLag'
  BY <1>1, <1>2, <1>3, <1>4 DEF CertifiersLag, WritersLag
<1> QED BY <1>2, <1>5, <1>6, <1>7, <1>8

LEMMA WriteCertificateInv ==
  ASSUME EvidenceInv, NEW c \in Certifiers, WriteCertificate(c)
  PROVE  EvidenceInv'
<1> USE DEF EvidenceInv
<1> DEFINE report == certifier[c].report
           certificate == Certificate(report)
<1>1. /\ UNCHANGED <<harvests, harvest, witnessed, overlapped>>
      /\ certifier[c].at = "write" /\ certifier' = [certifier EXCEPT ![c] = Idle]
  BY DEF WriteCertificate
<1>2. PICK text : /\ text = certificate \/ text = Garbled
                  /\ disk' = [disk EXCEPT !["certificate"] = text]
  BY DEF WriteCertificate, Written
<1>3. certifier[c] \in Certifying /\ certifier[c] # Idle
  BY <1>1, Stages DEF CertifierOK
<1>4. report \in Reports /\ report.harvest \in Nat /\ report.harvest \in 1 .. harvests
  BY <1>3 DEF Certifying, Reports, TypeOK
<1>5. PICK verdict \in {"PASS", "PARTIAL", "FAIL"} :
        certificate = [harvest |-> report.harvest, certification |-> verdict]
  BY DEF Certificate, Certification
<1>6. certificate \in Texts /\ certificate.harvest = report.harvest
  BY <1>4, <1>5 DEF Texts, Certificates
<1>7. certificate.certification # "FAIL" => Answered(report.evidence)
  BY CertifiedIsAnswered DEF Certificate
<1>8. Answered(report.evidence) => report.harvest \in witnessed
  BY <1>3 DEF AnswersWitnessed
<1> HIDE DEF certificate, report
<1>9. /\ "report" \in Files /\ "certificate" \in Files
      /\ \A f \in Files \ {"certificate"} : disk'[f] = disk[f] /\ Whole(f)' = Whole(f)
      /\ Whole("report")' = Whole("report") /\ disk'["report"] = disk["report"]
      /\ Whole("certificate")' => disk'["certificate"] = certificate
  BY <1>2, FileNames DEF FilesOK, Whole
<1>10. /\ certifier' \in [Certifiers -> {Idle} \cup Certifying]
       /\ \A d \in Certifiers \ {c} : certifier'[d] = certifier[d]
       /\ certifier'[c] = Idle
  BY <1>1 DEF CertifierOK
<1>11. TypeOK'
  BY <1>1, <1>4, <1>6, <1>9, <1>10 DEF TypeOK, Running
<1>12. FilesOK'
  <2>1. disk' \in [Files -> {None, Torn, Garbled} \cup Texts]
    BY <1>2, <1>6 DEF FilesOK
  <2> QED BY <2>1, <1>9 DEF FilesOK
<1>13. HarvestOK' /\ CertifierOK'
  BY <1>1, <1>10 DEF HarvestOK, CertifierOK
<1>14. AnswersWitnessed' /\ OneRuns'
  BY <1>1, <1>9, <1>10 DEF AnswersWitnessed, OneRuns, Running
<1>15. CertifiersLag' /\ WritersLag'
  BY <1>1, <1>9, <1>10 DEF CertifiersLag, WritersLag
<1>16. CertifiedWasProven'
  BY <1>1, <1>6, <1>7, <1>8, <1>9 DEF CertifiedWasProven
<1>17. ~overlapped /\ Whole("report") => report.harvest <= disk["report"].harvest
  BY <1>3 DEF CertifiersLag, report
<1>18. ReportLeads'
  BY <1>1, <1>6, <1>9, <1>17 DEF ReportLeads
<1> QED BY <1>11, <1>12, <1>13, <1>14, <1>15, <1>16, <1>18

LEMMA CertifierDiesInv ==
  ASSUME EvidenceInv, NEW c \in Certifiers, CertifierDies(c)
  PROVE  EvidenceInv'
<1> USE DEF EvidenceInv
<1>1. /\ UNCHANGED <<harvests, harvest, disk, witnessed, overlapped>>
      /\ certifier' = [certifier EXCEPT ![c] = Idle]
  BY DEF CertifierDies
<1>2. \A f : Whole(f)' = Whole(f)
  BY <1>1 DEF Whole
<1>3. /\ certifier' \in [Certifiers -> {Idle} \cup Certifying]
      /\ \A d \in Certifiers \ {c} : certifier'[d] = certifier[d]
      /\ certifier'[c] = Idle
  BY <1>1 DEF CertifierOK
<1>4. TypeOK' /\ FilesOK' /\ HarvestOK' /\ CertifierOK'
  BY <1>1, <1>2, <1>3 DEF TypeOK, FilesOK, HarvestOK, CertifierOK, Running
<1>5. AnswersWitnessed' /\ OneRuns' /\ CertifiersLag' /\ WritersLag'
  BY <1>1, <1>2, <1>3 DEF AnswersWitnessed, OneRuns, CertifiersLag, WritersLag, Running
<1>6. CertifiedWasProven' /\ ReportLeads'
  BY <1>1, <1>2 DEF CertifiedWasProven, ReportLeads
<1> QED BY <1>4, <1>5, <1>6

LEMMA StutterInv == EvidenceInv /\ UNCHANGED vars => EvidenceInv'
BY DEF EvidenceInv, vars, TypeOK, FilesOK, HarvestOK, CertifierOK, AnswersWitnessed,
       Answered, OneRuns, CertifiersLag, WritersLag, CertifiedWasProven, ReportLeads,
       Whole, Running

LEMMA NextInv == EvidenceInv /\ [Next]_vars => EvidenceInv'
BY BeginInv, ProbeInv, PublishInv, TruncateInv, WriteInv, StopInv, ReadReportInv,
   TruncateCertificateInv, WriteCertificateInv, CertifierDiesInv, StutterInv
DEF Next

-----------------------------------------------------------------------------
(* The theorems                                                            *)

\* Every file that can be read, and every report that was, is of some harvest
\* (main() of harvest.py and of certify_runtime.py).
THEOREM TypeCorrect == Spec => []TypeOK
<1>1. EvidenceInv => TypeOK
  BY DEF EvidenceInv
<1> QED BY <1>1, InitInv, NextInv, PTL DEF Spec

\* Missing evidence is never interpreted as PASS: however many harvests and
\* certifications crash or overlap, certify_runtime.py certifies an office only
\* for a harvest in which every endpoint that a control requires answered.
THEOREM CertificationIsProven == Spec => []CertifiedWasProven
<1>1. EvidenceInv => CertifiedWasProven
  BY DEF EvidenceInv
<1> QED BY <1>1, InitInv, NextInv, PTL DEF Spec

\* As long as no two harvests overlapped, no file on disk is of a later harvest
\* than the report, however the writes of harvest.py end and whatever the
\* certifications read before.
THEOREM NoFileAheadOfReport == Spec => []ReportLeads
<1>1. EvidenceInv => ReportLeads
  BY DEF EvidenceInv
<1> QED BY <1>1, InitInv, NextInv, PTL DEF Spec
=============================================================================
