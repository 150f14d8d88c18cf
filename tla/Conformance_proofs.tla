------------------------- MODULE Conformance_proofs -------------------------
(***************************************************************************)
(* What the gate of certify.py certifies, for every list of controls: the  *)
(* list itself holds the evidence it asks for, so the gate says PASS       *)
(* whatever is declared; and no declaration ever lowers a certification.   *)
(***************************************************************************)
EXTENDS Conformance, FiniteSetTheorems, TLAPS

\* Evidence is never lost by adding some.
LEMMA FoundGrows ==
  ASSUME NEW corpus, NEW larger, corpus \subseteq larger, NEW c \in Controls
  PROVE  Found(c, corpus) \subseteq Found(c, larger)
BY DEF Found, Present

LEMMA PassingGrows ==
  ASSUME NEW corpus, NEW larger, corpus \subseteq larger
  PROVE  /\ Passing(corpus) \subseteq Passing(larger)
         /\ Failing(larger) \subseteq Failing(corpus)
<1>1. ASSUME NEW c \in Passing(corpus) PROVE c \in Passing(larger)
  <2>1. c \in Controls /\ Found(c, corpus) = c.evidence
    BY <1>1 DEF Passing
  <2>2. Found(c, larger) \subseteq c.evidence
    BY DEF Found
  <2> QED BY <2>1, <2>2, FoundGrows DEF Passing
<1>2. ASSUME NEW c \in Failing(larger) PROVE c \in Failing(corpus)
  <2>1. c \in Controls /\ c \notin Passing(larger) /\ Found(c, larger) = {}
    BY <1>2 DEF Failing
  <2>2. c \notin Passing(corpus)
    BY <1>1, <2>1
  <2>3. Found(c, corpus) = {}
    BY <2>1, FoundGrows
  <2> QED BY <2>1, <2>2, <2>3 DEF Failing
<1> QED BY <1>1, <1>2

LEMMA AtLeastGrows ==
  ASSUME IsFiniteSet(Controls), NEW percent \in Nat,
         NEW some \in SUBSET Controls, NEW more \in SUBSET Controls, some \subseteq more,
         AtLeast(percent, some)
  PROVE  AtLeast(percent, more)
<1>1. IsFiniteSet(some) /\ IsFiniteSet(more)
  BY FS_Subset
<1>2. /\ Cardinality(some) \in Nat /\ Cardinality(more) \in Nat
      /\ Cardinality(some) <= Cardinality(more)
  BY <1>1, FS_CardinalityType, FS_Subset
<1> DEFINE need == percent * Cardinality(Controls)
           few == Cardinality(some)
           many == Cardinality(more)
<1>3. few * 100 >= need /\ few \in Nat /\ many \in Nat /\ few <= many
  BY <1>2 DEF AtLeast
<1>4. need \in Nat
  BY FS_CardinalityType
<1>5. many * 100 >= need
  <2> HIDE DEF need, few, many
  <2> QED BY <1>3, <1>4
<1> QED BY <1>5 DEF AtLeast

\* Declaring more evidence never lowers what certify.py certifies: the counts
\* of passing controls only grow, and no blocking failure comes up.
THEOREM MoreEvidenceNeverLowers ==
  ASSUME IsFiniteSet(Controls), NEW corpus, NEW larger, corpus \subseteq larger
  PROVE  /\ Certified(corpus) = "PASS" => Certified(larger) = "PASS"
         /\ Certified(corpus) = "PARTIAL" => Certified(larger) \in {"PASS", "PARTIAL"}
<1> DEFINE NoBlocking(set) == \A c \in Failing(set) : c.severity \notin {"critical", "high"}
<1>1. Passing(corpus) \in SUBSET Controls /\ Passing(larger) \in SUBSET Controls
  BY DEF Passing
<1>2. /\ AtLeast(95, Passing(corpus)) => AtLeast(95, Passing(larger))
      /\ AtLeast(70, Passing(corpus)) => AtLeast(70, Passing(larger))
  BY <1>1, PassingGrows, AtLeastGrows
<1>3. NoBlocking(corpus) => NoBlocking(larger)
  BY PassingGrows
<1>4. ASSUME Certified(corpus) = "PASS" PROVE Certified(larger) = "PASS"
  <2>1. NoBlocking(corpus) /\ AtLeast(95, Passing(corpus))
    BY <1>4 DEF Certified
  <2>2. NoBlocking(larger) /\ AtLeast(95, Passing(larger))
    BY <1>2, <1>3, <2>1
  <2> QED BY <2>2 DEF Certified
<1>5. ASSUME Certified(corpus) = "PARTIAL" PROVE Certified(larger) \in {"PASS", "PARTIAL"}
  <2>1. AtLeast(70, Passing(corpus))
    BY <1>5 DEF Certified
  <2> QED BY <1>2, <2>1 DEF Certified
<1> QED BY <1>4, <1>5

\* The corpus of certify.py holds every piece of evidence a control asks for,
\* because flatten() takes it from the control itself.
LEMMA EverythingPasses == Passing(Corpus) = Controls /\ Failing(Corpus) = {}
<1>1. ASSUME NEW c \in Controls PROVE Found(c, Corpus) = c.evidence
  BY DEF Found, Present, Corpus
<1> QED BY <1>1 DEF Passing, Failing

\* The gate of certify.py cannot fail a pull request: for every list of controls
\* and whatever the baseline and the bundle declare, every run certifies PASS.
THEOREM GateNeverFails ==
  ASSUME IsFiniteSet(Controls)
  PROVE  Spec => [](certification \in {"none", "PASS"})
<1> DEFINE Inv == certification \in {"none", "PASS"}
<1>1. Init => Inv
  BY DEF Init
<1>2. Certified(Corpus) = "PASS"
  <2>1. AtLeast(95, Controls)
    BY FS_CardinalityType DEF AtLeast
  <2> QED BY <2>1, EverythingPasses DEF Certified
<1>3. Inv /\ [Next]_vars => Inv'
  BY <1>2 DEF Next, Certify, Edit, vars
<1> QED BY <1>1, <1>2, <1>3, PTL DEF Spec
=============================================================================
