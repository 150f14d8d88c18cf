-------------------------- MODULE MCGlobalResolver --------------------------
(* Values of GlobalResolver's constants for TLC. *)
EXTENDS GlobalResolver, TLC

CONSTANTS eden, render, ghost

Inference == {"model.infer"}

\* eden is local and declares inference, render is remote and does not; the
\* routes prefer eden.
Today ==
  [nodes |-> <<[node |-> eden, caps |-> Inference, local |-> TRUE,
                class |-> "private"],
               [node |-> render, caps |-> {}, local |-> FALSE,
                class |-> "mixed"]>>,
   known |-> Inference,
   preferences |-> [k \in Inference |-> {<<eden>>}]]

\* After an edit of the files: eden is gone, and so are the capability and its
\* routes; render declares inference and no longer suits every security class.
Tomorrow ==
  [nodes |-> <<[node |-> render, caps |-> Inference, local |-> FALSE,
                class |-> "public"]>>,
   known |-> {},
   preferences |-> [k \in Inference |-> {<<>>}]]

BothRegistries == {Today, Tomorrow}

OneOffer == {Inference}

TwoQueries ==
  [capability: Inference, class: {"private"}, prefer_local: {FALSE}]
  \cup [capability: Inference, class: {None}, prefer_local: {TRUE}]

\* The least a node may report and still go before one nobody has heard of.
LowOrUnreadable == {-24, Unreadable}

FewReports == [n \in Nodes |-> IF n = eden THEN 2 ELSE 1]

WorkerSymmetry == Permutations(Workers)
=============================================================================
