-------------------------- MODULE MCDocumentStream --------------------------
(* Instances of DocumentStream for TLC. *)
EXTENDS DocumentStream

CvOnly    == {{"cv"}}
CvAndLeg  == {{"cv", "leg"}}
RoutedPdf == {{"pdf"}}
\* Every shape of plan without a CV run.
Scattered == {{"leg"}, {"unwired"}, {"leg", "unwired"}, {"leg", "pdf"}}
CvAndPdf  == {{"cv", "pdf"}}
\* Every shape of plan: alone, beside a leg, beside an unrouted pdf, routed,
\* and with a part that cannot run.
EveryPlan == Scattered \cup CvOnly \cup CvAndLeg \cup CvAndPdf \cup RoutedPdf
=============================================================================
