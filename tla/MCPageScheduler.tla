-------------------------- MODULE MCPageScheduler --------------------------
(* Instances of PageScheduler for TLC. *)
EXTENDS PageScheduler, TLC

\* Documents are interchangeable in every definition.
DocSymmetry == Permutations(Docs)
\* The workers of a stage are interchangeable too.
WorkerSymmetry == Permutations(Assemblers)

\* Both at once.
BothSymmetry == DocSymmetry \cup WorkerSymmetry

\* page_range from the second page.
Ranged == {<<2, 3>>}
============================================================================
