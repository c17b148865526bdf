-------------------------- MODULE MCClassController --------------------------
(***************************************************************************)
(* The runs of ClassController that pass.  Specs and label keys are model  *)
(* values that the specification does not tell apart, so a class starts    *)
(* with the first of them: every other behaviour is one of these with the  *)
(* values renamed.  (Symmetry itself is not sound for liveness.)           *)
(***************************************************************************)
EXTENDS ClassController

MCInit ==
  /\ Init
  /\ class.spec = CHOOSE s \in ClassSpec : TRUE
  /\ overcommit.key = CHOOSE k \in LabelKeys : TRUE

MCSpec == MCInit /\ [][Next]_vars /\ Fairness

MCSpecRandom == MCSpec /\ RandomOrder
=============================================================================
