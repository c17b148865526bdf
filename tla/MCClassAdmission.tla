-------------------------- MODULE MCClassAdmission --------------------------
(***************************************************************************)
(* Small instances of ClassAdmission.  Ratios are steps of 5e-10, half the *)
(* webhook's tolerance: Unit is 2000000000, the fourth decimal (and the    *)
(* CRD's minimum) 200000, the fifth 20000.                                 *)
(***************************************************************************)
EXTENDS ClassAdmission

Class(cpu, memory, default, len, compiles) ==
  [cpu |-> cpu, memory |-> memory, isDefault |-> default,
   excluded |-> [len |-> len, compiles |-> compiles]]

\* The bounds, and 0.29 as a number just below it, which math.Round brings back.
Valid ==
  {Class(200000, 2000000000, TRUE, 512, TRUE), Class(1600000000, 579999999, FALSE, 40, TRUE)}

\* Specs the CRD schema or the webhook refuses, one for each check.
Invalid ==
  {Class(0, 1600000000, FALSE, 40, TRUE), Class(400000000, 2000200000, FALSE, 40, TRUE),
   Class(400020000, 1600000000, FALSE, 40, TRUE), Class(400000000, 1600000000, TRUE, 513, TRUE),
   Class(400000000, 1600000000, FALSE, 40, FALSE)}

MCSpecs == Valid \cup Invalid

=============================================================================
