--------------------------- MODULE MCPodAdmission ---------------------------
(***************************************************************************)
(* Small instances of PodAdmission.  Ratios are ten-thousandths, as in the *)
(* class schema; limits are chosen so that scaling truncates to zero (1),  *)
(* truncates (3) and loses one to the float product (100 * 0.29).          *)
(***************************************************************************)
EXTENDS PodAdmission

CONSTANTS A, B, n1, k1, k2, app, setup, cpu, memory

Q(c, m) == [r \in {cpu, memory} |-> IF r = cpu THEN c ELSE m]

Class(c, m, default, excluded) ==
  [ratio |-> Q(c, m), isDefault |-> default, excluded |-> excluded]

\* A default class, and a class with CPU at ratio 1 that excludes the namespace.
MCSpecs ==
  {Class(5000, 2900, TRUE, {}), Class(10000, 5000, FALSE, {n1})}

MCOneSpec == {Class(5000, 2900, TRUE, {})}

MCRoundsDown == {<<100, 2900>>}

NoRequests == Q(Absent, Absent)

Everywhere(n) == [k \in Keys |-> n]

PodWith(labels, applied, ratio, lim, rq) ==
  [ns |-> n1, labels |-> labels,
   limits |-> [c \in AllContainers |-> lim], requests |-> [c \in AllContainers |-> rq],
   applied |-> applied, ratio |-> ratio]

\* Unlabelled and labelled pods, with and without requests, and one submitted
\* with the annotations of an earlier admission (a copied manifest).
MCTemplates ==
  {PodWith(Everywhere(NoName), NoName, NoOp, Q(3, 100), NoRequests),
   PodWith(Everywhere(A), NoName, NoOp, Q(1, 100), Q(1, 100)),
   PodWith(Everywhere(B), A, Q(5000, 10000), Q(3, Absent), Q(2, Absent))}

\* Labelled under one label key only: unlabelled as long as the other one counts.
MCKeyTemplates ==
  {PodWith([k \in Keys |-> IF k = k2 THEN A ELSE NoName], NoName, NoOp, Q(3, 100), Q(1, 100))}

MCUnlabelled == {PodWith(Everywhere(NoName), NoName, NoOp, Q(3, 100), NoRequests)}

MCResizes ==
  {[limits |-> Q(8, 100), requests |-> Q(8, 60)],
   [limits |-> Q(Absent, 7), requests |-> Q(2, 7)]}
=============================================================================
