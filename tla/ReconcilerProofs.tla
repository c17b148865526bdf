-------------------------- MODULE ReconcilerProofs --------------------------
(***************************************************************************)
(* What follows from Reconciler alone, and thus holds of every controller  *)
(* that implements it.                                                     *)
(***************************************************************************)
EXTENDS Reconciler, TLAPS

LEMMA AttentiveStep == Attentive /\ [Next]_vars => Attentive'
<1> SUFFICES ASSUME Attentive, [Next]_vars PROVE Attentive'
  OBVIOUS
<1> USE DEF Attentive, cluster
<1>1. CASE Put \/ Delete
  BY <1>1 DEF Put, Delete
<1>2. CASE Learn \/ Resync
  BY <1>2 DEF Learn, Resync
<1>3. CASE Begin \/ Read
  BY <1>3 DEF Begin, Read
<1>4. CASE Finish
  BY <1>4 DEF Finish
<1>5. CASE GiveUp \/ Release
  BY <1>5 DEF GiveUp, Release
<1>6. CASE Restart
  BY <1>6 DEF Restart
<1>7. CASE UNCHANGED vars
  BY <1>7 DEF vars
<1> QED BY <1>1, <1>2, <1>3, <1>4, <1>5, <1>6, <1>7 DEF Next

\* A worker at rest with an empty queue has read what its informer shows, whatever
\* order users, events, errors and restarts came in.
THEOREM AttentiveAlways == Spec => []Attentive
<1>1. Init => Attentive
  BY DEF Init, Attentive
<1> QED BY <1>1, AttentiveStep, PTL DEF Spec

\* No change of the object is forgotten: what the worker has not read is queued, or
\* its event is to come.
THEOREM NothingForgotten == Spec => []Unforgetting
<1>1. Attentive => Unforgetting
  BY DEF Attentive, Unforgetting
<1> QED BY <1>1, AttentiveAlways, PTL
=============================================================================
