----------------------------- MODULE Reconciler -----------------------------
(***************************************************************************)
(* What a controller promises about the object it reconciles, said of the  *)
(* informer, the work queue and the worker alone: without children,        *)
(* statuses, owners, retries or the calls a reconciliation makes.          *)
(* ClassController and OvercommitController implement it.                  *)
(***************************************************************************)
CONSTANTS
  Versions, \* what can be told apart of an object: its uid and its spec
  None

VARIABLES
  object,   \* the version at the API server, or None
  deleting, \* was its deletion asked for, and is held up by a finalizer?
  known,    \* the version the informer shows
  queued,   \* is the object in the work queue?
  stage,    \* of the worker: "idle", "begun" with nothing read yet, or "working"
  read      \* the version the worker read last, or None

cluster == <<object, deleting>>
vars == <<cluster, known, queued, stage, read>>

-----------------------------------------------------------------------------
(* Users and the garbage collector: they alone decide what the object is   *)

Put ==
  /\ object' \in Versions
  /\ deleting' = IF object = None THEN FALSE ELSE deleting
  /\ UNCHANGED <<known, queued, stage, read>>

Delete ==
  /\ object # None /\ ~deleting
  /\ \/ deleting' = TRUE /\ UNCHANGED object
     \/ object' = None /\ UNCHANGED deleting
  /\ UNCHANGED <<known, queued, stage, read>>

-----------------------------------------------------------------------------
(* The informer                                                            *)

\* An event may be about something versions do not tell.
Learn ==
  /\ known' = object
  /\ queued' = TRUE
  /\ UNCHANGED <<cluster, stage, read>>

Resync ==
  /\ known # None
  /\ queued' = TRUE
  /\ UNCHANGED <<cluster, known, stage, read>>

-----------------------------------------------------------------------------
(* The worker                                                              *)

Begin ==
  /\ stage = "idle" /\ queued
  /\ stage' = "begun" /\ queued' = FALSE
  /\ UNCHANGED <<cluster, known, read>>

\* For an object that is gone nothing is left to do.
Read ==
  /\ stage = "begun"
  /\ read' = known
  /\ stage' = IF known = None THEN "idle" ELSE "working"
  /\ UNCHANGED <<cluster, known, queued>>

\* Only what was read can be finished with.
Finish ==
  /\ stage = "working"
  /\ stage' = "idle"
  /\ UNCHANGED <<cluster, known, queued, read>>

\* An error, a conflict, or RequeueAfter.
GiveUp ==
  /\ stage # "idle"
  /\ stage' = "idle" /\ queued' = TRUE
  /\ UNCHANGED <<cluster, known, read>>

\* The one change a controller makes to the object's version: it completes a
\* deletion that was asked for.
Release ==
  /\ stage = "working" /\ deleting
  /\ object' = None /\ deleting' = FALSE
  /\ stage' = "idle" /\ queued' = TRUE
  /\ UNCHANGED <<known, read>>

\* A new process lists what there is.
Restart ==
  /\ known' = object /\ queued' = (object # None)
  /\ stage' = "idle" /\ read' = None
  /\ UNCHANGED cluster

-----------------------------------------------------------------------------

Init ==
  /\ object \in Versions /\ deleting = FALSE
  /\ known = object /\ queued = TRUE
  /\ stage = "idle" /\ read = None

Next ==
  \/ Put \/ Delete \/ Learn \/ Resync
  \/ Begin \/ Read \/ Finish \/ GiveUp \/ Release \/ Restart

Spec == Init /\ [][Next]_vars

-----------------------------------------------------------------------------
(* What follows                                                            *)

\* The worker has read what the informer shows, or will.
Attentive == stage = "begun" \/ queued \/ read = known

\* No change of the object is forgotten: unless the worker is about to read, it
\* has read the present version, or is queued, or an event is to come.
Unforgetting == stage = "begun" \/ queued \/ read = object \/ known # object
=============================================================================
