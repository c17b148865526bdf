--------------------------- MODULE ClassController ---------------------------
(***************************************************************************)
(* OvercommitClassReconciler: one worker reconciles one OvercommitClass    *)
(* (classes are reconciled independently of each other) into a Deployment, *)
(* a Service, a Certificate and a MutatingWebhookConfiguration, and writes *)
(* its status.  Every call to the API server is a step; users, the garbage *)
(* collector, failing calls and restarts come in between.  The worker      *)
(* reads from informer caches, which lag behind the API server.            *)
(*                                                                         *)
(* Objects are compared by value where the API server compares resource    *)
(* versions.                                                               *)
(***************************************************************************)
EXTENDS Integers, FiniteSets

CONSTANTS
  Kinds,      \* the kinds of children followed, of AllKinds
  Templates,  \* what the Deployment takes from a class spec (labels, tolerations, ...)
  Exclusions, \* what the webhooks take from it (isDefault, excludedNamespaces)
  LabelKeys,  \* values of spec.overcommitLabel of the Overcommit object
  Orders,     \* iteration orders of the Go map of resource statuses
  Resyncs,    \* does the informer resync (every 10 hours)?
  Upgraded,   \* may the class carry the finalizer of an earlier version?
  MaxEdits,   \* bound on changes made by users
  MaxFaults,  \* bound on failing calls and restarts
  None

\* The children in the order Reconcile takes them. They are independent of each
\* other, and an instance may follow some of them only.
KindOrder == <<"deployment", "service", "certificate", "webhook">>

AllKinds == {KindOrder[i] : i \in 1 .. 4}

Uid == 1 .. MaxEdits + 1

ClassSpec == [template : Templates, exclusion : Exclusions]

\* The status: the list of resources (its order and who is ready) and the
\* ResourcesReady condition.
Status ==
  [order : Orders, ready : SUBSET Kinds, condition : {"none", "True", "False"}]

Class ==
  [uid : Uid, spec : ClassSpec, owner : Uid \cup {0}, \* 0: no owner reference
   finalizer : BOOLEAN, deleting : BOOLEAN, status : Status]

\* The content of a child is what it was generated from. Services and
\* certificates depend on the class's name alone.
Content(k, spec, key) ==
  CASE k = "deployment" -> spec.template
    [] k = "webhook" -> <<spec.exclusion, key>>
    [] OTHER -> k

Contents == Templates \cup (Exclusions \X LabelKeys) \cup AllKinds

Child == [content : Contents, owner : Uid]

ASSUME BoundsAssumption == MaxEdits \in Nat /\ MaxFaults \in Nat

ASSUME KindsAssumption == Kinds \subseteq AllKinds

ASSUME ValuesAssumption == Templates # {} /\ Exclusions # {} /\ LabelKeys # {} /\ Orders # {}

ASSUME SentinelAssumption ==
  None \notin Class /\ None \notin Child /\ None \notin Uid \X ClassSpec

VARIABLES
  overcommit, \* the Overcommit object: [uid, key], uid 0 when it does not exist
  class,      \* the OvercommitClass, or None
  children,   \* [Kinds -> Child or None]
  seen,       \* the class in the informer's cache
  heard,      \* the Overcommit object in the informer's cache
  cached,     \* the children in the informers' caches
  queued,     \* is the class's name in the work queue?
  pc,         \* the call the worker makes next
  snap,       \* the worker's copy of the class
  label,      \* the label key the worker read
  parent,     \* the uid of the Overcommit object the worker read
  gauge,      \* metric total_classes: did the last listing have the class?
  edits, faults,
  \* History, read by properties only:
  wanted,     \* the spec last written by a user
  read        \* uid and spec of the class the worker last read, or None

store == <<overcommit, class, children>>
caches == <<seen, heard, cached>>
worker == <<pc, snap, label, parent>>
history == <<wanted, read>>
bounds == <<edits, faults>>
vars == <<store, caches, queued, worker, gauge, history, bounds>>

-----------------------------------------------------------------------------
(* Reconcile                                                               *)

Calls == {"label", "get", "finalizer", "overcommit", "owner", "metrics", "resources",
          "condition"} \cup AllKinds

\* Mutant: the copy of the class outlives the reconciliation.
ReturnWithCopy == pc' = "idle" /\ UNCHANGED <<snap, label, parent>>

Return == pc' = "idle" /\ snap' = None /\ UNCHANGED <<label, parent>>

\* Done: nothing more happens until an event or a resync queues the class.
Done == Return /\ UNCHANGED queued

\* An error makes the controller retry with back-off.
Retry == Return /\ queued' = TRUE

Continue(call) == pc' = call /\ UNCHANGED <<queued, label, parent>>

Start ==
  /\ pc = "idle" /\ queued
  /\ queued' = FALSE
  /\ pc' = "label"
  /\ UNCHANGED <<store, caches, snap, label, parent, gauge, history, bounds>>

GetOvercommitLabel ==
  /\ pc = "label"
  /\ IF heard.uid = 0 THEN Retry
     ELSE /\ label' = heard.key /\ pc' = "get"
          /\ UNCHANGED <<queued, snap, parent>>
  /\ UNCHANGED <<store, caches, gauge, history, bounds>>

Identity(c) == IF c = None THEN None ELSE <<c.uid, c.spec>>

\* A class that is gone is nobody's business: no metric is refreshed.
GetClass ==
  /\ pc = "get"
  /\ IF seen = None THEN Done
     ELSE /\ snap' = seen
          /\ Continue(IF seen.finalizer THEN "finalizer" ELSE "overcommit")
  /\ read' = Identity(seen)
  /\ UNCHANGED <<store, caches, gauge, wanted, bounds>>

\* The API server writes the object unless it changed since it was read.
Fresh == class = snap

\* The finalizer of earlier versions goes; a class being deleted goes with it.
\* Result{RequeueAfter: 1s}, or the error, brings the worker back.
RemoveFinalizer ==
  /\ pc = "finalizer"
  /\ Retry
  /\ class' = CASE ~Fresh -> class
                [] Fresh /\ snap.deleting -> None
                [] OTHER -> [snap EXCEPT !.finalizer = FALSE]
  /\ UNCHANGED <<overcommit, children, caches, gauge, history, bounds>>

\* The call for the first of the children KindOrder[i], KindOrder[i + 1], ...
ChildFrom(i) ==
  LET left == {j \in i .. 4 : KindOrder[j] \in Kinds}
  IN IF left = {} THEN "metrics"
     ELSE KindOrder[CHOOSE j \in left : \A l \in left : j <= l]

GetOvercommit ==
  /\ pc = "overcommit"
  /\ IF heard.uid = 0 THEN Retry
     ELSE /\ parent' = heard.uid
          /\ pc' = IF snap.owner = heard.uid THEN ChildFrom(1) ELSE "owner"
          /\ UNCHANGED <<queued, snap, label>>
  /\ UNCHANGED <<store, caches, gauge, history, bounds>>

\* Mutant: reconciliation goes on when the owner could not be written.
SetOwnerOrGoOn ==
  /\ pc = "owner"
  /\ IF Fresh THEN class' = [snap EXCEPT !.owner = parent] /\ Done
     ELSE UNCHANGED <<class, snap>> /\ Continue(ChildFrom(1))
  /\ UNCHANGED <<overcommit, children, caches, gauge, history, bounds>>

\* Mutant: the owner is written without the version that was read.
SetOwnerBlindly ==
  /\ pc = "owner"
  /\ IF class # None THEN class' = [snap EXCEPT !.owner = parent] /\ Done
     ELSE UNCHANGED class /\ Retry
  /\ UNCHANGED <<overcommit, children, caches, gauge, history, bounds>>

\* Mutant: a class that is gone is created again (CreateOrUpdate).
SetOwnerOrCreate ==
  /\ pc = "owner"
  /\ IF Fresh \/ class = None THEN class' = [snap EXCEPT !.owner = parent] /\ Done
     ELSE UNCHANGED class /\ Retry
  /\ UNCHANGED <<overcommit, children, caches, gauge, history, bounds>>

\* The owner reference is written and the worker returns: the write's own event
\* brings it back.
SetOwner ==
  /\ pc = "owner"
  /\ IF Fresh THEN class' = [snap EXCEPT !.owner = parent] /\ Done
     ELSE UNCHANGED class /\ Retry
  /\ UNCHANGED <<overcommit, children, caches, gauge, history, bounds>>

NextCall(k) == ChildFrom(1 + CHOOSE i \in 1 .. 4 : KindOrder[i] = k)

Desired(k) == [content |-> Content(k, snap.spec, label), owner |-> snap.uid]

\* Mutant: the match conditions of the webhooks are not compared either.
DiffersInLabels(k, have) ==
  CASE k = "service" -> TRUE
    [] k = "webhook" -> FALSE
    [] OTHER -> have.content # Desired(k).content

\* Does the comparison of the live child with the generated one find a difference?
\* Protocol and type of the generated service are empty and never equal the
\* defaults the API server filled in. Object selectors, which hold the label
\* key, are not compared (webhookChanged).
Differs(k, have) ==
  CASE k = "service" -> TRUE
    [] k = "webhook" -> have.content[1] # Desired(k).content[1]
    [] OTHER -> have.content # Desired(k).content

\* The cached child is missing or differs.
Write(k) == IF cached[k] = None THEN TRUE ELSE Differs(k, cached[k])

\* controllerutil.CreateOrUpdate: a read from the cache, then a creation, which
\* fails when the child exists; or an update with the owner reference set, which
\* fails when the child changed or is gone; or nothing.
CreateOrUpdate(k) ==
  /\ pc = k
  /\ \/ ~Write(k) /\ Continue(NextCall(k)) /\ UNCHANGED <<snap, children>>
     \/ /\ children[k] = cached[k] /\ Write(k)
        /\ children' = [children EXCEPT ![k] = Desired(k)]
        /\ pc' = NextCall(k)
        /\ UNCHANGED <<queued, snap, label, parent>>
     \/ children[k] # cached[k] /\ Write(k) /\ Retry /\ UNCHANGED children
  /\ UNCHANGED <<overcommit, class, caches, gauge, history, bounds>>

GetTotalClasses ==
  /\ pc = "metrics"
  /\ gauge' = (seen # None)
  /\ Continue("resources")
  /\ UNCHANGED <<store, caches, snap, history, bounds>>

\* Status().Update of the worker's copy: a conflict is logged and swallowed, a
\* class that is gone is an error.
WriteStatus(status, then) ==
  IF class = None THEN Retry /\ UNCHANGED class
  ELSE /\ class' = IF Fresh THEN [class EXCEPT !.status = status] ELSE class
       /\ then

\* Mutant: the status is built anew, without the condition.
UpdateResourcesAnew(o) ==
  /\ pc = "resources"
  /\ LET status == [order |-> o, ready |-> {k \in Kinds : cached[k] # None}, condition |-> "none"]
     IN WriteStatus(status, Continue("condition") /\ snap' = [snap EXCEPT !.status = status])
  /\ UNCHANGED <<overcommit, children, caches, gauge, history, bounds>>

\* updateResourcesStatus: a child is ready when it exists; the list is in the
\* order in which Go iterates over a map.
UpdateResources(o) ==
  /\ pc = "resources"
  /\ LET status == [snap.status EXCEPT !.order = o, !.ready = {k \in Kinds : cached[k] # None}]
     IN WriteStatus(status, Continue("condition") /\ snap' = [snap EXCEPT !.status = status])
  /\ UNCHANGED <<overcommit, children, caches, gauge, history, bounds>>

\* Mutant: a reconciliation that succeeds asks for another one.
UpdateConditionAndRequeue ==
  /\ pc = "condition"
  /\ LET condition == IF snap.status.ready = Kinds THEN "True" ELSE "False"
     IN WriteStatus([snap.status EXCEPT !.condition = condition], Retry)
  /\ UNCHANGED <<overcommit, children, caches, gauge, history, bounds>>

UpdateCondition ==
  /\ pc = "condition"
  /\ LET condition == IF snap.status.ready = Kinds THEN "True" ELSE "False"
     IN WriteStatus([snap.status EXCEPT !.condition = condition], Done)
  /\ UNCHANGED <<overcommit, children, caches, gauge, history, bounds>>

-----------------------------------------------------------------------------
(* Failures                                                                *)

Fault == faults < MaxFaults /\ faults' = faults + 1 /\ UNCHANGED edits

\* Any call but the listing of the classes may fail, and is retried.
CallFails ==
  /\ Fault
  /\ pc \in Calls \ {"metrics"}
  /\ Retry
  /\ UNCHANGED <<store, caches, gauge, history>>

\* The API server does the write, but the worker sees an error (a timeout).
AnswerLost ==
  /\ Fault
  /\ \/ \E k \in Kinds :
          /\ pc = k /\ children[k] = cached[k] /\ Write(k)
          /\ children' = [children EXCEPT ![k] = Desired(k)] /\ UNCHANGED class
     \/ /\ pc = "owner" /\ Fresh
        /\ class' = [snap EXCEPT !.owner = parent] /\ UNCHANGED children
  /\ Retry
  /\ UNCHANGED <<overcommit, caches, gauge, history>>

\* The error of getTotalClasses is dropped: no retry, no status.
ListFails ==
  /\ Fault
  /\ pc = "metrics"
  /\ Done
  /\ UNCHANGED <<store, caches, gauge, history>>

\* A new process lists everything and queues every class that exists.
Restart ==
  /\ Fault
  /\ Return
  /\ queued' = (class # None)
  /\ seen' = class /\ heard' = overcommit /\ cached' = children
  /\ gauge' = FALSE
  /\ read' = None
  /\ UNCHANGED <<store, wanted>>

-----------------------------------------------------------------------------
(* The cluster around the controller (external)                            *)

\* The informer learns of a change of the class and queues its name.
ObserveClass ==
  /\ seen # class
  /\ seen' = class
  /\ queued' = TRUE
  /\ UNCHANGED <<store, heard, cached, worker, gauge, history, bounds>>

\* The Overcommit object and the children are cached but not watched: no event follows.
ObserveOvercommit ==
  /\ heard # overcommit
  /\ heard' = overcommit
  /\ UNCHANGED <<store, seen, cached, queued, worker, gauge, history, bounds>>

ObserveChild(k) ==
  /\ cached[k] # children[k]
  /\ cached' = [cached EXCEPT ![k] = children[k]]
  /\ UNCHANGED <<store, seen, heard, queued, worker, gauge, history, bounds>>

\* The informer's periodic resync queues every class.
Resync ==
  /\ Resyncs /\ seen # None /\ ~queued /\ pc = "idle"
  /\ queued' = TRUE
  /\ UNCHANGED <<store, caches, worker, gauge, history, bounds>>

Removed(c) == IF c.finalizer THEN [c EXCEPT !.deleting = TRUE] ELSE None

\* Garbage collection of a class or a child whose owner is gone.
CollectClass ==
  /\ class # None /\ ~class.deleting
  /\ class.owner # 0 /\ class.owner # overcommit.uid
  /\ class' = Removed(class)
  /\ UNCHANGED <<overcommit, children, caches, queued, worker, gauge, history, bounds>>

CollectChild(k) ==
  /\ children[k] # None
  /\ IF class = None THEN TRUE ELSE children[k].owner # class.uid
  /\ children' = [children EXCEPT ![k] = None]
  /\ UNCHANGED <<overcommit, class, caches, queued, worker, gauge, history, bounds>>

Edit ==
  /\ edits < MaxEdits
  /\ edits' = edits + 1
  /\ UNCHANGED <<caches, queued, worker, gauge, read, faults>>

NewStatus == [order |-> CHOOSE o \in Orders : TRUE, ready |-> {}, condition |-> "none"]

CreateClass ==
  /\ Edit
  /\ class = None
  /\ \E s \in ClassSpec :
       /\ class' = [uid |-> edits + 2, spec |-> s, owner |-> 0, finalizer |-> FALSE,
                    deleting |-> FALSE, status |-> NewStatus]
       /\ wanted' = s
  /\ UNCHANGED <<overcommit, children>>

EditClass ==
  /\ Edit
  /\ class # None
  /\ \E s \in ClassSpec \ {class.spec} : class' = [class EXCEPT !.spec = s] /\ wanted' = s
  /\ UNCHANGED <<overcommit, children>>

DeleteClass ==
  /\ Edit
  /\ class # None /\ ~class.deleting
  /\ class' = Removed(class)
  /\ UNCHANGED <<overcommit, children, wanted>>

DeleteChild ==
  /\ Edit
  /\ \E k \in Kinds : children[k] # None /\ children' = [children EXCEPT ![k] = None]
  /\ UNCHANGED <<overcommit, class, wanted>>

\* The class controller does not watch the Overcommit object.
ChangeLabelKey ==
  /\ Edit
  /\ overcommit.uid # 0
  /\ \E key \in LabelKeys \ {overcommit.key} : overcommit' = [overcommit EXCEPT !.key = key]
  /\ UNCHANGED <<class, children, wanted>>

DeleteOvercommit ==
  /\ Edit
  /\ overcommit.uid # 0
  /\ overcommit' = [overcommit EXCEPT !.uid = 0]
  /\ UNCHANGED <<class, children, wanted>>

CreateOvercommit ==
  /\ Edit
  /\ overcommit.uid = 0
  /\ overcommit' = [overcommit EXCEPT !.uid = edits + 2]
  /\ UNCHANGED <<class, children, wanted>>

\* A new controller process; the class is new or left by an earlier version.
Init ==
  /\ overcommit \in [uid : {1}, key : LabelKeys]
  /\ \E s \in ClassSpec, f \in IF Upgraded THEN BOOLEAN ELSE {FALSE} :
       /\ class = [uid |-> 1, spec |-> s, owner |-> IF f THEN 1 ELSE 0, finalizer |-> f,
                   deleting |-> FALSE, status |-> NewStatus]
       /\ wanted = s
  /\ children = [k \in Kinds |-> None] /\ cached = children
  /\ seen = class /\ heard = overcommit
  /\ queued = TRUE
  /\ pc = "idle" /\ snap = None
  /\ label = overcommit.key /\ parent = 1
  /\ gauge = FALSE
  /\ read = None
  /\ edits = 0 /\ faults = 0

Step ==
  \/ Start \/ GetOvercommitLabel \/ GetClass \/ RemoveFinalizer \/ GetOvercommit \/ SetOwner
  \/ \E k \in Kinds : CreateOrUpdate(k)
  \/ GetTotalClasses
  \/ \E o \in Orders : UpdateResources(o)
  \/ UpdateCondition

Observe == ObserveClass \/ ObserveOvercommit \/ \E k \in Kinds : ObserveChild(k)

Collect == CollectClass \/ \E k \in Kinds : CollectChild(k)

User ==
  \/ CreateClass \/ EditClass \/ DeleteClass \/ DeleteChild
  \/ ChangeLabelKey \/ DeleteOvercommit \/ CreateOvercommit

Next ==
  \/ Step \/ Observe \/ Resync \/ Collect \/ User
  \/ CallFails \/ AnswerLost \/ ListFails \/ Restart

\* The worker, the caches, the collector and the resync never stop.
Fairness ==
  /\ WF_vars(Step) /\ WF_vars(Resync)
  /\ WF_vars(ObserveClass) /\ WF_vars(ObserveOvercommit) /\ WF_vars(CollectClass)
  /\ \A k \in Kinds : WF_vars(CollectChild(k)) /\ WF_vars(ObserveChild(k))

Spec == Init /\ [][Next]_vars /\ Fairness

\* Go picks the order of a map iteration at random: no order is avoided forever.
KeepOrder == pc = "resources" /\ UpdateResources(snap.status.order)

RandomOrder == SF_vars(KeepOrder)

SpecRandom == Spec /\ RandomOrder

-----------------------------------------------------------------------------
(* Properties                                                              *)

\* Type correctness; the worker holds a class exactly after reading it.
TypeOK ==
  /\ overcommit \in [uid : Uid \cup {0}, key : LabelKeys]
  /\ heard \in [uid : Uid \cup {0}, key : LabelKeys]
  /\ class \in Class \cup {None} /\ seen \in Class \cup {None}
  /\ children \in [Kinds -> Child \cup {None}] /\ cached \in [Kinds -> Child \cup {None}]
  /\ queued \in BOOLEAN /\ gauge \in BOOLEAN
  /\ pc \in Calls \cup {"idle"}
  /\ IF pc \in {"idle", "label", "get"} THEN snap = None ELSE snap \in Class
  /\ label \in LabelKeys /\ parent \in Uid
  /\ wanted \in ClassSpec /\ read \in (Uid \X ClassSpec) \cup {None}
  /\ edits \in 0 .. MaxEdits /\ faults \in 0 .. MaxFaults

\* The controller rewrites the whole class to drop a finalizer and to set the
\* owner: it never undoes a user's edit made since it read the class.
NoLostEdit == class # None => class.spec = wanted

\* No wake-up is lost: whatever fails, conflicts, returns early or restarts, a
\* worker that has read an older class, or is idle after having done so, will
\* run again: the class is queued or its event is still to come.
NoLostWakeup ==
  pc \in {"label", "get"} \/ read = Identity(class) \/ queued \/ seen # class

\* Children are made for adopted classes only, so that deleting the Overcommit
\* object, whose collection cascades, leaves none behind.
AdoptedBeforeChildren ==
  \A k \in Kinds :
    children[k] # None /\ class # None =>
      (children[k].owner = class.uid => class.owner # 0)

\* The strengthening that makes the invariants above inductive. The worker holds
\* a copy of the class from the read to the return.
Holding == pc \notin {"idle", "label", "get"}

\* What the worker read is what the informer has, or it will run again.
ReadIsSeen == pc \in {"label", "get"} \/ queued \/ read = Identity(seen)

\* Uids are given out in order, so a new class shares none with anything older.
UidsGivenOut ==
  /\ class # None => class.uid <= edits + 1
  /\ seen # None => seen.uid <= edits + 1
  /\ Holding => snap.uid <= edits + 1
  /\ \A k \in Kinds : children[k] # None => children[k].owner <= edits + 1

\* A copy that was adopted is a copy of a class that is still adopted, and the
\* worker makes children for adopted copies only.
StaysAdopted ==
  /\ pc \in AllKinds => snap.owner # 0
  /\ class # None /\ seen # None =>
       (seen.uid = class.uid /\ seen.owner # 0 => class.owner # 0)
  /\ class # None /\ Holding =>
       (snap.uid = class.uid /\ snap.owner # 0 => class.owner # 0)

Inv ==
  /\ TypeOK /\ NoLostEdit /\ AdoptedBeforeChildren
  /\ ReadIsSeen /\ UidsGivenOut /\ StaysAdopted

\* Is this child k what the class asks for?
Fits(k, child) ==
  /\ child # None
  /\ child.owner = class.uid
  /\ CASE k = "webhook" -> child.content[1] = class.spec.exclusion
       [] OTHER -> child.content = Content(k, class.spec, overcommit.key)

Reconciled(k) == Fits(k, children[k])

\* What reconciliation is for: the class belongs to the Overcommit object, its
\* children exist, are its own and follow its spec, its status says so and the
\* gauge counts it; without the class or the Overcommit object the children are
\* gone (unless an earlier version's finalizer holds the class, see
\* LegacyClassDeleted).
Converged ==
  IF class # None /\ overcommit.uid # 0
  THEN /\ ~class.finalizer /\ class.owner = overcommit.uid
       /\ \A k \in Kinds : Reconciled(k)
       /\ class.status.ready = Kinds /\ class.status.condition = "True"
       /\ gauge
  ELSE \/ \A k \in Kinds : children[k] = None
       \/ class # None /\ class.finalizer

\* Once users stop, the cluster converges for good, whatever failed, crashed,
\* conflicted or was collected meanwhile. (The label key is not included, see
\* WebhookFollowsLabelKey.)
Converges == <>[]Converged

\* A copy of the class that is right in all but the status.
Current(c) ==
  /\ c # None
  /\ c.uid = class.uid /\ c.spec = class.spec
  /\ c.finalizer = class.finalizer /\ c.owner = class.owner

\* The class is reconciled, and neither a cache nor the worker believes otherwise:
\* they may know older statuses, label keys and children, as long as these fit.
Settled ==
  /\ class # None /\ overcommit.uid # 0 /\ Converged
  /\ heard.uid = overcommit.uid
  /\ Current(seen) /\ \A k \in Kinds : Fits(k, cached[k])
  /\ Holding => Current(snap)
  /\ pc \notin {"finalizer", "owner"}
  /\ pc = "condition" => snap.status.ready = Kinds

\* Nothing is written but the order of the resources in the status.
LeftAlone ==
  /\ children' = children
  /\ class' = [class EXCEPT !.status.order = class'.status.order]

\* A settled cluster is left alone until a user or a fault changes something:
\* reconciling again, for the controller's own events, on resync or with a late
\* cache, undoes nothing, not even for a moment.
StaysSettled == [][Settled /\ UNCHANGED bounds => Settled' /\ LeftAlone]_vars

\* Without resyncs and with an Overcommit object, a class is left alone at last:
\* the status updates, which trigger reconciliations themselves, come to an end.
Settles == <>[](overcommit.uid # 0 => pc = "idle" /\ ~queued)

\* What Reconciler tells apart of it all: of classes uid and spec, of the worker
\* whether it has read the class.
Deleting == IF class = None THEN FALSE ELSE class.deleting

Stage ==
  CASE pc = "idle" -> "idle"
    [] pc \in {"label", "get"} -> "begun"
    [] OTHER -> "working"

Controller == INSTANCE Reconciler WITH
  Versions <- Uid \X ClassSpec,
  object <- Identity(class),
  deleting <- Deleting,
  known <- Identity(seen),
  stage <- Stage

\* What the users and readers of a class may rely on: they alone change it, but
\* that the controller completes a deletion that was asked for; and wherever a
\* reconciliation ends, it is done only with what it has read.
ImplementsReconciler == Controller!Spec

(* What comments and documents say, and the code does not do.              *)

\* architecture.md:129, the overcommitLabel of the Overcommit object is the
\* "label key used to identify overcommit class on pods/namespaces": the webhooks
\* of a class come to select by it.
WebhookFollowsLabelKey ==
  <>[](class # None /\ overcommit.uid # 0 /\ children["webhook"] # None =>
         children["webhook"].content[2] = overcommit.key)

\* overcommitclass_controller.go:78-79, the finalizer is removed "so that CRs
\* created before this change can be deleted normally".
LegacyClassDeleted == class # None /\ class.deleting ~> class = None

=============================================================================
