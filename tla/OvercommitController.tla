------------------------ MODULE OvercommitController ------------------------
(***************************************************************************)
(* OvercommitReconciler: one worker reconciles the singleton Overcommit    *)
(* object "cluster" into ten children (an Issuer, the two validating       *)
(* webhooks with their Certificates, Deployments and Services, and the     *)
(* Deployment of the class controller) and writes its status.  Every call  *)
(* to the API server is a step; users, the garbage collector, failing      *)
(* calls, restarts and upgrades come in between.  All reads come from      *)
(* informer caches, which lag behind the API server.                       *)
(*                                                                         *)
(* Objects are compared by value where the API server compares resource    *)
(* versions.                                                               *)
(***************************************************************************)
EXTENDS Equality

CONSTANTS
  Kinds,       \* the children followed, of AllKinds
  Metas,       \* labels, annotations and node selector of the spec: maps or Nil
  Tolerations, \* tolerations of the spec: sequences
  LabelKeys,   \* values of spec.overcommitLabel
  Images,      \* images of the operator: its versions
  MaxAttempts, \* attempts at a status update: 5
  MaxChanges,  \* bound on users' edits and on failing calls, restarts and upgrades
  None

\* Mutant: the pod-validating webhook is registered first.
WebhookFirst ==
  <<"podWebhook", "issuer",
    "classCertificate", "classDeployment", "classService", "classWebhook",
    "podCertificate", "podDeployment", "podService", "classController">>

\* The children in the order Reconcile takes them. An instance may follow some of
\* them only: apart from the order they do not depend on each other.
KindOrder ==
  <<"issuer",
    "classCertificate", "classDeployment", "classService", "classWebhook",
    "podCertificate", "podDeployment", "podService", "podWebhook",
    "classController">>

AllKinds == Elements(KindOrder)

\* Only these are compared once they exist; all others are created and left alone.
Deployments == {"classDeployment", "podDeployment", "classController"}

\* What a webhook configuration with failure policy Fail sends requests to.
Backend(k) ==
  CASE k = "classWebhook" -> {"classCertificate", "classDeployment", "classService"}
    [] k = "podWebhook" -> {"podCertificate", "podDeployment", "podService"}
    [] OTHER -> {}

Uid == 1 .. MaxChanges + 2

OvercommitSpec == [meta : Metas, tolerations : Tolerations, key : LabelKeys]

\* Who is ready, the ResourcesReady condition and the time of its last transition,
\* as far as consecutive times differ.
OvercommitStatus ==
  [ready : SUBSET Kinds, condition : {"none", "True", "False"}, since : {0, 1}]

Overcommit ==
  [uid : Uid, spec : OvercommitSpec, finalizer : BOOLEAN, deleting : BOOLEAN,
   status : OvercommitStatus]

\* The API server drops empty maps and lists.
Stored(data) == IF data = <<>> THEN Nil ELSE data

\* What a child follows: a Deployment the image and the spec, the pod-validating
\* webhook the label key, the others nothing.
Content(k) ==
  CASE k \in Deployments ->
         [image : Images, meta : {Stored(m) : m \in Metas},
          tolerations : {Stored(l) : l \in Tolerations}]
    [] k = "podWebhook" -> LabelKeys
    [] OTHER -> {k}

Child(k) == [content : Content(k), owner : Uid]

ASSUME KindsAssumption == Kinds \subseteq AllKinds

ASSUME BoundsAssumption == MaxAttempts \in Nat \ {0} /\ MaxChanges \in Nat

ASSUME ImagesAssumption == Images # {}

ASSUME SentinelAssumption ==
  /\ None \notin Overcommit /\ None \notin LabelKeys /\ None \notin Images
  /\ None \notin Uid \X OvercommitSpec
  /\ \A k \in Kinds : None \notin Child(k)

VARIABLES
  overcommit, \* the Overcommit object, or None
  children,   \* [Kinds -> Child or None]
  seen,       \* the object in the informer's cache
  cached,     \* the children in the informers' caches
  queued,     \* is "cluster" in the work queue?
  pc,         \* the call the worker makes next
  snap,       \* the worker's copy of the object
  label,      \* the label key the worker read
  attempt,    \* attempts at the status update, the present one included
  image,      \* the image of this process, which its environment holds
  late,       \* the image of a replaced process that still runs, or None
  edits, faults,
  \* History, read by properties only:
  wanted,     \* the spec last written by a user
  read,       \* uid and spec of the object the worker last read, or None
  lost        \* the children that were ever deleted

store == <<overcommit, children>>
caches == <<seen, cached>>
worker == <<pc, snap, label, attempt>>
process == <<image, late>>
history == <<wanted, read, lost>>
bounds == <<edits, faults>>
vars == <<store, caches, queued, worker, process, history, bounds>>

-----------------------------------------------------------------------------
(* What the generators make of the object                                  *)

\* Of labels, annotations and node selector, "meta" is what they have in common.
\* (A generator writes its app label into the object's own map of labels; each is
\* called anew right before its Deployment is compared.)
GeneratePodValidatingDeployment(spec, img) ==
  [image |-> img, meta |-> spec.meta, tolerations |-> spec.tolerations]

\* The same but for names.
GenerateOvercommitClassValidatingDeployment(spec, img) ==
  GeneratePodValidatingDeployment(spec, img)

\* This one has an empty map of annotations for none.
GenerateOvercommitClassControllerDeployment(spec, img) ==
  [image |-> img, meta |-> IF spec.meta = Nil THEN <<>> ELSE spec.meta,
   tolerations |-> spec.tolerations]

\* The object selector asks for the label; nothing else depends on the object.
GeneratePodValidatingWebhookConfiguration(key) == key

\* The issuer, the services, the certificates and the webhook for classes are
\* always the same.
Generated(k, spec, key, img) ==
  CASE k = "classDeployment" -> GenerateOvercommitClassValidatingDeployment(spec, img)
    [] k = "podDeployment" -> GeneratePodValidatingDeployment(spec, img)
    [] k = "classController" -> GenerateOvercommitClassControllerDeployment(spec, img)
    [] k = "podWebhook" -> GeneratePodValidatingWebhookConfiguration(key)
    [] OTHER -> k

\* What becomes of it in the API server.
Kept(k, want) ==
  IF k \in Deployments
  THEN [want EXCEPT !.meta = Stored(want.meta), !.tolerations = Stored(want.tolerations)]
  ELSE want

\* Does a mutate function find a difference? If so it copies what differs.
Updated(want, have) ==
  \/ want.image # have.image
  \/ ~mapsEqual(want.meta, have.meta)
  \/ ~TolerationsEqual(want.tolerations, have.tolerations)

Rewritten(want, have) ==
  [image |-> want.image,
   meta |-> IF mapsEqual(want.meta, have.meta) THEN have.meta ELSE want.meta,
   tolerations |-> IF TolerationsEqual(want.tolerations, have.tolerations)
                   THEN have.tolerations ELSE want.tolerations]

\* What controllerutil.CreateOrUpdate makes of a child: generated anew when it is
\* missing, adapted when it is a Deployment that differs, else left. The owner is
\* set with a creation or an adaptation only. (Nothing is written when the outcome
\* is what was there.)
Wanted(k, have, o, key, img) ==
  LET want == Generated(k, o.spec, key, img) IN
  CASE have = None -> [content |-> Kept(k, want), owner |-> o.uid]
    [] have # None /\ k \in Deployments /\ Updated(want, have.content) ->
         [content |-> Kept(k, Rewritten(want, have.content)), owner |-> o.uid]
    [] OTHER -> have

-----------------------------------------------------------------------------
(* Reconcile                                                               *)

Calls == {"label", "get", "finalizer", "refresh", "status"} \cup AllKinds

Return == pc' = "idle" /\ snap' = None /\ label' = None /\ attempt' = 0

\* Done: nothing more happens until an event or a resync queues the object.
Done == Return /\ UNCHANGED queued

\* An error, or RequeueAfter, brings the worker back.
Retry == Return /\ queued' = TRUE

Start ==
  /\ pc = "idle" /\ queued
  /\ queued' = FALSE
  /\ pc' = "label"
  /\ UNCHANGED <<store, caches, snap, label, attempt, process, history, bounds>>

\* The first thing Reconcile does, and an error when the object is gone.
GetOvercommitLabel ==
  /\ pc = "label"
  /\ IF seen = None THEN Retry
     ELSE label' = seen.spec.key /\ pc' = "get" /\ UNCHANGED <<queued, snap, attempt>>
  /\ UNCHANGED <<store, caches, process, history, bounds>>

Identity(o) == IF o = None THEN None ELSE <<o.uid, o.spec>>

\* The call for the first of the children KindOrder[i], KindOrder[i + 1], ...,
\* or the status update when there is none.
ChildFrom(i) ==
  LET left == {j \in i .. Len(KindOrder) : KindOrder[j] \in Kinds}
  IN IF left = {} THEN "refresh"
     ELSE KindOrder[CHOOSE j \in left : \A l \in left : j <= l]

\* The object is read again, later than its label: it may be another one.
GetOvercommit ==
  /\ pc = "get"
  /\ IF seen = None THEN Done
     ELSE /\ snap' = seen
          /\ pc' = IF seen.finalizer THEN "finalizer" ELSE ChildFrom(1)
          /\ UNCHANGED <<queued, label, attempt>>
  /\ read' = Identity(seen)
  /\ UNCHANGED <<store, caches, process, wanted, lost, bounds>>

\* The API server writes the object unless it changed since it was read.
Fresh == overcommit = snap

\* Mutant: the object is written without the version that was read.
RemoveFinalizersBlindly ==
  /\ pc = "finalizer"
  /\ Retry
  /\ overcommit' = CASE overcommit = None -> None
                     [] overcommit # None /\ snap.deleting -> None
                     [] OTHER -> [snap EXCEPT !.finalizer = FALSE]
  /\ UNCHANGED <<children, caches, process, history, bounds>>

\* Both legacy finalizers go in one update; an object being deleted goes with
\* them. Result{RequeueAfter: 1s}, or the error, brings the worker back. (The
\* update also drops maps and lists of the spec that are empty, which is not
\* followed: none of either means anything else.)
RemoveFinalizers ==
  /\ pc = "finalizer"
  /\ Retry
  /\ overcommit' = CASE ~Fresh -> overcommit
                     [] Fresh /\ snap.deleting -> None
                     [] OTHER -> [snap EXCEPT !.finalizer = FALSE]
  /\ UNCHANGED <<children, caches, process, history, bounds>>

NextCall(k) == ChildFrom(1 + CHOOSE i \in 1 .. Len(KindOrder) : KindOrder[i] = k)

\* A read from the cache, then a creation, which fails when the child exists; or
\* an update, which fails when the child changed or is gone; or nothing. (The
\* pod-validating webhook is never updated, so its case for conflicts is dead.)
CreateOrUpdate(k) ==
  /\ pc = k
  /\ LET child == Wanted(k, cached[k], snap, label, image) IN
     \/ /\ child = cached[k] \/ children[k] = cached[k]
        /\ children' = IF child = cached[k] THEN children ELSE [children EXCEPT ![k] = child]
        /\ pc' = NextCall(k)
        /\ UNCHANGED <<queued, snap, label, attempt>>
     \/ child # cached[k] /\ children[k] # cached[k] /\ Retry /\ UNCHANGED children
  /\ UNCHANGED <<overcommit, caches, process, history, bounds>>

-----------------------------------------------------------------------------
(* updateOvercommitStatusSafely                                            *)

\* Each attempt starts with a read of the object, from the cache again.
RefreshOvercommit ==
  /\ pc = "refresh"
  /\ IF seen = None THEN Done
     ELSE /\ snap' = seen /\ attempt' = attempt + 1 /\ pc' = "status"
          /\ UNCHANGED <<queued, label>>
  /\ UNCHANGED <<store, caches, process, history, bounds>>

Condition(ready) == IF ready = Kinds THEN "True" ELSE "False"

\* Mutant: the transition time is the time of the update.
setConditionNow(old, ready) ==
  [ready |-> ready, condition |-> Condition(ready), since |-> 1 - old.since]

\* The transition time is kept unless the condition's status changes.
setCondition(old, ready) ==
  [ready |-> ready, condition |-> Condition(ready),
   since |-> IF Condition(ready) = old.condition THEN old.since ELSE 1 - old.since]

\* Mutant: one attempt too many.
OneMoreAttempt == attempt <= MaxAttempts

AttemptsLeft == attempt < MaxAttempts

Present == {k \in Kinds : cached[k] # None}

\* Mutant: an object that is gone is created again.
UpdateStatusOrCreate ==
  /\ pc = "status"
  /\ IF Fresh \/ overcommit = None
     THEN /\ overcommit' = [snap EXCEPT !.status = setCondition(snap.status, Present)]
          /\ Done
     ELSE Done /\ UNCHANGED overcommit
  /\ UNCHANGED <<children, caches, process, history, bounds>>

\* Mutant: every update of the status queues the object again.
UpdateStatusAndRequeue ==
  /\ pc = "status"
  /\ IF Fresh
     THEN /\ overcommit' = [snap EXCEPT !.status = setCondition(snap.status, Present)]
          /\ Retry
     ELSE Done /\ UNCHANGED overcommit
  /\ UNCHANGED <<children, caches, process, history, bounds>>

\* updateOvercommitStatus: a child is ready when it exists. (The ten reads are one
\* step.) A conflict starts the next attempt; any other error, and the last
\* conflict, are logged and dropped.
UpdateStatus ==
  /\ pc = "status"
  /\ CASE Fresh ->
            /\ overcommit' = [snap EXCEPT !.status = setCondition(snap.status, Present)]
            /\ Done
       [] ~Fresh /\ overcommit # None /\ AttemptsLeft ->
            pc' = "refresh" /\ UNCHANGED <<overcommit, queued, snap, label, attempt>>
       [] OTHER -> Done /\ UNCHANGED overcommit
  /\ UNCHANGED <<children, caches, process, history, bounds>>

-----------------------------------------------------------------------------
(* Failures                                                                *)

Fault ==
  /\ edits + faults < MaxChanges
  /\ faults' = faults + 1
  /\ UNCHANGED edits

\* Any call may fail. The error is returned, and retried.
CallFails ==
  /\ Fault
  /\ pc \in Calls \ {"refresh", "status"}
  /\ Retry
  /\ UNCHANGED <<store, caches, process, history>>

\* The error of a status update is logged, and the reconciliation succeeds.
StatusFails ==
  /\ Fault
  /\ pc \in {"refresh", "status"}
  /\ Done
  /\ UNCHANGED <<store, caches, process, history>>

\* A child that cannot be read counts as not ready.
ReadFails ==
  /\ Fault
  /\ pc = "status" /\ Fresh
  /\ \E k \in Present :
       overcommit' = [snap EXCEPT !.status = setCondition(snap.status, Present \ {k})]
  /\ Done
  /\ UNCHANGED <<children, caches, process, history>>

\* The API server does the write, but the worker sees an error (a timeout).
AnswerLost ==
  /\ Fault
  /\ \E k \in Kinds :
       /\ pc = k /\ children[k] = cached[k]
       /\ Wanted(k, cached[k], snap, label, image) # cached[k]
       /\ children' = [children EXCEPT ![k] = Wanted(k, cached[k], snap, label, image)]
  /\ Retry
  /\ UNCHANGED <<overcommit, caches, process, history>>

\* A new process, of the same or another version, lists everything and queues the
\* object if it exists. In a rolling update the old process runs on for a while:
\* there is no leader election unless a flag asks for it.
Restart ==
  /\ Fault
  /\ Return
  /\ queued' = (overcommit # None)
  /\ seen' = overcommit /\ cached' = children
  /\ image' \in Images
  /\ late' \in {None, image}
  /\ read' = None
  /\ UNCHANGED <<store, wanted, lost>>

-----------------------------------------------------------------------------
(* The cluster around the controller (external)                            *)

Before(k) ==
  {KindOrder[i] : i \in 1 .. (CHOOSE j \in 1 .. Len(KindOrder) : KindOrder[j] = k) - 1}

\* The replaced process reconciles too and in the same order. What it read of the
\* object, and of the children before this one, may be as old as our cache; an
\* older view of this child itself makes its write fail.
LateWrite(k) ==
  /\ late # None
  /\ \A before \in Before(k) \cap Kinds : children[before] # None \/ cached[before] # None
  /\ \E o \in {overcommit, seen} \ {None} :
       children' = [children EXCEPT ![k] = Wanted(k, children[k], o, o.spec.key, late)]
  /\ UNCHANGED <<overcommit, caches, queued, worker, process, history, bounds>>

LateStops ==
  /\ late # None
  /\ late' = None
  /\ UNCHANGED <<store, caches, queued, worker, image, history, bounds>>

\* The informer learns of a change of the object and queues it.
ObserveOvercommit ==
  /\ seen # overcommit
  /\ seen' = overcommit
  /\ queued' = TRUE
  /\ UNCHANGED <<store, cached, worker, process, history, bounds>>

\* Children are cached but not watched: no event follows.
ObserveChild(k) ==
  /\ cached[k] # children[k]
  /\ cached' = [cached EXCEPT ![k] = children[k]]
  /\ UNCHANGED <<store, seen, queued, worker, process, history, bounds>>

\* The informer's periodic resync queues the object.
Resync ==
  /\ seen # None /\ ~queued /\ pc = "idle"
  /\ queued' = TRUE
  /\ UNCHANGED <<store, caches, worker, process, history, bounds>>

\* Garbage collection of a child whose owner is gone.
CollectChild(k) ==
  /\ children[k] # None
  /\ IF overcommit = None THEN TRUE ELSE children[k].owner # overcommit.uid
  /\ children' = [children EXCEPT ![k] = None]
  /\ lost' = lost \cup {k}
  /\ UNCHANGED <<overcommit, caches, queued, worker, process, wanted, read, bounds>>

Edit ==
  /\ edits + faults < MaxChanges
  /\ edits' = edits + 1
  /\ UNCHANGED <<caches, queued, worker, process, read, faults>>

NewStatus == [ready |-> {}, condition |-> "none", since |-> 0]

CreateOvercommit ==
  /\ Edit
  /\ overcommit = None
  /\ \E s \in OvercommitSpec :
       /\ overcommit' = [uid |-> edits + 3, spec |-> s, finalizer |-> FALSE,
                         deleting |-> FALSE, status |-> NewStatus]
       /\ wanted' = s
  /\ UNCHANGED <<children, lost>>

EditOvercommit ==
  /\ Edit
  /\ overcommit # None
  /\ \E s \in OvercommitSpec \ {overcommit.spec} :
       overcommit' = [overcommit EXCEPT !.spec = s] /\ wanted' = s
  /\ UNCHANGED <<children, lost>>

DeleteOvercommit ==
  /\ Edit
  /\ overcommit # None /\ ~overcommit.deleting
  /\ overcommit' = IF overcommit.finalizer THEN [overcommit EXCEPT !.deleting = TRUE] ELSE None
  /\ UNCHANGED <<children, wanted, lost>>

DeleteChild ==
  /\ Edit
  /\ \E k \in Kinds :
       /\ children[k] # None
       /\ children' = [children EXCEPT ![k] = None]
       /\ lost' = lost \cup {k}
  /\ UNCHANGED <<overcommit, wanted>>

\* Children of an object that was deleted and is not collected yet.
Orphans(spec, img) ==
  [k \in Kinds |-> [content |-> Kept(k, Generated(k, spec, spec.key, img)), owner |-> 1]]

\* A new process; the object and its children are new or left by an earlier one,
\* which may have been of another version (then its finalizers are there) and may
\* have seen another object. Having left something counts as a fault.
Init ==
  /\ \E s \in OvercommitSpec, f \in BOOLEAN :
       /\ overcommit = [uid |-> 2, spec |-> s, finalizer |-> f, deleting |-> FALSE,
                        status |-> NewStatus]
       /\ wanted = s
  /\ \/ children = [k \in Kinds |-> None]
     \/ \E s \in OvercommitSpec, img \in Images : children = Orphans(s, img)
  /\ faults = IF overcommit.finalizer \/ \E k \in Kinds : children[k] # None THEN 1 ELSE 0
  /\ faults <= MaxChanges
  /\ cached = children /\ seen = overcommit
  /\ queued = TRUE
  /\ pc = "idle" /\ snap = None /\ label = None /\ attempt = 0
  /\ image = (CHOOSE img \in Images : TRUE) /\ late = None
  /\ read = None /\ lost = {}
  /\ edits = 0

Step ==
  \/ Start \/ GetOvercommitLabel \/ GetOvercommit \/ RemoveFinalizers
  \/ \E k \in Kinds : CreateOrUpdate(k)
  \/ RefreshOvercommit \/ UpdateStatus

Observe == ObserveOvercommit \/ \E k \in Kinds : ObserveChild(k)

Late == LateStops \/ \E k \in Kinds : LateWrite(k)

User == CreateOvercommit \/ EditOvercommit \/ DeleteOvercommit \/ DeleteChild

Next ==
  \/ Step \/ Observe \/ Resync \/ Late \/ User
  \/ \E k \in Kinds : CollectChild(k)
  \/ CallFails \/ StatusFails \/ ReadFails \/ AnswerLost \/ Restart

\* The worker, the caches, the collector and the resync never stop; a replaced
\* process does.
Fairness ==
  /\ WF_vars(Step) /\ WF_vars(Resync) /\ WF_vars(LateStops)
  /\ WF_vars(ObserveOvercommit)
  /\ \A k \in Kinds : WF_vars(CollectChild(k)) /\ WF_vars(ObserveChild(k))

Spec == Init /\ [][Next]_vars /\ Fairness

-----------------------------------------------------------------------------
(* Properties                                                              *)

\* The worker holds a copy of the object exactly after reading it, and tries to
\* write the status MaxAttempts times at most.
WorkerTyped ==
  /\ pc \in Calls \cup {"idle"}
  /\ IF pc \in {"idle", "label", "get"} THEN snap = None ELSE snap \in Overcommit
  /\ IF pc \in {"idle", "label"} THEN label = None ELSE label \in LabelKeys
  /\ CASE pc = "status" -> attempt \in 1 .. MaxAttempts
       [] pc = "refresh" -> attempt \in 0 .. MaxAttempts - 1
       [] OTHER -> attempt = 0

Counted == edits \in Nat /\ faults \in Nat /\ edits + faults <= MaxChanges

\* Type correctness, of the worker above all.
TypeOK ==
  /\ overcommit \in Overcommit \cup {None} /\ seen \in Overcommit \cup {None}
  /\ children = [k \in Kinds |-> children[k]] /\ cached = [k \in Kinds |-> cached[k]]
  /\ \A k \in Kinds : children[k] \in Child(k) \cup {None} /\ cached[k] \in Child(k) \cup {None}
  /\ queued \in BOOLEAN /\ WorkerTyped
  /\ image \in Images /\ late \in Images \cup {None}
  /\ wanted \in OvercommitSpec /\ read \in (Uid \X OvercommitSpec) \cup {None}
  /\ lost \subseteq Kinds
  /\ Counted

\* The controller writes the whole object to drop finalizers, and its status after
\* each reconciliation: neither undoes a user's edit made since the object was read.
NoLostEdit == overcommit # None => overcommit.spec = wanted

\* No wake-up is lost: whatever fails, conflicts, is dropped or restarts, a worker
\* that has read an older object, or is idle after having done so, will run again:
\* the object is queued or its event is still to come.
NoLostWakeup ==
  pc \in {"label", "get"} \/ read = Identity(overcommit) \/ queued \/ seen # overcommit

\* A webhook that refuses requests when it cannot be reached is registered only
\* when what serves it was created before, and is gone only if someone deleted it:
\* no failure, restart, stale cache or replaced process reverses the order.
BackedWebhooks ==
  \A k \in Kinds : children[k] # None =>
    \A b \in Backend(k) \cap Kinds : children[b] # None \/ b \in lost

\* The strengthening that makes these inductive: what the worker read last is what
\* the cache shows, unless it is queued; what a cache shows existed; and the worker
\* comes to a child only when those before it have existed.
ReadIsSeen == pc \in {"label", "get"} \/ read = Identity(seen) \/ queued

Existed(k) == children[k] # None \/ k \in lost

CachedExisted == \A k \in Kinds : cached[k] # None => Existed(k)

TakenInOrder == pc \in AllKinds => \A k \in Before(pc) \cap Kinds : Existed(k)

Inv ==
  /\ TypeOK /\ NoLostEdit /\ BackedWebhooks
  /\ ReadIsSeen /\ CachedExisted /\ TakenInOrder

\* Do a Deployment's tolerations follow a spec's, up to seconds and order? Nothing
\* is asked of a list that repeats a key: TolerationsEqual looks for each live
\* toleration in the spec, so an edit that only replaces a repetition is not seen.
Tolerates(have, want) ==
  IF have = Nil \/ Stored(want) = Nil THEN have = Stored(want)
  ELSE KeysOnce(have) => TolerationsAgree(have, want)

\* Is this child k what the object asks for?
Fits(k, child) ==
  /\ child # None
  /\ child.owner = overcommit.uid
  /\ k \in Deployments =>
       /\ child.content.image = image
       /\ child.content.meta = Stored(overcommit.spec.meta)
       /\ Tolerates(child.content.tolerations, overcommit.spec.tolerations)

Reconciled(k) == Fits(k, children[k])

\* What reconciliation is for: the children exist, are the object's own, the
\* Deployments run the present version and follow the spec, the status says so;
\* without the object the children are gone.
Converged ==
  IF overcommit # None
  THEN /\ ~overcommit.finalizer
       /\ \A k \in Kinds : Reconciled(k)
       /\ overcommit.status.ready = Kinds /\ overcommit.status.condition = "True"
  ELSE \A k \in Kinds : children[k] = None

\* Once users stop, the cluster converges for good, whatever failed, crashed,
\* conflicted, was collected or was rewritten by a replaced process meanwhile. (Not
\* included are the seconds of tolerations, which are not compared; the tolerations
\* of a Deployment whose list repeats a key, where an edit may be missed; and the
\* label key of the pod-validating webhook, which is never rewritten.)
Converges == <>[]Converged

\* A copy of the object that is right in all but the status.
Current(o) ==
  /\ o # None
  /\ o.uid = overcommit.uid /\ o.spec = overcommit.spec /\ o.finalizer = overcommit.finalizer

\* The object is reconciled, and neither a cache nor the worker believes otherwise:
\* they may know older statuses and children, as long as these fit, and an older
\* label key.
Settled ==
  /\ overcommit # None /\ Converged
  /\ Current(seen) /\ \A k \in Kinds : Fits(k, cached[k])
  /\ snap # None => Current(snap)
  /\ pc # "finalizer"
  /\ late = None

\* A settled cluster stays settled, and its object is not written, until a user or
\* a fault changes something: neither the Deployment that is adapted at each
\* reconciliation, because its generated annotations are never nil, nor the status
\* is wrong for a moment, and no update of it wakes the controller.
StaysSettled ==
  [][Settled /\ UNCHANGED bounds => Settled' /\ UNCHANGED overcommit]_vars

\* While the object exists, the controller comes to rest again and again: its own
\* status updates, whose events start the next reconciliation, come to an end.
\* (Without the object, GetOvercommitLabel fails and is retried for ever.)
Settles ==
  <>[](overcommit # None) => []<>(pc = "idle" /\ ~queued /\ seen = overcommit)

\* What Reconciler tells apart of it all: of objects uid and spec, of the worker
\* whether it has read the object.
Deleting == IF overcommit = None THEN FALSE ELSE overcommit.deleting

Stage ==
  CASE pc = "idle" -> "idle"
    [] pc \in {"label", "get"} -> "begun"
    [] OTHER -> "working"

Controller == INSTANCE Reconciler WITH
  Versions <- Uid \X OvercommitSpec,
  object <- Identity(overcommit),
  deleting <- Deleting,
  known <- Identity(seen),
  stage <- Stage

\* What the users of the object may rely on: they alone change it, but that the
\* controller completes a deletion that was asked for; and wherever a
\* reconciliation or its status update ends, it is done only with what it has read.
ImplementsReconciler == Controller!Spec
=============================================================================
