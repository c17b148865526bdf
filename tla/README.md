# Verification of the k8s-overcommit-operator

TLA+ specifications of the operator, TLC configurations that check them on small
instances, and TLAPS proofs. Source paths are relative to the repository.

## The system

The operator lowers the resource *requests* of pods to a fraction of their
*limits*. An `OvercommitClass` holds a CPU and a memory ratio, may exclude
namespaces and may be the default. A singleton `Overcommit` object named `cluster`
holds the label key by which pods and namespaces name a class.

| component | source | state it keeps | operations |
|---|---|---|---|
| pod mutating webhook, one process per class | `internal/webhook/v1alphav1/mutating`, `pkg/overcommit` | none but counters; reads classes, namespaces, `Overcommit` through a client | `Overcommit` (create), `OvercommitOnResize` (pods/resize) |
| webhook configurations | `internal/resources/generate_resources_*_webhooks.go` | selectors and match conditions at the API server | decide who is called, reinvoke |
| pod validating webhook | `internal/webhook/v1alphav1/validating` | none | refuses labelled pods whose class does not exist |
| class validating webhook | `api/v1alphav1` | none; lists classes from an informer cache | refuses bad ratios, bad regular expressions, a second default |
| class controller | `internal/controller/overcommitclass` | work queue, caches, gauge; writes classes, Deployments, Services, Certificates, webhook configurations | `Reconcile`, `updateResourcesStatus` |
| Overcommit controller | `internal/controller/overcommit` | work queue, caches; writes an Issuer, two validating webhooks with their Deployments, Services and Certificates, and the class controller's Deployment | `Reconcile`, `updateOvercommitStatusSafely` |
| owner lookup | `internal/utils/getOwner.go` | none | names the owner in metric labels |
| equality helpers | `internal/utils/comparison.go`, `utils.go` of the controllers | none | decide whether a child is rewritten |
| start-up | `cmd/main.go`, `internal/utils/getPodDetails.go` | environment | registers the parts above |

The components never call each other. They meet in objects at the API server: the
class controller turns classes and the label key into webhook configurations; the
API server matches pods with these and calls the webhooks; the webhooks read
classes, the namespace and the label key at that later time; the validating
webhook of classes guards what the others may read; owner references make the
garbage collector delete the controllers' children.

What is hard: every one of these reads may see a different version; several
classes' webhooks see the same pod and are reinvoked after each other's changes;
caches lag; a reconciliation may fail, conflict or be cut off after any of its
calls; events lost by early returns; deletion and recreation racing with the
garbage collector. The `hazards` list of `PROJECT.json` names each place.

## Modules

### PodAdmission

One pod at the API server. Webhooks are stateless and touch one pod, so pods do
not interact and one is enough. `phase` follows the request (`absent`,
`mutating`, `validating`, `checking`, `admitted`, `stored`, `rejected`); `call` is the
webhook invocation in progress with a program counter, one step per read:

| action | code |
|---|---|
| `ReadOvercommitLabel`, `ReadPodClass` | `checkOvercommitType` |
| `ReadNamespace`, `ReadNamespaceClass`, `ReadDefaultClass` | `getNamespaceOvercommit` |
| `OvercommitSkip`, `Overcommit` | `Overcommit` |
| `OvercommitOnResize` | `OvercommitOnResize` |
| `ReadValidatedLabel`, `ValidateCreate` | `PodCustomValidator.ValidateCreate`, its two reads |
| `SyncWebhookConfiguration`, `CollectWebhookConfiguration` | what the class controller and the collector do to a `MutatingWebhookConfiguration` |
| `Invoke`, `WebhookFails`, `MutationDone`, `Persist`, `KeepStored`, `CreatePod`, `ResizePod`, `OtherMutator` | the API server, requesters, other webhooks |
| `PutClass`, `DeleteClass`, `LabelNamespace`, `ChangeLabelKey` | users, between any two reads |

Quantities and ratios are integers; `Scale` is `int64(float64(limit) * ratio)` with
the pairs whose float product falls short given as `RoundsDown`. A regular
expression for excluded namespaces is the set of namespaces it matches. History
variables (`touched`, `mutatedBy`, `submitted`, `since`, `steady`) are read by
properties only, and no guard depends on them.

Properties: `RequestsWithinLimits`, `AnnotationExplainsRequests`, `CalmOutcome`
(invariants), `StoredInitContainersStable`, `MutationAdvances` (action properties),
`EveryRequestAnswered` (liveness). `CalmOutcome` is about creations nobody disturbs:
a labelled pod is stored only if its class exists, and a pod that a webhook serves
carries the class of the documented priority with its ratios. It is silent where code
and documents part: about a class that excludes the namespace of a pod which another
class's webhook serves (`ExcludedUntouched`, below), and about a namespace's label
when no webhook serves its pods. Nothing of the kind holds when classes or labels are
edited in between; what holds then is `AnnotationExplainsRequests`.

### ClassAdmission

Clients submit classes, the webhook reviews them against a list from its cache and
the API server commits them afterwards. The store is the sequence of its
revisions, the cache a position in it (`seen`); `MaxLag` bounds the distance at a
review. `validateSpecOvercommit`, `checkDecimals`, `isClassDefault` and
`checkIsRegexValid` keep their names. An object is committed only if it did not
change since the request read it. Ratios are integers on a grid finer than the
webhook's tolerance of 1e-9, and `checkDecimals` rounds to the next multiple of
`Grain` (the fourth decimal) and compares within `Tolerance`, so a ratio may miss its
decimal by what a float64 misses it; the run has 0.29 too low by one step of 5e-10.

Properties: `StoredClassesValid`, `NewDefaultUnseen` (what the default check does
guarantee under concurrency), `DefaultsEditable` (when two defaults were admitted all
the same, neither is refused an update with a valid spec, so the conflict can be
ended), `AtMostOneDefault` (what the check is meant to guarantee), `ImplementsRegistry`.

### ClassRegistry

The abstract specification of class admission: a sequence of revisions, and
nothing of requests, reviews or caches. `Write` appends a revision with one class
replaced by a valid one; it may make a new default only if some revision, at most
`MaxLag` before the class was last changed, had no default (`MayBecomeDefault`).
That is all a reader of the store may rely on. `ClassAdmission` implements it with
its own `history` for the abstract one: only `Commit` and `Delete` change it, all
other steps stutter.

### Reconciler

The abstract specification of a controller that is driven by the state of one object:
the object's version (uid and spec), what the informer knows of it, its place in the
work queue, and of the worker only whether it has read the object and which version.
Users and the garbage collector alone choose the version; the one change a controller
makes is to complete a deletion that was asked for (`Release`). A reconciliation ends
in `Finish`, which is possible only after a `Read`, or in `GiveUp`, which queues the
object again. Children, statuses, owners, retries and the calls of a reconciliation do
not occur. `ClassController` and `OvercommitController` both implement it
(`ImplementsReconciler`, with `Stage` mapping the program counter): the writes of
owner, finalizers and status and all writes of children are stutters of `object`. What
follows from it (`Attentive`, `Unforgetting`) is proved once, in `ReconcilerProofs`.

### ClassController

One worker, one class, its children. `pc` names the call made next, so everything
else can happen between any two calls: changes by users, garbage collection, caches
catching up (`ObserveClass`, `ObserveOvercommit`, `ObserveChild`), a failing call (`CallFails`),
a write whose answer is lost (`AnswerLost`), a restart. `snap` is the copy of the
class the worker reads and writes back; a write succeeds only if the class is
still equal to it. `queued` is the class's place in the work queue: the informer's
events and returned errors set it, the worker clears it when it starts, and
nothing watches children or the Overcommit object. A child is what it was
generated from; `Differs` says which part of that the code compares. The four
kinds are handled alike, one after the other, and do not depend on each other, so
an instance follows some of them (`Kinds`).

Properties: `NoLostEdit`, `NoLostWakeup`, `AdoptedBeforeChildren` (invariants),
`StaysSettled` (action property: a class that is reconciled, and known as such to caches
and worker, stays so, and neither it nor its children are written but for the order of
the status list), `ImplementsReconciler`, `Converges`, `Settles` (liveness).

Abstractions of both controllers: objects are compared by value, not by resource version (an edit that
was undone before the write is not a conflict; the conflict itself is covered by
other edits). A status is ready as soon as the child is in the cache, as in the code. The
content of a Deployment (`template`) takes the same path through `CreateOrUpdate`
as that of the webhook.

### OvercommitController

The singleton object, its ten children in the order of `Reconcile` (`KindOrder`)
and one worker, built like `ClassController`: `pc` names the next call, `seen` and
`cached` are the informers' caches, `queued` the work queue.

| action | code |
|---|---|
| `GetOvercommitLabel`, `GetOvercommit` | the two reads `Reconcile` starts with, of which the object may change in between |
| `RemoveFinalizers` | both legacy finalizers go in one update, then `RequeueAfter` |
| `CreateOrUpdate` | one of the ten calls of `controllerutil.CreateOrUpdate`; `Wanted` is the mutate function: all kinds are generated when missing, Deployments (`Updated`, `Rewritten`) are compared field by field and adapted, others left alone |
| `RefreshOvercommit`, `UpdateStatus` | one attempt of `updateOvercommitStatusSafely`; conflicts start the next, all other errors are logged and dropped |
| `CallFails`, `StatusFails`, `ReadFails`, `AnswerLost` | a call that fails, with the error returned, dropped, or hiding a write that was done |
| `Restart` | a new process, of this or another version, with new caches |
| `LateWrite`, `LateStops` | the old process of a rolling update, which goes on reconciling: leader election is off by default |
| `ObserveOvercommit`, `ObserveChild`, `CollectChild`, `Resync` | informers, garbage collector |
| `CreateOvercommit`, `EditOvercommit`, `DeleteOvercommit`, `DeleteChild` | users |

The generators are operators with the source's names. Of a Deployment's content
the model keeps the image (and with it the environment variables, which hold its
parts), one map for labels, annotations and node selector, and the tolerations;
maps and lists may be nil or empty, which the API server does not tell apart
(`Stored`) but the comparisons do. Every mutate function calls its generator
again before it compares; therefore the app label, which the generators write
into the object's own map of labels and thus into the map three Deployments
share, is right at each call, and the model leaves it out. The old process
(`LateWrite`) works with the object as it is or as the new process's cache has it, and
comes to a child when those before it in `KindOrder` exist or are in the cache: it may
be behind as the new one is. The ten reads of a status update are one step, with `ReadFails` for one of
them failing.

Properties: `NoLostEdit`, `NoLostWakeup`, `BackedWebhooks` (invariants),
`StaysSettled` (action property: as for the class controller, and the object is not
written at all), `ImplementsReconciler`, `Converges`, `Settles` (liveness).

### Equality

`TolerationsEqual`, `envVarsEqual`, `mapsEqual`, `portsEqual` and `slicesEqual` as
operators on sequences and functions, with `Nil` for a nil slice or map.
`OvercommitController` compares with them. `webhookChanged` is part of
`ClassController` (`Differs`).

### PodLookups

The two walks along owner references, a read per step, while owners change.
`GetPodOwner`, `GetReplicaSet` and `FindRootOwner` are `GetPodOwner` and
`findRootOwner`, which the pod mutating webhook calls first of all, with the
request's context: when it `Expire`s, every further read at the API server fails.
A ReplicaSet comes from the cache, which need not look at the deadline, so that read
may succeed or fail then (`GetCached`); its owners are taken to be those it has.
`GetPodDeploymentName`, `GetOwnReplicaSet`, `GetPodImageDetails`,
`GetPodServiceAccount` and `StartManager` are the start of a process with the
Overcommit controller, which exits on any error and is restarted
(`RestartContainer`). An image reference is its registry and what colons separate
in the rest.

Properties: `AnswerOwnsPod`, `NoObjectTwice` (invariants), `LookupEnds`, `Starts`
(liveness).

## Runs

All runs turn deadlock checking off: a pod that is stored, a class that is
reconciled, or a bound that is used up is a legitimate end.

| run | checks | bounds, and why they are enough |
|---|---|---|
| `PodFaults` | `TypeOK`, `RequestsWithinLimits`, `AnnotationExplainsRequests`, `CalmOutcome`, `StoredInitContainersStable` | two classes, one namespace, three kinds of pods, failing reads, one edit and one resize or foreign mutation: every resolution, fallback and pair of invocations |
| `PodEdits` | `AnnotationExplainsRequests`, `CalmOutcome`, `EveryRequestAnswered`, `MutationAdvances` | two label keys and two edits, so that key and class can change within one invocation; both classes may be defaults, which gives the longest chains of reinvocations |
| `ClassReviews` | `StoredClassesValid`, `NewDefaultUnseen`, `DefaultsEditable`, `ImplementsRegistry` | two names, two clients, lag one, four writes (two defaults take two, an update of one a third), one invalid spec for each check and one that is off its decimal by a float64's error: two reviews and their commits in every order, one of them on a stale list |
| `CtlConverges` | `TypeOK`, `NoLostEdit`, `NoLostWakeup`, `AdoptedBeforeChildren`, `ImplementsReconciler`, `Converges` | Deployment and webhook configuration, two changes by users (delete and recreate, edit and edit back), one fault anywhere, resyncs; one template, so that edits change the webhook |
| `CtlSettles` | `StaysSettled`, `Settles` | Deployment and Service, two orders of the status list, no resyncs |
| `OcConverges` | `TypeOK`, `NoLostEdit`, `NoLostWakeup`, `BackedWebhooks`, `ImplementsReconciler`, `Converges`, `StaysSettled`, `Settles` | the pod-validating webhook and its Deployment (the order of the others is the same sequence; a restart may come between the two), metadata that are generated empty and stored as none, so that the Deployment seems to differ each time, two lists of two tolerations of which one repeats a key, two versions, legacy children and finalizers, two attempts at the status, and any two disturbances (`MaxChanges`): edits, deletions, failures, lost answers, restarts, upgrades |
| `OwnerWalk` | `TypeOK`, `AnswerOwnsPod`, `NoObjectTwice`, `LookupEnds`, `Starts` | a ReplicaSet, a Deployment and a custom resource that own each other in every way, cycles included; one change during the walk, one failing read |

Ratios are chosen so that scaling truncates to zero, truncates, and loses one unit
to the float product. `MCPodAdmission`, `MCClassAdmission`,
`MCOvercommitController` and `MCPodLookups` hold the values of the runs;
`MCClassController` starts with the first of the specs and label keys, which the
specification does not tell apart. The class controller's uids, edits and faults are
bounded (`MaxEdits`, `MaxFaults`): one fault and two edits are what it takes to meet a
stale cache after one's own write, or an object recreated under its name. The Overcommit
controller has one bound for all of them together (`MaxChanges`), and what an earlier
version left counts as one: an object recreated takes two, an edit with a fault two.
Three changes in one behaviour are out of the runs' reach; the safety properties among
the eight are proved for any number.

Every property of these runs has a mutant of the code that breaks it
(definitions marked "Mutant" in the modules, listed in `PROJECT.json`).

### Where code and documents disagree

| run | what the counterexample shows |
|---|---|
| `PodExcluded` | a pod without a label is mutated by a default class's webhook with the class its namespace names, although that class excludes the namespace: exclusion is asked of the webhook that is called (`Matches`), not of the class that is found, as `src/docs/architecture.md:94` has it |
| `PodSkip` | a pod is skipped as "already mutated by this class" after a failed resolution wrote the annotation (a copied manifest that carries it has the same effect) |
| `ClassTwoDefaults` | two default classes, admitted by reviews of a stale list |
| `CtlLabelKey` | the webhooks of an existing class never follow a changed label key |
| `CtlLegacy` | a class with a legacy finalizer cannot be deleted once the Overcommit object is gone |

Met while modelling and visible in the modules, without a run of their own:

- A class edited and edited back before the Deployment cache has seen the first
  write keeps the Deployment of the first edit until a resync
  (`overcommitclass_controller.go:143` compares with the cache, and Deployments
  are not watched). `Converges` holds because resyncs are among its assumptions.
- After the deletion of the Overcommit object its controller retries
  `GetOvercommitLabel` for ever, and the branch "CR not found, nothing to do"
  (`overcommit_controller.go:64`) is reached only if the object goes between two
  reads. `Settles` is stated for existing objects for that reason.
- Changed seconds of a toleration are not followed (`comparison.go:63`), and
  `createTolerationKey` joins its parts with dashes, which parts may contain:
  different tolerations can share a key. `TolerationsEqualExact` speaks of keys.
- `TolerationsEqual` is to tell of two lists whether "they're equal"
  (`comparison.go:15`), but looks only for the live tolerations in the spec: when the
  live list repeats a key, as `[A, A']` with other seconds does, an edit to `[A, B]` is
  taken for none and never followed. `Tolerates`, and so `Converges`, asks nothing of a
  live list that repeats a key; `AdaptedFollows` says exactly when an edit is missed.
- A class that is created while its controller's cache has not heard of a recreated
  Overcommit object is given the old object as owner, and the garbage collector takes it
  away (`GetOvercommit`, `CollectClass`).
- A labelled pod may be stored although its class is gone: nothing ties validation
  (`pod_webhook.go:72`) and storage together (`Persist`).
- The attempts of `updateOvercommitStatusSafely` to read a fresh object read from
  the cache, so several may see the same stale one.
- The branch for conflicts at `overcommit_controller.go:320` cannot be reached,
  because the webhook it follows is never updated.
- During a rolling update without leader election (`cmd/main.go:62`) two versions
  rewrite the same Deployments to their own image until the old process ends
  (`LateWrite`).
- An image given by tag and digest loses the value of the digest, and an image without a
  registry keeps the controller from starting (`getPodDetails.go:41-53`).
- The owner lookup serves metric labels only, but shares the admission request's
  deadline; with a cycle of owners it uses all of it, the API server gives up
  waiting, and refuses the pod (failure policy `Fail`).
- A namespace's label has no effect unless a default class serves unlabelled pods
  (`Matches`; `src/README.md:186` names no such condition).
- After a change of the label key the pod-validating webhook keeps its old
  selector (`ChangeLabelKey` leaves `vkey`; `Wanted` leaves an existing
  `podWebhook`), so pods that name an unknown class
  under the new key are stored (`src/docs/architecture.md:51`).
- `mutated_pods_total` counts every annotated pod, resolved or not
  (`CountMutation`; `src/docs/metrics.md:43` says "successfully mutated").
- The comparison of Services always finds a difference (`Differs`), because the
  generated object lacks the API server's defaults.
- `total_classes` is not refreshed when the last class goes (`GetClass`).

### Fairness

`PodAdmission` has weak fairness on the steps of the API server and the webhooks
together (`Answer`): a request in progress is worked on, while new requests,
edits and failures need not happen. `ClassController` has weak fairness on the
worker (the work queue is served), on each informer (of the class, the Overcommit object
and each child), on the garbage collector for
each object, and on the informer's resync (controller-runtime resyncs every ten
hours by default), which the constant `Resyncs` switches off.
`OvercommitController` has the same, and weak fairness for the end of a replaced
process: a rolling update deletes it. `PodLookups` assumes that a process takes its
steps, that admission requests have a deadline (the API server's timeout of at most
30 seconds), and that the kubelet restarts exited containers. `Settles` adds
strong fairness for "the status list keeps its order" (`RandomOrder`): Go
randomises map iteration, so no order is avoided for ever. No fairness is assumed
of users, failures or restarts.

## Proofs

`PodAdmissionProofs` proves, for all constants that meet the module's assumptions,
`TypeOK`, `RequestsWithinLimits` and `AnnotationExplainsRequests`. They are not
inductive alone; `Inv` adds `Progress`: an invocation in progress belongs to a
webhook that was called at most once before (so the count stays within two), the
label key it works with is known, and between requests the object is the stored
one. `ScaleBounded` (a scaled limit is a natural number not above the limit) is
the one arithmetic lemma; it rests on ratios in `1 .. Unit`, which is what
`ClassAdmissionProofs!OnlyValidClassesStored` establishes, and on
`RoundsDownAssumption`. Then there is one lemma for each group of actions (reads,
answers, requests, the chain, the world). `MutationEnds` proves `MutationAdvances`,
the variant behind `EveryRequestAnswered`: while a pod is mutated, every step of a
webhook is at a later call of the invocation (`Place`), or is the first or second answer of
that webhook, so no fallback can loop and no two webhooks can call each other for ever.
That such a measure cannot grow without end, and that fairness makes it move, is the
part TLC checks.

Nothing but typing is assumed of the registered configurations in these proofs: they
hold whatever selectors the API server has. Only `CalmOutcome` is about configurations
that are in step with the classes.

`PodOutcomeProofs` proves `StoredInitContainersStable` and `CalmOutcome`. The first
rests on `InitContainersKept`: a resize works on a copy of the stored pod that differs
in regular containers only. The second rests on `CalmInv`, about a creation that has
been calm so far: the configurations are still what the classes say (`Synced`); what
the invocation in progress has read is still so (`ReadsCurrent`); the annotations are
the documented ones, and every webhook that was called left some
(`AnnotationDocumented`). Mutation ends when no registered webhook matches, and in a
synced cluster those are the ones meant for the pod (`SyncedHooksMatch`), which is why
a served pod leaves with annotations (`EveryHookCalled`). TLC checked both as
invariants of the pod runs before.

`ClassAdmissionProofs` proves `StoredClassesValid`, `NewDefaultUnseen` and
`DefaultsEditable` from one invariant (`TypeOK` is part of it): every revision holds
valid classes, and an approved request was valid and, if it makes a new default, was
reviewed against a revision without one that is no more than `MaxLag` older than the
one the request was made from. `ChecksExact` says for every unit and tolerance below half a decimal that
the webhook's rounding accepts exactly the ratios within the tolerance of four decimals
(`RoundingFindsDecimals`); both what is stored and what stays editable rest on it.
`RegistryImplemented` proves the refinement from it: a commit finds
its class unchanged since the request's revision, so the revision of the review is
a witness for `MayBecomeDefault`. `SerialDefaultUnique` proves `AtMostOneDefault`
under `MaxLag = 0` and a single client, with the invariant that a request in flight
was reviewed against the present set of defaults. `ClassTwoDefaults` shows that the
condition on the lag is needed; what holds without either condition is
`NewDefaultUnseen`.

`ClassControllerProofs` proves `TypeOK`, `NoLostEdit`, `NoLostWakeup` and
`AdoptedBeforeChildren`, for any kinds and any number of edits and faults. `Inv`
adds what makes them inductive. `ReadIsSeen`: the worker has read what its
informer has, or it will run again; `NoLostWakeup` itself is not inductive, since
a class that is edited back makes the pending event vanish. `UidsGivenOut`: a
recreated class shares its uid with no older copy or child. `StaysAdopted`: a copy
with an owner is a copy of a class that still has one, and the worker makes
children for such copies only. Steps that touch neither the API server nor the
caches share one lemma (`WorkerStep`), and so do the writes of the owner, of a
child and of the status with the failures that repeat them.

`ReconcilerImplemented` proves, in both controllers' modules, that every step maps to a
step of `Reconciler` or a stutter, from the same invariants: a write
of the whole object leaves its version as it is because it succeeds only on the version
that was read. `ReconcilerProofs` shows from the abstract specification alone that
`Attentive` is inductive and that `Unforgetting` follows.

`SettledStays` proves `StaysSettled` in both: the safety half of `Converges` and
`Settles`, that what is reached is kept and is not written again. `Settled`
names how far caches and copies may be behind without believing anything else, and is
inductive under steps that change nothing by hand; for each call that writes, a lemma
shows that what it would write is there already, or is the order of the status list.

`OvercommitControllerProofs` proves `TypeOK`, `NoLostEdit`, `NoLostWakeup` and
`BackedWebhooks`, for any of the ten kinds, any specs, versions, attempts, edits and
faults. `Inv` (checked by TLC in a small instance before) adds
`ReadIsSeen`, as for the class controller; `CachedExisted`: what a cache shows
existed at the API server, or was deleted since; and `TakenInOrder`: the worker
comes to a child only when those before it in `KindOrder` have existed. The last two
are what makes `BackedWebhooks` inductive: a worker that finds a child in a stale
cache and passes on has not seen it at the API server. `AdaptedOnce` proves that
adapting a child (`Wanted`) is idempotent, for the class controller's Deployment too,
which seems to differ at each reconciliation because its annotations are generated
empty and stored as none; `SettledStays` needs it. `AdaptedFollows` proves that one
adaptation is enough for image and metadata, whatever was there, and for tolerations
exactly but in one case (`Overlooked`): those that were there repeat a key, are as many
as wanted, and all have keys that are wanted. Users may repeat tolerations, so nothing is
assumed of the lists. It rests on the exactness of the comparisons (`EqualityProofs`),
and so on metadata being finite maps.

`EqualityProofs` proves that the comparisons decide sameness, for all inputs:
`mapsEqual` is equality; the others, which look in one direction and compare
lengths, are equality up to order for lists without repetitions (of names or
elements), because two finite sets of one size include each other if one includes
the other (`OneDirection`). The generators' lists of names have none. Tolerations come
from users: `TolerationsEqualExact` needs the live list alone to be without repetition
to find every difference of keys, and both lists to find nothing else.

`PodLookupsProofs` proves `TypeOK`, `AnswerOwnsPod` and `NoObjectTwice`, for any
objects and references. Ancestors and cycles are defined by sets (`Ancestor`: in every
set that holds the pod's first owner and is closed under first owners; `Cyclic`: a set
each of whose members has its first owner in it), so that no induction over paths is
needed. The invariant (`OnPath`): the walk stands at an ancestor, and each object it
has read has its first owner among those read and the one read next; reading one of
them again closes the set.

Assumed throughout are the named assumptions on constants (`BoundsAssumption`,
`KindsAssumption`, ...), which TLC evaluates in the runs.

Only model-checked: liveness, which the prover does not handle (`EveryRequestAnswered`,
`Converges`, `Settles`, `LookupEnds`, `Starts`). Of the first three the safety half is
proved (`MutationAdvances`, `StaysSettled`, `NoLostWakeup`). `AtMostOneDefault`,
`SkipOnlyIfMutated`, `ExcludedUntouched`, `WebhookFollowsLabelKey` and
`LegacyClassDeleted` do not hold.

## Not modelled

- `generate_*.go` beyond what an object takes from specs, label key, environment and
  name, and what a webhook configuration refers to and selects: the rest of the
  object literals is constant.
- `cmd/main.go` beyond the lookups, their exits and the environment they set: flags,
  servers, probes and the choice of the parts a process runs are read once and hold
  no state.
- The injection of CA bundles, certificates and their renewal, TLS and RBAC belong to
  cert-manager and the API server.
- Generated deep copies and API registration; `cleanup.go`, which has no caller.
- The metrics `version` and class information, which are labels only, and the
  wording of events, conditions and logs.
- The composition of both controllers with pod admission in one state space: they
  meet in webhook configurations, which `PodAdmission` lets be created, rewritten and
  collected at any time (`SyncWebhookConfiguration`, `CollectWebhookConfiguration`). It
  takes class and label key as they are at the write. A reconciliation in progress may
  still write those it read before, until the next one corrects it; the runs do not
  reach that, while the theorems about requests and annotations hold for any
  configuration, as said above, and `CalmOutcome` is about configurations in step.
