---------------------------- MODULE PodAdmission ----------------------------
(***************************************************************************)
(* The life of one pod at the API server: its creation and its resizes     *)
(* pass through the mutating webhooks of the OvercommitClasses, other      *)
(* mutators and the validating pod webhook, while classes, namespace       *)
(* labels, the label key of the Overcommit object and the registered       *)
(* webhook configurations change underneath.                               *)
(*                                                                         *)
(* A webhook invocation is stateless and touches one pod only, so pods are *)
(* independent and one pod is modelled.  An invocation is NOT atomic: each *)
(* read of the cluster is a step of its own.                               *)
(***************************************************************************)
EXTENDS Integers, FiniteSets

CONSTANTS
  Names,           \* class names a label may carry, existing classes or not
  Namespaces,
  Keys,            \* candidates for the label key spec.overcommitLabel
  Containers,      \* regular containers of the pod
  InitContainers,
  Resources,       \* cpu and memory
  Unit,            \* the ratio 1.0, in ten-thousandths
  Specs,           \* OvercommitClass specs that pass validation
  Templates,       \* pods that requesters submit
  Resizes,         \* [limits, requests] a resize or another mutator writes
  RoundsDown,      \* <<limit, ratio>> whose float64 product falls short of
                   \* the exact integer, so that int64() loses one
  OperatorNamespaces, \* namespaces that match the operator's POD_NAMESPACE
  ReadErrors,      \* may a read through the client fail?
  MaxEdits,        \* bound on changes made by users and other controllers
  MaxWrites,       \* bound on resizes and writes of other mutators
  NoName, NoClass, NoHook, NoPod, Absent

AllContainers == Containers \cup InitContainers

Ratio == 1 .. Unit

Quantity == Nat \cup {Absent}

ResourceLists == [Resources -> Quantity]

\* A resource list pair that the API server accepts: no request above its limit.
Fits(lim, rq) ==
  \A r \in Resources :
    lim[r] \in Nat /\ rq[r] \in Nat => rq[r] <= lim[r]

ClassSpec ==
  [ratio : [Resources -> Ratio], isDefault : BOOLEAN, excluded : SUBSET Namespaces]

Labels == [Keys -> Names \cup {NoName}]

\* What a class's MutatingWebhookConfiguration was generated from.
HookConfig == [isDefault : BOOLEAN, excluded : SUBSET Namespaces, key : Keys]

\* A configuration holds one webhook for pods that carry the class's name and,
\* for a default class, one for pods without the label.
Webhooks == Names \X {"label", "default"}

Pod ==
  [ns : Namespaces, labels : Labels,
   limits : [AllContainers -> ResourceLists],
   requests : [AllContainers -> ResourceLists],
   applied : Names \cup {NoName},      \* annotation .../applied
   ratio : [Resources -> Ratio]]       \* annotations .../cpu and .../memory

Resolution ==
  [className : Names \cup {NoName}, ratio : [Resources -> Ratio], resolved : BOOLEAN]

ASSUME UnitAssumption == Unit \in Nat \ {0}

ASSUME BoundsAssumption == MaxEdits \in Nat /\ MaxWrites \in Nat

ASSUME SpecsAssumption == Specs \subseteq ClassSpec

ASSUME SentinelAssumption ==
  /\ NoName \notin Names
  /\ NoClass \notin ClassSpec
  /\ NoHook \notin HookConfig
  /\ NoPod \notin Pod
  /\ Absent \notin Nat

ASSUME ContainersAssumption == Containers \cap InitContainers = {}

ASSUME TemplatesAssumption ==
  /\ Templates \subseteq Pod
  /\ \A t \in Templates : \A c \in AllContainers : Fits(t.limits[c], t.requests[c])

ASSUME ResizesAssumption ==
  /\ Resizes \subseteq [limits : ResourceLists, requests : ResourceLists]
  /\ \A z \in Resizes : Fits(z.limits, z.requests)

ASSUME RoundsDownAssumption ==
  \A x \in RoundsDown : x[1] * x[2] >= Unit

VARIABLES
  classes,   \* the OvercommitClasses the webhooks read
  nsLabels,  \* labels of each namespace
  key,       \* spec.overcommitLabel of the Overcommit object
  vkey,      \* label key in the pod-validating webhook's object selector
  hooks,     \* registered MutatingWebhookConfigurations
  phase,     \* progress of the request at the API server
  op,        \* "create" or "resize"
  pod,       \* the object under admission
  stored,    \* the object last persisted
  count,     \* how often each webhook was called in this request
  dirty,     \* webhooks after whose response the object was changed
  call,      \* the invocation in progress
  metrics,   \* requested, mutated (counters per class), podMutated
  edits, writes,
  \* History, read by properties only:
  touched,   \* containers written by others since the last application
  storedTouched, \* touched, when the stored object was persisted
  mutatedBy, \* classes that some invocation resolved and applied to the pod
  submitted, \* the pod as its requester submitted it for creation
  since,     \* edits made before the creation was submitted
  steady     \* webhooks in sync at submission, and no read has failed since

world == <<classes, nsLabels, key, vkey, hooks>>
request == <<phase, op, count, dirty, call>>
origin == <<submitted, since>>
history == <<touched, storedTouched, mutatedBy, origin, steady>>
vars == <<world, request, pod, stored, metrics, edits, writes, history>>

-----------------------------------------------------------------------------
(* Resolution of the ratios: calculate_values_from_labels.go               *)

NoOp == [r \in Resources |-> Unit]

\* The zero-value className with ratios 1.0 returned on every error.
Unresolved == [className |-> NoName, ratio |-> NoOp, resolved |-> FALSE]

ResolvedTo(n) == [className |-> n, ratio |-> classes[n].ratio, resolved |-> TRUE]

Exists(n) == n \in Names /\ classes[n] # NoClass

DefaultClasses == {n \in Names : classes[n] # NoClass /\ classes[n].isDefault}

Idle == [hook |-> <<NoName, "none">>, pc |-> "idle", key |-> NoName,
         name |-> NoName, res |-> Unresolved]

InCall(pc) == phase = "mutating" /\ call.pc = pc

\* A read that succeeds (possibly with "not found").
Goto(newCall) == call' = newCall /\ UNCHANGED steady

Resolve(res) == Goto([call EXCEPT !.pc = "apply", !.res = res])

\* A read that fails: a timeout, a missing permission, a cache not in sync.
FailTo(newCall) == ReadErrors /\ call' = newCall /\ steady' = FALSE

GiveUp == FailTo([call EXCEPT !.pc = "apply", !.res = Unresolved])

UnchangedByRead ==
  UNCHANGED <<world, phase, op, count, dirty, pod, stored, metrics, edits, writes,
              touched, storedTouched, mutatedBy, origin>>

\* Mutant: the label of the pod is not looked at.
ReadNoPodLabel ==
  /\ InCall("label")
  /\ Goto([call EXCEPT !.pc = "namespace", !.key = key]) \/ GiveUp
  /\ UnchangedByRead

\* GetPodOwner only fills metric labels and its error is not fatal; then
\* GetOvercommitLabel, whose error ends in the no-op resolution.
ReadOvercommitLabel ==
  /\ InCall("label")
  /\ \/ Goto(IF pod.labels[key] # NoName
             THEN [call EXCEPT !.pc = "class", !.key = key, !.name = pod.labels[key]]
             ELSE [call EXCEPT !.pc = "namespace", !.key = key])
     \/ GiveUp
  /\ UnchangedByRead

\* Mutant: the pod is resolved anew when its class is not found.
ReadPodClassOrRetry ==
  /\ InCall("class")
  /\ \/ Exists(call.name) /\ Resolve(ResolvedTo(call.name))
     \/ ~Exists(call.name) /\ Goto([call EXCEPT !.pc = "label"])
     \/ FailTo([call EXCEPT !.pc = "namespace"])
  /\ UnchangedByRead

\* The class named by the pod: not found, or any error, falls back to the namespace.
ReadPodClass ==
  /\ InCall("class")
  /\ \/ Exists(call.name) /\ Resolve(ResolvedTo(call.name))
     \/ ~Exists(call.name) /\ Goto([call EXCEPT !.pc = "namespace"])
     \/ FailTo([call EXCEPT !.pc = "namespace"])
  /\ UnchangedByRead

\* Mutant: the label of the namespace is not looked at.
ReadNoNamespaceLabel ==
  /\ InCall("namespace")
  /\ Goto([call EXCEPT !.pc = "default"]) \/ GiveUp
  /\ UnchangedByRead

ReadNamespace ==
  /\ InCall("namespace")
  /\ LET name == nsLabels[pod.ns][call.key] IN
       \/ name # NoName /\ Goto([call EXCEPT !.pc = "nsClass", !.name = name])
       \/ name = NoName /\ Goto([call EXCEPT !.pc = "default"])
       \/ GiveUp
  /\ UnchangedByRead

\* Mutant: no answer when the namespace names a class that does not exist.
ReadExistingNamespaceClass ==
  /\ InCall("nsClass")
  /\ \/ Exists(call.name) /\ Resolve(ResolvedTo(call.name))
     \/ GiveUp
  /\ UnchangedByRead

ReadNamespaceClass ==
  /\ InCall("nsClass")
  /\ \/ Exists(call.name) /\ Resolve(ResolvedTo(call.name))
     \/ ~Exists(call.name) /\ Resolve(Unresolved)
     \/ GiveUp
  /\ UnchangedByRead

\* GetDefaultClass takes the first default of the list; the order of a list
\* served from an informer cache is unspecified.
ReadDefaultClass ==
  /\ InCall("default")
  /\ \/ \E n \in DefaultClasses : Resolve(ResolvedTo(n))
     \/ DefaultClasses = {} /\ Resolve(Unresolved)
     \/ GiveUp
  /\ UnchangedByRead

-----------------------------------------------------------------------------
(* Mutation: make_overcommit.go                                            *)

\* Mutant: the limit is divided by the ratio.
ScaleUp(limit, ratio) == (limit * Unit) \div ratio

\* int64(float64(limit) * ratio)
Scale(limit, ratio) ==
  (limit * ratio) \div Unit - (IF <<limit, ratio>> \in RoundsDown THEN 1 ELSE 0)

\* Mutant: a request that is there is scaled instead of the limit.
mutateRequests(cs, ratio) ==
  [c \in AllContainers |-> [r \in Resources |->
     CASE c \notin cs \/ pod.limits[c][r] = Absent \/ ratio[r] = Unit -> pod.requests[c][r]
       [] pod.requests[c][r] # Absent -> Scale(pod.requests[c][r], ratio[r])
       [] OTHER -> Scale(pod.limits[c][r], ratio[r])]]

\* The requests of the containers cs after mutateContainers.
mutateContainers(cs, ratio) ==
  [c \in AllContainers |-> [r \in Resources |->
     IF c \in cs /\ pod.limits[c][r] # Absent /\ ratio[r] # Unit
     THEN Scale(pod.limits[c][r], ratio[r])
     ELSE pod.requests[c][r]]]

\* OVERCOMMIT_CLASS_NAME of the invoked webhook stands in for an empty name.
ClassName == IF call.res.className = NoName THEN call.hook[1] ELSE call.res.className

\* The response reaches the API server: a changed object makes the webhooks
\* called before eligible for one reinvocation.
Respond(newPod) ==
  /\ pod' = newPod
  /\ count' = [count EXCEPT ![call.hook] = @ + 1]
  /\ dirty' = IF newPod = pod THEN dirty \ {call.hook}
              ELSE {h \in Webhooks : count[h] > 0} \ {call.hook}
  /\ call' = Idle
  /\ UNCHANGED <<world, phase, op, stored, edits, writes, storedTouched, origin, steady>>

\* Mutant: annotations that are there are kept.
AnnotatedOnce(requests) ==
  [pod EXCEPT !.requests = requests, !.applied = ClassName,
              !.ratio = IF pod.applied = NoName THEN call.res.ratio ELSE @]

\* setOvercommitAnnotation, then the mutated counters.
Annotated(requests) ==
  [pod EXCEPT !.requests = requests, !.applied = ClassName, !.ratio = call.res.ratio]

CountMutation ==
  metrics' = [requested |-> [metrics.requested EXCEPT ![ClassName] = @ + 1],
              mutated |-> [metrics.mutated EXCEPT ![ClassName] = @ + 1],
              podMutated |-> IF call.res.resolved
                             THEN [metrics.podMutated EXCEPT ![ClassName] = @ + 1]
                             ELSE metrics.podMutated]

RecordApplication(cs) ==
  /\ touched' = touched \ cs
  /\ mutatedBy' = IF call.res.resolved THEN mutatedBy \cup {ClassName} ELSE mutatedBy

Skipped == pod.applied = ClassName

OvercommitSkip ==
  /\ InCall("apply") /\ op = "create"
  /\ Skipped
  /\ metrics' = [metrics EXCEPT !.requested[ClassName] = @ + 1]
  /\ Respond(pod)
  /\ UNCHANGED <<touched, mutatedBy>>

Overcommit ==
  /\ InCall("apply") /\ op = "create"
  /\ ~Skipped
  /\ Respond(Annotated(mutateContainers(AllContainers, call.res.ratio)))
  /\ CountMutation
  /\ RecordApplication(AllContainers)

\* Mutant: a resize mutates the init containers too.
OvercommitAllOnResize ==
  /\ InCall("apply") /\ op = "resize"
  /\ Respond(Annotated(mutateContainers(AllContainers, call.res.ratio)))
  /\ CountMutation
  /\ RecordApplication(AllContainers)

OvercommitOnResize ==
  /\ InCall("apply") /\ op = "resize"
  /\ Respond(Annotated(mutateContainers(Containers, call.res.ratio)))
  /\ CountMutation
  /\ RecordApplication(Containers)

-----------------------------------------------------------------------------
(* The API server's admission chain (external)                             *)

\* CreateMutatingWebhookConfiguration for the class as it is now.
WebhookConfiguration(n) ==
  IF classes[n] = NoClass THEN NoHook
  ELSE [isDefault |-> classes[n].isDefault, excluded |-> classes[n].excluded, key |-> key]

\* Object selector and match condition of a registered webhook.
Matches(h) ==
  LET hook == hooks[h[1]] IN
  /\ hook # NoHook
  /\ pod.ns \notin hook.excluded
  /\ IF h[2] = "label"
     THEN pod.labels[hook.key] = h[1]
     ELSE hook.isDefault /\ pod.labels[hook.key] = NoName

\* Mutant: reinvocation without a bound.
CallableAgain(h) == Matches(h) /\ (count[h] = 0 \/ h \in dirty)

Callable(h) ==
  /\ Matches(h)
  /\ count[h] = 0 \/ (count[h] = 1 /\ h \in dirty)

NewRequest(o, p) ==
  /\ phase' = "mutating"
  /\ op' = o
  /\ pod' = p
  /\ count' = [h \in Webhooks |-> 0]
  /\ dirty' = {}
  /\ call' = Idle

CreatePod ==
  /\ phase = "absent"
  /\ \E t \in Templates : NewRequest("create", t)
  /\ touched' = AllContainers
  /\ submitted' = pod' /\ since' = edits
  /\ steady' = (vkey = key /\ hooks = [n \in Names |-> WebhookConfiguration(n)])
  /\ UNCHANGED <<world, stored, metrics, edits, writes, storedTouched, mutatedBy>>

\* The resize subresource changes the resources of a regular container.
ResizePod ==
  /\ phase = "stored" /\ writes < MaxWrites
  /\ \E c \in Containers, z \in Resizes :
       /\ NewRequest("resize", [stored EXCEPT !.limits[c] = z.limits, !.requests[c] = z.requests])
       /\ touched' = touched \cup {c}
  /\ writes' = writes + 1
  /\ UNCHANGED <<world, stored, metrics, edits, storedTouched, mutatedBy, origin, steady>>

Invoke ==
  /\ phase = "mutating" /\ call.pc = "idle"
  /\ \E h \in Webhooks :
       /\ Callable(h)
       /\ call' = [Idle EXCEPT !.hook = h, !.pc = "label"]
  /\ UNCHANGED <<world, phase, op, count, dirty, pod, stored, metrics, edits, writes, history>>

\* failurePolicy: Fail. An unreachable or timed out webhook rejects the request.
WebhookFails ==
  /\ phase = "mutating" /\ call.pc # "idle" /\ ReadErrors
  /\ phase' = "rejected" /\ call' = Idle
  /\ UNCHANGED <<world, op, count, dirty, pod, stored, metrics, edits, writes, history>>

\* Another mutating webhook writes the resources of a container (a sidecar
\* injected, limits recommended); earlier webhooks may then be reinvoked.
OtherMutator ==
  /\ phase = "mutating" /\ call.pc = "idle" /\ writes < MaxWrites
  /\ \E c \in (IF op = "create" THEN AllContainers ELSE Containers), z \in Resizes :
       /\ pod' = [pod EXCEPT !.limits[c] = z.limits, !.requests[c] = z.requests]
       /\ touched' = touched \cup {c}
       /\ dirty' = IF pod' = pod THEN dirty ELSE {h \in Webhooks : count[h] > 0}
  /\ writes' = writes + 1
  /\ UNCHANGED <<world, phase, op, count, call, stored, metrics, edits, storedTouched, mutatedBy, origin, steady>>

MutationDone ==
  /\ phase = "mutating" /\ call.pc = "idle"
  /\ \A h \in Webhooks : ~Callable(h)
  /\ phase' = "validating"
  /\ UNCHANGED <<world, op, count, dirty, call, pod, stored, metrics, edits, writes, history>>

\* The pod-validating webhook is registered for CREATE and UPDATE of pods (not
\* of pods/resize) that carry the selector's key, outside the operator's namespace.
Validated ==
  /\ op = "create"
  /\ pod.labels[vkey] # NoName
  /\ pod.ns \notin OperatorNamespaces

SkipValidation ==
  /\ phase = "validating" /\ ~Validated
  /\ phase' = "admitted"
  /\ UNCHANGED <<world, op, count, dirty, call, pod, stored, metrics, edits, writes, history>>

\* PodCustomValidator.ValidateCreate reads the label key, under which the pod may
\* carry no label after all,
ReadValidatedLabel ==
  /\ phase = "validating" /\ Validated
  /\ LET name == pod.labels[key] IN
       \/ name # NoName /\ phase' = "checking" /\ call' = [Idle EXCEPT !.name = name]
       \/ (name = NoName \/ ReadErrors) /\ phase' = "rejected" /\ UNCHANGED call
  /\ UNCHANGED <<world, op, count, dirty, pod, stored, metrics, edits, writes, history>>

\* and then the class that the label names.
ValidateCreate ==
  /\ phase = "checking"
  /\ \/ Exists(call.name) /\ phase' = "admitted"
     \/ (~Exists(call.name) \/ ReadErrors) /\ phase' = "rejected"
  /\ call' = Idle
  /\ UNCHANGED <<world, op, count, dirty, pod, stored, metrics, edits, writes, history>>

Persist ==
  /\ phase = "admitted"
  /\ phase' = "stored" /\ stored' = pod /\ storedTouched' = touched
  /\ UNCHANGED <<world, op, count, dirty, call, pod, metrics, edits, writes,
                 touched, mutatedBy, origin, steady>>

\* A rejected resize leaves the persisted pod as it was.
KeepStored ==
  /\ phase = "rejected" /\ op = "resize"
  /\ phase' = "stored" /\ pod' = stored /\ touched' = storedTouched
  /\ UNCHANGED <<world, op, count, dirty, call, stored, metrics, edits, writes,
                 storedTouched, mutatedBy, origin, steady>>

-----------------------------------------------------------------------------
(* Users and the operator's controllers                                    *)

Edit ==
  /\ edits < MaxEdits
  /\ edits' = edits + 1
  /\ UNCHANGED <<request, pod, stored, metrics, writes, history>>

\* A class is created or updated (its spec has passed validation) or deleted.
PutClass ==
  /\ Edit
  /\ \E n \in Names, s \in Specs : classes' = [classes EXCEPT ![n] = s]
  /\ UNCHANGED <<nsLabels, key, vkey, hooks>>

DeleteClass ==
  /\ Edit
  /\ \E n \in Names : Exists(n) /\ classes' = [classes EXCEPT ![n] = NoClass]
  /\ UNCHANGED <<nsLabels, key, vkey, hooks>>

LabelNamespace ==
  /\ Edit
  /\ \E ns \in Namespaces, k \in Keys, n \in Names \cup {NoName} :
       nsLabels' = [nsLabels EXCEPT ![ns][k] = n]
  /\ UNCHANGED <<classes, key, vkey, hooks>>

\* The label key of the Overcommit object changes. The pod-validating webhook
\* keeps the selector it was created with.
ChangeLabelKey ==
  /\ Edit
  /\ \E k \in Keys \ {key} : key' = k
  /\ UNCHANGED <<classes, nsLabels, vkey, hooks>>

\* The class controller reconciles the class's MutatingWebhookConfiguration:
\* created when missing, replaced when the number of webhooks or a match
\* condition differs (webhookChanged), otherwise left alone, selectors included.
SyncWebhookConfiguration(n) ==
  /\ Exists(n)
  /\ LET want == WebhookConfiguration(n)
         have == hooks[n]
     IN /\ \/ have = NoHook
           \/ have # NoHook /\ (have.isDefault # want.isDefault \/ have.excluded # want.excluded)
        /\ hooks' = [hooks EXCEPT ![n] = want]
  /\ UNCHANGED <<classes, nsLabels, key, vkey, request, pod, stored, metrics, edits, writes, history>>

\* The configuration of a deleted class is garbage collected.
CollectWebhookConfiguration(n) ==
  /\ ~Exists(n) /\ hooks[n] # NoHook
  /\ hooks' = [hooks EXCEPT ![n] = NoHook]
  /\ UNCHANGED <<classes, nsLabels, key, vkey, request, pod, stored, metrics, edits, writes, history>>

\* Cluster states in which every class's webhooks are registered.
Init ==
  /\ classes \in [Names -> Specs \cup {NoClass}]
  /\ nsLabels \in [Namespaces -> Labels]
  /\ key \in Keys /\ vkey = key
  /\ hooks = [n \in Names |-> WebhookConfiguration(n)]
  /\ phase = "absent" /\ op = "create"
  /\ pod = NoPod /\ stored = NoPod
  /\ count = [h \in Webhooks |-> 0] /\ dirty = {} /\ call = Idle
  /\ metrics = [requested |-> [n \in Names |-> 0],
                mutated |-> [n \in Names |-> 0],
                podMutated |-> [n \in Names |-> 0]]
  /\ edits = 0 /\ writes = 0
  /\ touched = {} /\ storedTouched = {} /\ mutatedBy = {}
  /\ submitted = NoPod /\ since = 0 /\ steady = FALSE

Answer ==
  \/ Invoke
  \/ ReadOvercommitLabel \/ ReadPodClass \/ ReadNamespace
  \/ ReadNamespaceClass \/ ReadDefaultClass
  \/ OvercommitSkip \/ Overcommit \/ OvercommitOnResize
  \/ MutationDone \/ SkipValidation
  \/ ReadValidatedLabel \/ ValidateCreate \/ Persist \/ KeepStored

Sync == \E n \in Names : SyncWebhookConfiguration(n) \/ CollectWebhookConfiguration(n)

Environment ==
  \/ CreatePod \/ ResizePod \/ OtherMutator \/ WebhookFails
  \/ PutClass \/ DeleteClass \/ LabelNamespace \/ ChangeLabelKey

Next == Answer \/ Sync \/ Environment

Spec == Init /\ [][Next]_vars /\ WF_vars(Answer)

-----------------------------------------------------------------------------
(* Properties                                                              *)

CallState ==
  [hook : (Names \cup {NoName}) \X {"label", "default", "none"},
   pc : {"idle", "label", "class", "namespace", "nsClass", "default", "apply"},
   key : Keys \cup {NoName}, name : Names \cup {NoName}, res : Resolution]

Counter == [Names -> Nat]

\* Type correctness of every variable; an invocation in progress always knows
\* the webhook it runs in and, once the label key is read, that key.
TypeOK ==
  /\ classes \in [Names -> ClassSpec \cup {NoClass}]
  /\ nsLabels \in [Namespaces -> Labels]
  /\ key \in Keys /\ vkey \in Keys
  /\ hooks \in [Names -> HookConfig \cup {NoHook}]
  /\ phase \in {"absent", "mutating", "validating", "checking", "admitted", "stored",
               "rejected"}
  /\ op \in {"create", "resize"}
  /\ pod \in Pod \cup {NoPod} /\ stored \in Pod \cup {NoPod}
  /\ count \in [Webhooks -> 0 .. 2] /\ dirty \subseteq Webhooks
  /\ call \in CallState
  /\ metrics \in [requested : Counter, mutated : Counter, podMutated : Counter]
  /\ edits \in 0 .. MaxEdits /\ writes \in 0 .. MaxWrites
  /\ touched \subseteq AllContainers /\ storedTouched \subseteq AllContainers
  /\ mutatedBy \subseteq Names
  /\ submitted \in Pod \cup {NoPod} /\ since \in 0 .. MaxEdits /\ steady \in BOOLEAN

\* Whatever classes, reinvocations, resizes and read errors the pod meets, the
\* webhooks never turn a pod the API server would accept into one it must
\* reject: no request exceeds its limit (mutateContainers scales the limit).
RequestsWithinLimits ==
  \A p \in {pod, stored} \ {NoPod} : \A c \in AllContainers :
    Fits(p.limits[c], p.requests[c])

Explained(p, cs) ==
  \A c \in cs, r \in Resources :
    p.ratio[r] # Unit /\ p.limits[c][r] # Absent =>
      p.requests[c][r] = Scale(p.limits[c][r], p.ratio[r])

\* A ratio below 1 in the pod's annotations is the ratio of its requests: every
\* container whose resources nobody else wrote since the last application has
\* exactly the limit scaled once by it, so no sequence of reinvocations, class
\* changes or resizes compounds ratios. Init containers are left out: a resize
\* rewrites the annotations without them.
AnnotationExplainsRequests ==
  /\ pod # NoPod => Explained(pod, Containers \ touched)
  /\ stored # NoPod => Explained(stored, Containers \ storedTouched)

\* The class the README's label resolution priority gives the pod: the pod's
\* label, else the namespace's, else a default class.
PriorityClasses ==
  IF pod.labels[key] # NoName THEN {pod.labels[key]}
  ELSE IF nsLabels[pod.ns][key] # NoName THEN {nsLabels[pod.ns][key]}
  ELSE DefaultClasses

Applicable == {n \in PriorityClasses : Exists(n)}

Excludes(n) == pod.ns \in classes[n].excluded

\* Does a registered webhook see the pod at all? The class of its label or, for
\* a pod without one, a default class must not exclude the namespace.
Served ==
  \E n \in IF pod.labels[key] # NoName THEN {pod.labels[key]} ELSE DefaultClasses :
    Exists(n) /\ ~Excludes(n)

\* A creation during which nothing was edited and no read failed, of a pod that
\* carries no annotation yet.
CalmCreation ==
  /\ phase = "stored" /\ op = "create"
  /\ steady /\ edits = since
  /\ submitted.applied = NoName

\* What a calm creation yields, however the webhooks are ordered and reinvoked: a
\* labelled pod is stored only if its class exists; a served pod carries the class
\* of the documented priority with that class's ratios, if that class does not
\* exclude the namespace; without such a class nothing is scaled; and a pod that
\* no webhook serves and that no class claims carries no annotation. Nothing is
\* said where code and documents part: of a class that excludes the namespace of a
\* pod another class's webhook serves (see ExcludedUntouched), and of a class the
\* namespace names while no webhook serves its pods.
CalmOutcome ==
  CalmCreation =>
    /\ pod.labels[key] # NoName /\ pod.ns \notin OperatorNamespaces => Exists(pod.labels[key])
    /\ Served /\ Applicable # {} /\ (\A n \in Applicable : ~Excludes(n)) =>
         /\ pod.applied \in Applicable
         /\ pod.ratio = classes[pod.applied].ratio
    /\ Applicable = {} => pod.applied = NoName \/ pod.ratio = NoOp
    /\ ~Served /\ (\A n \in Applicable : Excludes(n)) => pod.applied = NoName

\* Once the pod is stored no resize changes the resources of its init
\* containers (OvercommitOnResize mutates the regular containers only).
StoredInitContainersStable ==
  [][stored # NoPod =>
       \A c \in InitContainers :
         /\ stored'.limits[c] = stored.limits[c]
         /\ stored'.requests[c] = stored.requests[c]]_vars

\* Every creation or resize is answered: reinvocation is bounded and no read
\* blocks the webhook.
EveryRequestAnswered == phase = "mutating" ~> phase \in {"stored", "rejected"}

\* The calls of an invocation in the order it may come to them.
Place == [pc \in {"idle", "label", "class", "namespace", "nsClass", "default", "apply"} |->
  CASE pc = "idle" -> 0 [] pc = "label" -> 1 [] pc = "class" -> 2 [] pc = "namespace" -> 3
    [] pc \in {"nsClass", "default"} -> 4 [] pc = "apply" -> 5]

\* Why every request is answered: while its pod is mutated, each step of a webhook
\* is a later call of the invocation than the one before, or the first or second
\* answer of that webhook, whatever others do to cluster and pod in between. No
\* fallback reads again what was read, and no reinvocation causes another for ever.
MutationAdvances ==
  [][phase = "mutating" /\ phase' = "mutating" =>
       \/ UNCHANGED <<count, call>>
       \/ UNCHANGED count /\ Place[call'.pc] > Place[call.pc]
       \/ /\ call.hook \in Webhooks /\ count[call.hook] < 2
          /\ count' = [count EXCEPT ![call.hook] = @ + 1]
          /\ call' = Idle]_vars

\* The strengthening that makes the invariants above inductive: an invocation
\* in progress belongs to a registered kind of webhook that may still answer,
\* and the object between requests is the stored one.
Progress ==
  /\ phase # "absent" => pod \in Pod
  /\ op = "resize" \/ phase = "stored" => stored \in Pod
  /\ phase = "stored" => pod = stored /\ touched = storedTouched
  /\ call.pc # "idle" =>
       phase = "mutating" /\ call.hook \in Webhooks /\ count[call.hook] <= 1
  /\ call.pc \in {"class", "namespace", "nsClass", "default"} => call.key \in Keys

Inv ==
  TypeOK /\ Progress /\ RequestsWithinLimits /\ AnnotationExplainsRequests

\* A resize works on a copy of the stored pod that differs in regular containers
\* only, and there is no stored pod but after a creation.
InitContainersKept ==
  /\ stored # NoPod => phase # "absent" /\ (op = "resize" \/ phase = "stored")
  /\ op = "resize" =>
       \A c \in InitContainers :
         pod.limits[c] = stored.limits[c] /\ pod.requests[c] = stored.requests[c]

-----------------------------------------------------------------------------
(* The strengthening for CalmOutcome                                       *)

\* A creation that has been calm so far.
Calm ==
  /\ phase # "absent" /\ op = "create"
  /\ steady /\ edits = since
  /\ submitted.applied = NoName

Synced == vkey = key /\ hooks = [n \in Names |-> WebhookConfiguration(n)]

\* Is webhook h meant for the pod, as the classes are now?
Serves(h) ==
  /\ Exists(h[1]) /\ ~Excludes(h[1])
  /\ IF h[2] = "label" THEN pod.labels[key] = h[1]
     ELSE pod.labels[key] = NoName /\ h[1] \in DefaultClasses

\* The name and the ratios the priority gives, or the ratios of none.
Documented(name, ratio) ==
  IF Applicable = {} THEN ratio = NoOp
  ELSE name \in Applicable /\ ratio = classes[name].ratio

\* What the invocation in progress has read is still so.
ReadsCurrent ==
  call.pc # "idle" =>
    /\ Serves(call.hook)
    /\ call.pc \in {"class", "namespace", "nsClass", "default"} => call.key = key
    /\ call.pc = "class" => call.name = pod.labels[key] /\ call.name # NoName
    /\ call.pc \in {"namespace", "nsClass", "default"} => pod.labels[key] = NoName
    /\ call.pc = "nsClass" => call.name = nsLabels[pod.ns][key] /\ call.name # NoName
    /\ call.pc = "default" => nsLabels[pod.ns][key] = NoName
    /\ call.pc = "apply" => Documented(ClassName, call.res.ratio)

\* An annotation is the documented one; every webhook called has left one, and in
\* the end every webhook meant for the pod was called.
AnnotationDocumented ==
  /\ pod.applied # NoName => Served /\ Documented(pod.applied, pod.ratio)
  /\ \A h \in Webhooks : count[h] > 0 => pod.applied # NoName
  /\ phase \in {"validating", "checking", "admitted", "stored"} /\ Served => pod.applied # NoName

LabelValidated ==
  /\ phase = "checking" => call.name = pod.labels[key]
  /\ phase \in {"admitted", "stored"} /\ pod.labels[key] # NoName
       /\ pod.ns \notin OperatorNamespaces => Exists(pod.labels[key])

CalmInv ==
  /\ since <= edits
  /\ Calm => Synced /\ ReadsCurrent /\ AnnotationDocumented /\ LabelValidated

-----------------------------------------------------------------------------
(* What a comment and a document say, and the code does not do.            *)

\* make_overcommit.go:64, "skip if this pod was already mutated by this class".
SkipOnlyIfMutated ==
  InCall("apply") /\ op = "create" /\ Skipped => ClassName \in mutatedBy

\* architecture.md:94-96, of the class that was found for a pod, "Namespace
\* excluded?", yes: "Skip overcommit - no modification". A calm creation that finds
\* only classes that exclude the pod's namespace leaves the pod alone.
ExcludedUntouched ==
  CalmCreation /\ Applicable # {} /\ (\A n \in Applicable : Excludes(n)) =>
    pod.applied = NoName
=============================================================================
