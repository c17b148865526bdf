-------------------------- MODULE PodOutcomeProofs --------------------------
(***************************************************************************)
(* What a pod looks like once it is stored: resizes leave its init         *)
(* containers alone, and a creation that nothing disturbs gives the pod    *)
(* what the label resolution priority documents.                           *)
(***************************************************************************)
EXTENDS PodAdmissionProofs

-----------------------------------------------------------------------------
(* Resizes and init containers                                             *)

\* Two objects with the same resources of init containers.
SameInitContainers(p, q) ==
  \A c \in InitContainers : p.limits[c] = q.limits[c] /\ p.requests[c] = q.requests[c]

LEMMA InitContainersApart ==
  \A c \in InitContainers : c \in AllContainers /\ c \notin Containers
BY ContainersAssumption DEF AllContainers

\* Writing the resources of a regular container leaves the others alone.
LEMMA WritesRegularOnly ==
  ASSUME NEW p \in Pod, NEW c \in Containers, NEW z \in Resizes
  PROVE  SameInitContainers([p EXCEPT !.limits[c] = z.limits, !.requests[c] = z.requests], p)
BY InitContainersApart DEF Pod, SameInitContainers

\* mutateContainers over the regular containers leaves the others alone.
LEMMA MutatesRegularOnly ==
  ASSUME Inv, InCall("apply")
  PROVE  SameInitContainers(Annotated(mutateContainers(Containers, call.res.ratio)), pod)
<1> DEFINE p == Annotated(mutateContainers(Containers, call.res.ratio))
<1>1. pod \in Pod
  BY DEF Inv, InCall, Progress
<1>2. p.limits = pod.limits /\ p.requests = mutateContainers(Containers, call.res.ratio)
  BY <1>1 DEF Annotated, Pod
<1>3. ASSUME NEW c \in InitContainers
      PROVE  mutateContainers(Containers, call.res.ratio)[c] = pod.requests[c]
  <2>1. c \in AllContainers /\ c \notin Containers
    BY InitContainersApart
  <2>2. pod.requests[c] = [r \in Resources |-> pod.requests[c][r]]
    BY <1>1, <2>1 DEF Pod, ResourceLists
  <2> QED BY <2>1, <2>2 DEF mutateContainers
<1> QED BY <1>2, <1>3 DEF SameInitContainers

\* While a pod is stored and no resize is under way, nothing but the next resize
\* touches it: only Persist replaces the stored object.
LEMMA InitContainersPreserved ==
  Inv /\ InitContainersKept /\ [Next]_vars => InitContainersKept'
<1> SUFFICES ASSUME Inv, InitContainersKept, [Next]_vars PROVE InitContainersKept'
  OBVIOUS
<1>1. InitContainersKept <=>
        /\ stored # NoPod => phase # "absent" /\ (op = "resize" \/ phase = "stored")
        /\ op = "resize" => SameInitContainers(pod, stored)
  BY DEF InitContainersKept, SameInitContainers
<1>2. InitContainersKept' <=>
        /\ stored' # NoPod => phase' # "absent" /\ (op' = "resize" \/ phase' = "stored")
        /\ op' = "resize" => SameInitContainers(pod', stored')
  BY DEF InitContainersKept, SameInitContainers
<1> DEFINE Kept == op' = op /\ stored' = stored /\ phase # "stored" /\ (phase' = phase \/ phase' # "absent")
<1>3. CASE Kept /\ (pod' = pod \/ (op = "resize" => SameInitContainers(pod', pod)))
  BY <1>1, <1>2, <1>3 DEF SameInitContainers
<1>4. CASE op' = op /\ stored' = stored /\ pod' = pod /\ phase' = phase
  BY <1>1, <1>2, <1>4
<1>5. CASE ReadOvercommitLabel \/ ReadPodClass \/ ReadNamespace
           \/ ReadNamespaceClass \/ ReadDefaultClass
  BY <1>4, <1>5 DEF ReadOvercommitLabel, ReadPodClass, ReadNamespace,
     ReadNamespaceClass, ReadDefaultClass, UnchangedByRead
<1>6. CASE OvercommitSkip
  BY <1>3, <1>6 DEF OvercommitSkip, Respond, InCall
<1>7. CASE Overcommit
  BY <1>3, <1>7 DEF Overcommit, Respond, InCall
<1>8. CASE OvercommitOnResize
  BY <1>3, <1>8, MutatesRegularOnly DEF OvercommitOnResize, Respond, InCall
<1>9. CASE \/ Invoke \/ WebhookFails \/ MutationDone \/ SkipValidation
           \/ ReadValidatedLabel \/ ValidateCreate
  BY <1>3, <1>9 DEF Invoke, WebhookFails, MutationDone, SkipValidation, ReadValidatedLabel,
     ValidateCreate
<1>10. CASE Persist \/ KeepStored
  BY <1>2, <1>10 DEF Persist, KeepStored, SameInitContainers
<1>11. CASE CreatePod
  <2>1. op' = "create" /\ stored' = stored /\ phase = "absent"
    BY <1>11 DEF CreatePod, NewRequest
  <2>2. stored = NoPod
    BY <1>1, <2>1
  <2> QED BY <1>2, <2>1, <2>2
<1>12. CASE ResizePod
  <2>1. stored \in Pod
    BY <1>12 DEF Inv, Progress, ResizePod
  <2>2. phase' = "mutating" /\ op' = "resize" /\ stored' = stored
        /\ SameInitContainers(pod', stored)
    BY <1>12, <2>1, WritesRegularOnly DEF ResizePod, NewRequest
  <2> QED BY <1>2, <2>2
<1>13. CASE OtherMutator
  <2>1. pod \in Pod
    BY <1>13 DEF Inv, Progress, OtherMutator
  <2>2. op = "resize" => SameInitContainers(pod', pod)
    BY <1>13, <2>1, WritesRegularOnly DEF OtherMutator
  <2> QED BY <1>3, <1>13, <2>2 DEF OtherMutator
<1>14. CASE PutClass \/ DeleteClass \/ LabelNamespace \/ ChangeLabelKey \/ Sync
  BY <1>4, <1>14 DEF PutClass, DeleteClass, LabelNamespace, ChangeLabelKey, Sync, Edit,
     SyncWebhookConfiguration, CollectWebhookConfiguration, request
<1>15. CASE UNCHANGED vars
  BY <1>4, <1>15 DEF vars, request
<1> QED
  BY <1>5, <1>6, <1>7, <1>8, <1>9, <1>10, <1>11, <1>12, <1>13, <1>14, <1>15
  DEF Next, Answer, Environment

\* No sequence of resizes, reinvocations and class changes rewrites the init
\* containers of a stored pod (OvercommitOnResize).
THEOREM InitContainersStable == Spec => StoredInitContainersStable
<1>1. Init => InitContainersKept
  BY DEF Init, InitContainersKept
<1>2. InitContainersKept /\ [Next]_vars =>
        [stored # NoPod => \A c \in InitContainers :
           /\ stored'.limits[c] = stored.limits[c]
           /\ stored'.requests[c] = stored.requests[c]]_vars
  <2> SUFFICES ASSUME InitContainersKept, [Next]_vars, stored # NoPod
               PROVE  SameInitContainers(stored', stored)
    BY DEF SameInitContainers
  <2>1. CASE Persist
    BY <2>1 DEF Persist, InitContainersKept, SameInitContainers
  <2>2. CASE stored' = stored
    BY <2>2 DEF SameInitContainers
  <2>3. Persist \/ stored' = stored
    BY DEF Next, Answer, Sync, Environment, vars, Invoke, ReadOvercommitLabel, ReadPodClass,
       ReadNamespace, ReadNamespaceClass, ReadDefaultClass, UnchangedByRead,
       OvercommitSkip, Overcommit, OvercommitOnResize, Respond, MutationDone,
       SkipValidation, ReadValidatedLabel, ValidateCreate, KeepStored, SyncWebhookConfiguration,
       CollectWebhookConfiguration, CreatePod, ResizePod, OtherMutator, WebhookFails,
       PutClass, DeleteClass, LabelNamespace, ChangeLabelKey, Edit
  <2> QED BY <2>1, <2>2, <2>3
<1> QED
  BY <1>1, <1>2, InitContainersPreserved, Invariance, PTL DEF Spec, StoredInitContainersStable

-----------------------------------------------------------------------------
(* The outcome of a calm creation                                          *)

\* What a calm creation relies on.
Calmly == Synced /\ ReadsCurrent /\ AnnotationDocumented /\ LabelValidated

\* The pod is met by a webhook exactly if some webhook is meant for it.
LEMMA ServedBySomeHook ==
  ASSUME TypeOK, pod \in Pod
  PROVE  Served <=> \E h \in Webhooks : Serves(h)
<1>1. pod.labels[key] \in Names \cup {NoName}
  BY DEF TypeOK, Pod, Labels
<1>2. ASSUME Served PROVE \E h \in Webhooks : Serves(h)
  <2>1. PICK n \in IF pod.labels[key] # NoName THEN {pod.labels[key]} ELSE DefaultClasses :
          Exists(n) /\ ~Excludes(n)
    BY <1>2 DEF Served
  <2>2. CASE pod.labels[key] # NoName
    <3>1. <<n, "label">> \in Webhooks
      BY <2>1 DEF Webhooks, Exists
    <3>2. Serves(<<n, "label">>)
      BY <2>1, <2>2 DEF Serves
    <3> QED BY <3>1, <3>2
  <2>3. CASE pod.labels[key] = NoName
    <3>1. <<n, "default">> \in Webhooks
      BY <2>1 DEF Webhooks, Exists
    <3>2. Serves(<<n, "default">>)
      BY <2>1, <2>3 DEF Serves
    <3> QED BY <3>1, <3>2
  <2> QED BY <2>2, <2>3
<1>3. ASSUME NEW h \in Webhooks, Serves(h) PROVE Served
  <2>1. CASE h[2] = "label"
    BY <1>3, <2>1, SentinelAssumption DEF Serves, Served, Exists
  <2>2. CASE h[2] # "label"
    BY <1>3, <2>2 DEF Serves, Served
  <2> QED BY <2>1, <2>2
<1> QED BY <1>2, <1>3

LEMMA ConfigurationOfClass ==
  ASSUME TypeOK, NEW n \in Names
  PROVE  /\ Exists(n) <=> WebhookConfiguration(n) # NoHook
         /\ Exists(n) => /\ WebhookConfiguration(n).isDefault = classes[n].isDefault
                         /\ WebhookConfiguration(n).excluded = classes[n].excluded
                         /\ WebhookConfiguration(n).key = key
<1>1. Exists(n) <=> classes[n] # NoClass
  BY DEF Exists
<1>2. CASE classes[n] = NoClass
  BY <1>1, <1>2 DEF WebhookConfiguration
<1>3. CASE classes[n] # NoClass
  <2> DEFINE w == [isDefault |-> classes[n].isDefault, excluded |-> classes[n].excluded,
                   key |-> key]
  <2>1. w \in HookConfig
    BY <1>3 DEF TypeOK, ClassSpec, HookConfig
  <2>2. WebhookConfiguration(n) = w
    BY <1>3 DEF WebhookConfiguration
  <2> QED BY <1>1, <1>3, <2>1, <2>2, SentinelAssumption
<1> QED BY <1>2, <1>3

\* In a synced cluster the registered webhooks match the pods they are meant for.
LEMMA SyncedHooksMatch ==
  ASSUME TypeOK, Synced, NEW h \in Webhooks
  PROVE  Matches(h) <=> Serves(h)
<1>1. h[1] \in Names
  BY DEF Webhooks
<1>2. hooks[h[1]] = WebhookConfiguration(h[1])
  BY <1>1 DEF Synced
<1>3. h[1] \in DefaultClasses <=> Exists(h[1]) /\ classes[h[1]].isDefault
  BY <1>1 DEF DefaultClasses, Exists
<1> QED BY <1>1, <1>2, <1>3, ConfigurationOfClass DEF Matches, Serves, Excludes

\* A step that leaves the cluster alone changes no answer about the pod.
LEMMA SameAnswers ==
  ASSUME UNCHANGED world, pod'.labels = pod.labels, pod'.ns = pod.ns
  PROVE  /\ Synced' <=> Synced
         /\ Served' <=> Served
         /\ Applicable' = Applicable
         /\ \A n : Exists(n)' <=> Exists(n)
         /\ \A h : Serves(h)' <=> Serves(h)
         /\ \A name, ratio : Documented(name, ratio)' <=> Documented(name, ratio)
<1> USE DEF world
<1>1. \A n : Exists(n)' <=> Exists(n)
  BY DEF Exists
<1>2. DefaultClasses' = DefaultClasses
  BY DEF DefaultClasses
<1>3. PriorityClasses' = PriorityClasses
  BY <1>2 DEF PriorityClasses
<1>8. Applicable' = Applicable
  BY <1>1, <1>3 DEF Applicable
<1>4. Synced' <=> Synced
  BY DEF Synced, WebhookConfiguration
<1>5. Served' <=> Served
  BY <1>2 DEF Served, Exists, Excludes
<1>6. \A h : Serves(h)' <=> Serves(h)
  BY <1>2 DEF Serves, Exists, Excludes
<1>7. \A name, ratio : Documented(name, ratio)' <=> Documented(name, ratio)
  BY <1>8 DEF Documented
<1> QED BY <1>1, <1>4, <1>5, <1>6, <1>7, <1>8

\* A read that keeps the creation calm leaves everything but the call as it was.
LEMMA CalmRead ==
  ASSUME Inv, CalmInv, UnchangedByRead, InCall(call.pc),
         steady' = steady \/ steady' = FALSE,
         Calm /\ Calm' => ReadsCurrent'
  PROVE  CalmInv'
<1>1. UNCHANGED <<world, phase, op, count, pod, edits, submitted, since>>
  BY DEF UnchangedByRead, origin
<1>2. SUFFICES ASSUME Calm' PROVE Calmly'
  BY <1>1 DEF CalmInv, Calmly
<1>3. Calm
  BY <1>1, <1>2 DEF Calm
<1>4. Synced' /\ AnnotationDocumented'
  BY <1>1, <1>3, SameAnswers DEF CalmInv, AnnotationDocumented
<1>5. LabelValidated'
  BY <1>1 DEF LabelValidated, InCall
<1> QED BY <1>2, <1>3, <1>4, <1>5 DEF Calmly

\* What an invocation that nothing disturbs has read stays current.
LEMMA CalmReads ==
  ASSUME Inv, CalmInv,
         \/ ReadOvercommitLabel \/ ReadPodClass \/ ReadNamespace
         \/ ReadNamespaceClass \/ ReadDefaultClass
  PROVE  CalmInv'
<1>1. /\ UnchangedByRead /\ InCall(call.pc) /\ call.pc # "idle"
      /\ steady' = steady \/ steady' = FALSE
  BY DEF ReadOvercommitLabel, ReadPodClass, ReadNamespace, ReadNamespaceClass,
     ReadDefaultClass, InCall, Goto, Resolve, GiveUp, FailTo
<1>2. SUFFICES ASSUME Calm, Calm' PROVE ReadsCurrent'
  BY <1>1, CalmRead
<1>3. /\ steady' = TRUE /\ steady' = steady
      /\ UNCHANGED <<world, pod>>
  BY <1>1, <1>2 DEF Calm, UnchangedByRead
<1>4. /\ ReadsCurrent /\ call \in CallState /\ call.hook \in Webhooks /\ pod \in Pod
      /\ pod.labels[key] \in Names \cup {NoName} /\ call.res \in Resolution
  BY <1>1, <1>2 DEF CalmInv, Inv, TypeOK, Progress, InCall, Pod, Labels, CallState
<1>5. Serves(call.hook)
  BY <1>1, <1>4 DEF ReadsCurrent
<1>6. call'.hook = call.hook => Serves(call.hook)'
  BY <1>3, <1>5 DEF Serves, Exists, Excludes, DefaultClasses, world
<1>7. \A newCall : Goto(newCall) => call' = newCall
  BY DEF Goto
<1>8. \A newCall : ~FailTo(newCall)
  BY <1>3 DEF FailTo
<1>9. ASSUME NEW res, call' = [call EXCEPT !.pc = "apply", !.res = res],
             LET name == IF res.className = NoName THEN call.hook[1] ELSE res.className
             IN  Documented(name, res.ratio)
      PROVE  ReadsCurrent'
  <2>1. call'.pc = "apply" /\ call'.hook = call.hook /\ call'.res = res
    BY <1>4, <1>9 DEF CallState
  <2>2. Documented(ClassName', res.ratio)
    BY <1>9, <2>1 DEF ClassName
  <2>3. Documented(ClassName, call.res.ratio)'
    BY <1>3, <2>1, <2>2 DEF Documented, Applicable, PriorityClasses, DefaultClasses, Exists, world
  <2> QED BY <1>6, <2>1, <2>3 DEF ReadsCurrent
<1>10. ASSUME NEW n \in Names, Exists(n), n \in PriorityClasses,
              call' = [call EXCEPT !.pc = "apply", !.res = ResolvedTo(n)]
       PROVE  ReadsCurrent'
  <2>1. ResolvedTo(n).className = n /\ ResolvedTo(n).ratio = classes[n].ratio
    BY DEF ResolvedTo
  <2>2. n # NoName
    BY SentinelAssumption
  <2>3. n \in Applicable
    BY <1>10 DEF Applicable
  <2> QED BY <1>9, <1>10, <2>1, <2>2, <2>3 DEF Documented
<1>11. ASSUME ~ \E n \in PriorityClasses : Exists(n),
              call' = [call EXCEPT !.pc = "apply", !.res = Unresolved]
       PROVE  ReadsCurrent'
  <2>1. Applicable = {} /\ Unresolved.ratio = NoOp
    BY <1>11 DEF Applicable, Unresolved
  <2> QED BY <1>9, <1>11, <2>1 DEF Documented
<1>12. CASE ReadOvercommitLabel
  <2>1. CASE pod.labels[key] # NoName
    <3>1. call' = [call EXCEPT !.pc = "class", !.key = key, !.name = pod.labels[key]]
      BY <1>7, <1>8, <1>12, <2>1 DEF ReadOvercommitLabel, GiveUp
    <3>2. call'.pc = "class" /\ call'.key = key /\ call'.name = pod.labels[key]
          /\ call'.hook = call.hook
      BY <1>4, <3>1 DEF CallState
    <3> QED BY <1>3, <1>6, <2>1, <3>2 DEF ReadsCurrent, world
  <2>2. CASE pod.labels[key] = NoName
    <3>1. call' = [call EXCEPT !.pc = "namespace", !.key = key]
      BY <1>7, <1>8, <1>12, <2>2 DEF ReadOvercommitLabel, GiveUp
    <3>2. call'.pc = "namespace" /\ call'.key = key /\ call'.hook = call.hook
      BY <1>4, <3>1 DEF CallState
    <3> QED BY <1>3, <1>6, <2>2, <3>2 DEF ReadsCurrent, world
  <2> QED BY <2>1, <2>2
<1>13. CASE ReadPodClass
  <2>1. call.pc = "class" /\ call.name = pod.labels[key] /\ call.name # NoName
    BY <1>13, <1>4 DEF ReadPodClass, InCall, ReadsCurrent
  <2>2. Exists(call.name)
    BY <1>5, <2>1 DEF Serves
  <2>3. call' = [call EXCEPT !.pc = "apply", !.res = ResolvedTo(call.name)]
    BY <1>7, <1>8, <1>13, <2>2 DEF ReadPodClass, Resolve
  <2>4. call.name \in PriorityClasses /\ call.name \in Names
    BY <2>1, <2>2 DEF PriorityClasses, Exists
  <2> QED BY <1>10, <2>2, <2>3, <2>4
<1>14. CASE ReadNamespace
  <2>1. call.pc = "namespace" /\ call.key = key /\ pod.labels[key] = NoName
    BY <1>14, <1>4 DEF ReadNamespace, InCall, ReadsCurrent
  <2> DEFINE name == nsLabels[pod.ns][key]
  <2>2. CASE name # NoName
    <3>1. call' = [call EXCEPT !.pc = "nsClass", !.name = name]
      BY <1>7, <1>8, <1>14, <2>1, <2>2 DEF ReadNamespace, GiveUp
    <3>2. call'.pc = "nsClass" /\ call'.key = key /\ call'.name = name /\ call'.hook = call.hook
      BY <1>4, <2>1, <3>1 DEF CallState
    <3> QED BY <1>3, <1>6, <2>1, <2>2, <3>2 DEF ReadsCurrent, world
  <2>3. CASE name = NoName
    <3>1. call' = [call EXCEPT !.pc = "default"]
      BY <1>7, <1>8, <1>14, <2>1, <2>3 DEF ReadNamespace, GiveUp
    <3>2. call'.pc = "default" /\ call'.key = key /\ call'.hook = call.hook
      BY <1>4, <2>1, <3>1 DEF CallState
    <3> QED BY <1>3, <1>6, <2>1, <2>3, <3>2 DEF ReadsCurrent, world
  <2> QED BY <2>2, <2>3
<1>15. CASE ReadNamespaceClass
  <2>1. /\ call.pc = "nsClass" /\ pod.labels[key] = NoName
        /\ call.name = nsLabels[pod.ns][key] /\ call.name # NoName
    BY <1>15, <1>4 DEF ReadNamespaceClass, InCall, ReadsCurrent
  <2>2. PriorityClasses = {call.name}
    BY <2>1 DEF PriorityClasses
  <2>3. CASE Exists(call.name)
    <3>1. call' = [call EXCEPT !.pc = "apply", !.res = ResolvedTo(call.name)]
      BY <1>7, <1>8, <1>15, <2>3 DEF ReadNamespaceClass, Resolve, GiveUp
    <3>2. call.name \in Names
      BY <2>3 DEF Exists
    <3> QED BY <1>10, <2>2, <2>3, <3>1, <3>2
  <2>4. CASE ~Exists(call.name)
    <3>1. call' = [call EXCEPT !.pc = "apply", !.res = Unresolved]
      BY <1>7, <1>8, <1>15, <2>4 DEF ReadNamespaceClass, Resolve, GiveUp
    <3> QED BY <1>11, <2>2, <2>4, <3>1
  <2> QED BY <2>3, <2>4
<1>16. CASE ReadDefaultClass
  <2>1. /\ call.pc = "default" /\ pod.labels[key] = NoName
        /\ nsLabels[pod.ns][key] = NoName
    BY <1>16, <1>4 DEF ReadDefaultClass, InCall, ReadsCurrent
  <2>2. PriorityClasses = DefaultClasses
    BY <2>1 DEF PriorityClasses
  <2>3. CASE DefaultClasses = {}
    <3>1. call' = [call EXCEPT !.pc = "apply", !.res = Unresolved]
      BY <1>7, <1>8, <1>16, <2>3 DEF ReadDefaultClass, Resolve, GiveUp
    <3> QED BY <1>11, <2>2, <2>3, <3>1
  <2>4. CASE DefaultClasses # {}
    <3>1. PICK n \in DefaultClasses : Resolve(ResolvedTo(n))
      BY <1>8, <1>16, <2>4 DEF ReadDefaultClass, GiveUp
    <3>2. n \in Names /\ Exists(n)
      BY DEF DefaultClasses, Exists
    <3>3. call' = [call EXCEPT !.pc = "apply", !.res = ResolvedTo(n)]
      BY <1>7, <3>1 DEF Resolve
    <3> QED BY <1>10, <2>2, <3>1, <3>2, <3>3
  <2> QED BY <2>3, <2>4
<1> QED BY <1>12, <1>13, <1>14, <1>15, <1>16

\* The answer of a webhook whose reads are current carries what is documented.
LEMMA CalmAnswers ==
  ASSUME Inv, CalmInv, OvercommitSkip \/ Overcommit \/ OvercommitOnResize
  PROVE  CalmInv'
<1>1. InCall("apply") /\ UNCHANGED <<world, phase, op, edits, submitted, since, steady>>
      /\ call' = Idle
  BY DEF OvercommitSkip, Overcommit, OvercommitOnResize, Respond, origin
<1>2. SUFFICES ASSUME Calm' PROVE Calmly'
  BY <1>1 DEF CalmInv, Calmly
<1>3. Calm /\ op = "create" /\ phase = "mutating" /\ call.pc = "apply"
  BY <1>1, <1>2 DEF Calm, InCall
<1>4. /\ Synced /\ ReadsCurrent /\ AnnotationDocumented
      /\ pod \in Pod /\ call.hook \in Webhooks /\ call.res \in Resolution /\ TypeOK
  BY <1>3 DEF CalmInv, Inv, TypeOK, Progress, CallState
<1>5. ClassName \in Names /\ ClassName # NoName
  BY <1>4, SentinelAssumption DEF ClassName, Resolution, Webhooks
<1>6. Served /\ Documented(ClassName, call.res.ratio)
  BY <1>3, <1>4, ServedBySomeHook DEF ReadsCurrent
<1>7. /\ pod'.labels = pod.labels /\ pod'.ns = pod.ns /\ pod'.applied = ClassName
      /\ Documented(pod'.applied, pod'.ratio)
  <2>1. CASE OvercommitSkip
    <3>1. pod' = pod /\ pod.applied = ClassName
      BY <2>1 DEF OvercommitSkip, Respond, Skipped
    <3> QED BY <3>1, <1>4, <1>5 DEF AnnotationDocumented
  <2>2. CASE Overcommit
    <3> DEFINE m == mutateContainers(AllContainers, call.res.ratio)
    <3>1. pod' = [pod EXCEPT !.requests = m, !.applied = ClassName, !.ratio = call.res.ratio]
      BY <2>2 DEF Overcommit, Respond, Annotated
    <3> HIDE DEF m
    <3>2. /\ pod'.labels = pod.labels /\ pod'.ns = pod.ns /\ pod'.applied = ClassName
          /\ pod'.ratio = call.res.ratio
      BY <3>1, <1>4 DEF Pod
    <3> QED BY <3>2, <1>6
  <2> QED BY <1>3, <2>1, <2>2 DEF OvercommitOnResize
<1>8. Synced' /\ Served' /\ Documented(pod.applied, pod.ratio)'
  <2>1. Synced' /\ Served'
    BY <1>1, <1>4, <1>6, <1>7, SameAnswers
  <2>2. Documented(pod.applied, pod.ratio)'
    BY <1>1, <1>7 DEF Documented, Applicable, PriorityClasses, DefaultClasses, Exists, world
  <2> QED BY <2>1, <2>2
<1>9. ReadsCurrent'
  BY <1>1 DEF ReadsCurrent, Idle
<1>10. AnnotationDocumented'
  BY <1>1, <1>3, <1>5, <1>7, <1>8 DEF AnnotationDocumented
<1>11. LabelValidated'
  BY <1>1, <1>3 DEF LabelValidated
<1> QED BY <1>8, <1>9, <1>10, <1>11 DEF Calmly

\* Mutation ends only when every webhook meant for the pod was called.
LEMMA EveryHookCalled ==
  ASSUME Inv, Synced, AnnotationDocumented, MutationDone, Served
  PROVE  pod.applied # NoName
<1>1. TypeOK /\ pod \in Pod
  BY DEF Inv, Progress, MutationDone
<1>2. PICK h \in Webhooks : Serves(h)
  BY <1>1, ServedBySomeHook
<1>3. Matches(h) /\ ~Callable(h)
  BY <1>1, <1>2, SyncedHooksMatch DEF MutationDone
<1>4. count[h] \in 0 .. 2 /\ count[h] # 0
  BY <1>1, <1>3 DEF Callable, TypeOK
<1> QED BY <1>4 DEF AnnotationDocumented

\* The rest of the admission chain.
LEMMA CalmChain ==
  ASSUME Inv, CalmInv,
         \/ Invoke \/ OtherMutator \/ WebhookFails \/ MutationDone \/ SkipValidation
         \/ ReadValidatedLabel \/ ValidateCreate \/ Persist
  PROVE  CalmInv'
<1>1. /\ UNCHANGED <<world, op, count, edits, submitted, since, steady>>
      /\ phase # "absent"
  BY DEF Invoke, OtherMutator, WebhookFails, MutationDone, SkipValidation, ReadValidatedLabel,
     ValidateCreate, Persist, history, origin
<1>2. SUFFICES ASSUME Calm' PROVE Calmly'
  BY <1>1 DEF CalmInv, Calmly
<1>3. Calm /\ op = "create"
  BY <1>1, <1>2 DEF Calm
<1>4. /\ Synced /\ ReadsCurrent /\ AnnotationDocumented /\ LabelValidated
      /\ pod \in Pod /\ TypeOK
  BY <1>1, <1>3 DEF CalmInv, Inv, Progress
<1>5. /\ pod'.labels = pod.labels /\ pod'.ns = pod.ns
      /\ pod'.applied = pod.applied /\ pod'.ratio = pod.ratio
  <2>1. CASE OtherMutator
    <3>1. PICK c \in AllContainers, z \in Resizes :
            pod' = [pod EXCEPT !.limits[c] = z.limits, !.requests[c] = z.requests]
      BY <2>1 DEF OtherMutator, AllContainers
    <3> QED BY <3>1, <1>4 DEF Pod
  <2>2. CASE ~OtherMutator
    BY <2>2 DEF Invoke, WebhookFails, MutationDone, SkipValidation, ReadValidatedLabel,
       ValidateCreate, Persist
  <2> QED BY <2>1, <2>2
<1>6. /\ Synced' /\ (Served' <=> Served)
      /\ \A n : Exists(n)' <=> Exists(n)
  BY <1>1, <1>4, <1>5, SameAnswers
<1>7. pod.applied # NoName => Served /\ Documented(pod.applied, pod.ratio)'
  BY <1>1, <1>4, <1>5
  DEF AnnotationDocumented, Documented, Applicable, PriorityClasses, DefaultClasses, Exists, world
<1>8. ReadsCurrent'
  <2>1. CASE Invoke
    <3>1. PICK h \in Webhooks : Callable(h) /\ call' = [Idle EXCEPT !.hook = h, !.pc = "label"]
      BY <2>1 DEF Invoke
    <3>2. Serves(h)
      BY <3>1, <1>4, SyncedHooksMatch DEF Callable
    <3>3. call'.hook = h /\ call'.pc = "label"
      BY <3>1 DEF Idle
    <3>4. Serves(call.hook)'
      BY <1>1, <1>5, <3>2, <3>3 DEF Serves, Exists, Excludes, DefaultClasses, world
    <3> QED BY <3>3, <3>4 DEF ReadsCurrent
  <2>2. CASE ~Invoke
    <3>1. call'.pc = "idle"
      <4>1. CASE WebhookFails \/ ValidateCreate
        BY <4>1 DEF WebhookFails, ValidateCreate, Idle
      <4>2. CASE ~(WebhookFails \/ ValidateCreate)
        <5>1. /\ phase # "mutating" \/ call.pc = "idle"
              /\ call' = call \/ call' = [Idle EXCEPT !.name = pod.labels[key]]
          BY <2>2, <4>2 DEF OtherMutator, MutationDone, SkipValidation, ReadValidatedLabel, Persist
        <5> QED BY <5>1 DEF Inv, Progress, Idle
      <4> QED BY <4>1, <4>2
    <3> QED BY <3>1 DEF ReadsCurrent
  <2> QED BY <2>1, <2>2
<1>9. AnnotationDocumented'
  <2>1. phase' \in {"validating", "checking", "admitted", "stored"} /\ Served => pod.applied # NoName
    <3>1. CASE MutationDone
      BY <3>1, <1>4, EveryHookCalled
    <3>2. CASE ~MutationDone
      BY <3>2, <1>4 DEF Invoke, OtherMutator, WebhookFails, SkipValidation,
         ReadValidatedLabel, ValidateCreate, Persist, AnnotationDocumented
    <3> QED BY <3>1, <3>2
  <2> QED BY <1>1, <1>4, <1>5, <1>6, <1>7, <2>1 DEF AnnotationDocumented
<1>10. LabelValidated'
  <2>1. phase' = "checking" => call'.name = pod.labels[key]
    BY <1>4 DEF Invoke, OtherMutator, WebhookFails, MutationDone, SkipValidation,
       ReadValidatedLabel, ValidateCreate, Persist, LabelValidated, Idle
  <2>2. phase' \in {"admitted", "stored"} /\ pod.labels[key] # NoName
        /\ pod.ns \notin OperatorNamespaces => Exists(pod.labels[key])
    <3>1. CASE SkipValidation \/ ValidateCreate
      BY <3>1, <1>3, <1>4 DEF SkipValidation, ValidateCreate, Validated, Synced, LabelValidated
    <3>2. CASE ~(SkipValidation \/ ValidateCreate)
      BY <3>2, <1>4 DEF Invoke, OtherMutator, WebhookFails, MutationDone, ReadValidatedLabel,
         Persist, LabelValidated
    <3> QED BY <3>1, <3>2
  <2> QED BY <1>1, <1>5, <2>1, <2>2 DEF LabelValidated, Exists, world
<1> QED BY <1>6, <1>8, <1>9, <1>10 DEF Calmly

\* A request that is not, or no longer, a creation is not a calm creation.
LEMMA CalmRequests ==
  ASSUME Inv, CalmInv, CreatePod \/ ResizePod \/ KeepStored
  PROVE  CalmInv'
<1>1. CASE ResizePod \/ KeepStored
  BY <1>1 DEF ResizePod, KeepStored, NewRequest, CalmInv, Calm, origin
<1>2. CASE CreatePod
  <2>1. /\ phase' = "mutating" /\ call' = Idle /\ count' = [h \in Webhooks |-> 0]
        /\ submitted' = pod' /\ since' = edits /\ edits' = edits /\ UNCHANGED world
        /\ steady' = (vkey = key /\ hooks = [n \in Names |-> WebhookConfiguration(n)])
    BY <1>2 DEF CreatePod, NewRequest
  <2>2. since' <= edits'
    BY <2>1 DEF Inv, TypeOK
  <2>3. ASSUME Calm' PROVE Calmly'
    <3>1. Synced'
      BY <2>1, <2>3 DEF Calm, Synced, WebhookConfiguration, world
    <3>2. ReadsCurrent' /\ LabelValidated'
      BY <2>1 DEF ReadsCurrent, LabelValidated, Idle
    <3>3. AnnotationDocumented'
      BY <2>1, <2>3 DEF AnnotationDocumented, Calm
    <3> QED BY <3>1, <3>2, <3>3 DEF Calmly
  <2> QED BY <2>2, <2>3 DEF CalmInv, Calmly
<1> QED BY <1>1, <1>2

\* An edit ends the calm, and a synced cluster has nothing to reconcile.
LEMMA CalmWorld ==
  ASSUME Inv, CalmInv, PutClass \/ DeleteClass \/ LabelNamespace \/ ChangeLabelKey \/ Sync
  PROVE  CalmInv'
<1>1. edits \in Nat /\ since <= edits /\ since \in Nat /\ TypeOK
  BY BoundsAssumption DEF CalmInv, Inv, TypeOK
<1>2. CASE PutClass \/ DeleteClass \/ LabelNamespace \/ ChangeLabelKey
  <2>1. edits' = edits + 1 /\ since' = since
    BY <1>2 DEF PutClass, DeleteClass, LabelNamespace, ChangeLabelKey, Edit, history, origin
  <2>2. since' <= edits' /\ edits' # since'
    BY <1>1, <2>1
  <2> QED BY <2>2 DEF CalmInv, Calm
<1>3. CASE Sync
  <2>1. UNCHANGED <<phase, op, edits, since, submitted, steady>>
    BY <1>3 DEF Sync, SyncWebhookConfiguration, CollectWebhookConfiguration, request, history, origin
  <2>2. ~Synced
    <3> SUFFICES ASSUME Synced PROVE FALSE
      OBVIOUS
    <3>1. PICK n \in Names : SyncWebhookConfiguration(n) \/ CollectWebhookConfiguration(n)
      BY <1>3 DEF Sync
    <3>2. hooks[n] = WebhookConfiguration(n)
      BY DEF Synced
    <3> QED BY <1>1, <3>1, <3>2, ConfigurationOfClass
        DEF SyncWebhookConfiguration, CollectWebhookConfiguration
  <2> QED BY <1>1, <2>1, <2>2 DEF CalmInv, Calm
<1> QED BY <1>2, <1>3

LEMMA CalmInvPreserved == Inv /\ CalmInv /\ [Next]_vars => CalmInv'
<1> SUFFICES ASSUME Inv, CalmInv, [Next]_vars PROVE CalmInv'
  OBVIOUS
<1>1. CASE UNCHANGED vars
  BY <1>1
  DEF vars, world, request, history, origin, CalmInv, Calm, Synced, ReadsCurrent,
      AnnotationDocumented, LabelValidated, Serves, Served, Documented, Applicable, Excludes,
      PriorityClasses, DefaultClasses, Exists, ClassName, WebhookConfiguration
<1>2. CASE Answer
  BY <1>2, CalmReads, CalmAnswers, CalmChain, CalmRequests DEF Answer
<1>3. CASE Sync
  BY <1>3, CalmWorld
<1>4. CASE Environment
  BY <1>4, CalmChain, CalmRequests, CalmWorld DEF Environment
<1> QED BY <1>1, <1>2, <1>3, <1>4 DEF Next

\* Whatever the number of classes, their ratios and exclusions and the order in
\* which the webhooks of a pod are called and called again: a creation that
\* nothing disturbs gives a served pod the class and ratios of the documented
\* priority, scales nothing without such a class, leaves alone a pod that no
\* webhook serves, and stores a labelled pod only if its class exists.
THEOREM CalmOutcomeHolds == Spec => []CalmOutcome
<1>1. Init => CalmInv
  BY DEF Init, CalmInv, Calm
<1>2. CalmInv => CalmOutcome
  <2> SUFFICES ASSUME CalmInv, CalmCreation PROVE CalmOutcome
    BY DEF CalmOutcome
  <2>1. Calm /\ phase = "stored"
    BY DEF CalmCreation, Calm
  <2>2. AnnotationDocumented /\ LabelValidated
    BY <2>1 DEF CalmInv
  <2> QED BY <2>1, <2>2
      DEF CalmOutcome, AnnotationDocumented, LabelValidated, Documented
<1> QED
  BY <1>1, <1>2, CalmInvPreserved, Invariance, PTL DEF Spec
=============================================================================
