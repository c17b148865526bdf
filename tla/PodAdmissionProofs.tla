------------------------- MODULE PodAdmissionProofs -------------------------
(***************************************************************************)
(* Proofs about PodAdmission for every set of classes, containers, label   *)
(* keys and specs: type correctness, requests within limits, annotations   *)
(* that explain the requests, and mutation that only moves forward.        *)
(***************************************************************************)
EXTENDS PodAdmission, TLAPS

\* Scaling a limit by a ratio of at most 1 gives a quantity no larger: the
\* arithmetic behind mutateContainers.
LEMMA ScaleBounded ==
  ASSUME NEW l \in Nat, NEW q \in Ratio
  PROVE  Scale(l, q) \in Nat /\ Scale(l, q) <= l
<1>1. Unit \in Nat /\ Unit > 0 /\ q \in Nat /\ q <= Unit
  BY UnitAssumption DEF Ratio
<1>2. l * q \in Nat /\ l * q <= l * Unit
  BY <1>1
<1> DEFINE d == (l * q) \div Unit
<1>3. d \in Nat /\ d * Unit <= l * q /\ l * q < d * Unit + Unit
  BY <1>1, <1>2
<1>4. d <= l
  <2>1. SUFFICES ASSUME d >= l + 1 PROVE FALSE
    BY <1>3
  <2>2. d * Unit >= (l + 1) * Unit
    BY <2>1, <1>1, <1>3
  <2> QED BY <2>2, <1>1, <1>2, <1>3
<1>5. CASE <<l, q>> \in RoundsDown
  <2>1. l * q >= Unit
    BY <1>5, RoundsDownAssumption
  <2>2. d >= 1
    BY <2>1, <1>1, <1>2, <1>3
  <2> QED BY <2>2, <1>3, <1>4, <1>5 DEF Scale
<1>6. CASE <<l, q>> \notin RoundsDown
  BY <1>6, <1>3, <1>4 DEF Scale
<1> QED BY <1>5, <1>6

LEMMA ResolutionsTyped ==
  ASSUME TypeOK
  PROVE  /\ Unresolved \in Resolution
         /\ \A n \in Names : Exists(n) => ResolvedTo(n) \in Resolution
         /\ Idle \in CallState
<1>1. Unresolved \in Resolution
  BY UnitAssumption DEF Unresolved, NoOp, Resolution, Ratio
<1>2. \A n \in Names : Exists(n) => ResolvedTo(n) \in Resolution
  BY DEF TypeOK, Exists, ResolvedTo, Resolution, ClassSpec
<1>3. Idle \in CallState
  BY <1>1 DEF Idle, CallState
<1> QED BY <1>1, <1>2, <1>3

\* A read of the webhook moves its call only.
LEMMA ReadStep ==
  ASSUME Inv, UnchangedByRead,
         call' \in CallState, steady' \in BOOLEAN,
         call.pc # "idle", call'.hook = call.hook,
         call'.pc \in {"class", "namespace", "nsClass", "default"} => call'.key \in Keys
  PROVE  Inv'
<1> USE DEF UnchangedByRead, Inv, world, origin
<1>1. TypeOK'
  BY DEF TypeOK
<1>2. Progress'
  BY DEF Progress
<1>3. RequestsWithinLimits'
  BY DEF RequestsWithinLimits, Fits
<1>4. AnnotationExplainsRequests'
  BY DEF AnnotationExplainsRequests, Explained, Scale
<1> QED BY <1>1, <1>2, <1>3, <1>4

LEMMA ReadsPreserveInv ==
  ASSUME Inv,
         \/ ReadOvercommitLabel \/ ReadPodClass \/ ReadNamespace
         \/ ReadNamespaceClass \/ ReadDefaultClass
  PROVE  Inv'
<1> USE DEF Inv
<1>1. TypeOK /\ call \in CallState /\ Progress
  BY DEF TypeOK
<1>2. \A n \in Names : Exists(n) => ResolvedTo(n) \in Resolution
  BY <1>1, ResolutionsTyped
<1>3. \A res \in Resolution :
        [call EXCEPT !.pc = "apply", !.res = res] \in CallState
  BY <1>1 DEF CallState
<1>4. Unresolved \in Resolution
  BY <1>1, ResolutionsTyped
<1>5. CASE ReadOvercommitLabel
  <2>1. phase = "mutating" /\ call.pc = "label" /\ pod \in Pod /\ key \in Keys
    BY <1>1, <1>5 DEF ReadOvercommitLabel, InCall, Progress, TypeOK
  <2>2. pod.labels[key] \in Names \cup {NoName}
    BY <2>1 DEF Pod, Labels
  <2>3. /\ call' \in CallState /\ steady' \in BOOLEAN /\ call'.hook = call.hook
        /\ call'.pc \in {"class", "namespace", "nsClass", "default"} => call'.key \in Keys
    <3>1. CASE GiveUp
      BY <3>1, <1>1, <1>3, <1>4 DEF GiveUp, FailTo, CallState
    <3>2. CASE ~GiveUp
      <4>1. steady' = steady /\ steady \in BOOLEAN
        BY <3>2, <1>5, <1>1 DEF ReadOvercommitLabel, Goto, TypeOK
      <4>2. CASE pod.labels[key] # NoName
        <5>1. call' = [call EXCEPT !.pc = "class", !.key = key, !.name = pod.labels[key]]
          BY <3>2, <4>2, <1>5 DEF ReadOvercommitLabel, Goto
        <5> QED BY <5>1, <4>1, <1>1, <2>1, <2>2 DEF CallState
      <4>3. CASE pod.labels[key] = NoName
        <5>1. call' = [call EXCEPT !.pc = "namespace", !.key = key]
          BY <3>2, <4>3, <1>5 DEF ReadOvercommitLabel, Goto
        <5> QED BY <5>1, <4>1, <1>1, <2>1 DEF CallState
      <4> QED BY <4>2, <4>3
    <3> QED BY <3>1, <3>2
  <2> QED BY <2>1, <2>3, <1>5, ReadStep DEF ReadOvercommitLabel
<1>6. CASE ReadPodClass
  <2>1. call.pc = "class" /\ call.key \in Keys
    BY <1>1, <1>6 DEF ReadPodClass, InCall, Progress
  <2>2. /\ call' \in CallState /\ steady' \in BOOLEAN /\ call'.hook = call.hook
        /\ call'.pc \in {"class", "namespace", "nsClass", "default"} => call'.key \in Keys
    <3>1. CASE Exists(call.name) /\ Resolve(ResolvedTo(call.name))
      BY <3>1, <1>1, <1>2, <1>3 DEF Resolve, Goto, CallState, Exists, TypeOK
    <3>2. CASE ~(Exists(call.name) /\ Resolve(ResolvedTo(call.name)))
      BY <3>2, <1>6, <1>1, <2>1 DEF ReadPodClass, Goto, FailTo, CallState, TypeOK
    <3> QED BY <3>1, <3>2
  <2> QED BY <2>1, <2>2, <1>6, ReadStep DEF ReadPodClass
<1>7. CASE ReadNamespace
  <2>1. phase = "mutating" /\ call.pc = "namespace" /\ call.key \in Keys /\ pod \in Pod
    BY <1>1, <1>7 DEF ReadNamespace, InCall, Progress
  <2>2. nsLabels[pod.ns][call.key] \in Names \cup {NoName}
    BY <2>1, <1>1 DEF Pod, Labels, TypeOK
  <2>3. /\ call' \in CallState /\ steady' \in BOOLEAN /\ call'.hook = call.hook
        /\ call'.pc \in {"class", "namespace", "nsClass", "default"} => call'.key \in Keys
    <3>1. CASE GiveUp
      BY <3>1, <1>1, <1>3, <1>4 DEF GiveUp, FailTo, CallState
    <3>2. CASE ~GiveUp
      BY <3>2, <1>7, <1>1, <2>1, <2>2 DEF ReadNamespace, Goto, CallState, TypeOK
    <3> QED BY <3>1, <3>2
  <2> QED BY <2>1, <2>3, <1>7, ReadStep DEF ReadNamespace
<1>8. CASE ReadNamespaceClass
  <2>1. call.pc = "nsClass"
    BY <1>8 DEF ReadNamespaceClass, InCall
  <2>2. \E res \in Resolution : call' = [call EXCEPT !.pc = "apply", !.res = res]
    BY <1>8, <1>1, <1>2, <1>4 DEF ReadNamespaceClass, Resolve, Goto, GiveUp, FailTo, Exists
  <2>3. steady' \in BOOLEAN
    BY <1>8, <1>1 DEF ReadNamespaceClass, Resolve, Goto, GiveUp, FailTo, TypeOK
  <2>4. call' \in CallState /\ call'.hook = call.hook /\ call'.pc = "apply"
    BY <2>2, <1>1, <1>3 DEF CallState
  <2> QED BY <2>1, <2>3, <2>4, <1>8, ReadStep DEF ReadNamespaceClass
<1>9. CASE ReadDefaultClass
  <2>1. call.pc = "default"
    BY <1>9 DEF ReadDefaultClass, InCall
  <2>2. \E res \in Resolution : call' = [call EXCEPT !.pc = "apply", !.res = res]
    BY <1>9, <1>2, <1>4 DEF ReadDefaultClass, Resolve, Goto, GiveUp, FailTo, Exists, DefaultClasses
  <2>3. steady' \in BOOLEAN
    BY <1>9, <1>1 DEF ReadDefaultClass, Resolve, Goto, GiveUp, FailTo, TypeOK
  <2>4. call' \in CallState /\ call'.hook = call.hook /\ call'.pc = "apply"
    BY <2>2, <1>1, <1>3 DEF CallState
  <2> QED BY <2>1, <2>3, <2>4, <1>9, ReadStep DEF ReadDefaultClass
<1> QED BY <1>5, <1>6, <1>7, <1>8, <1>9

\* What the webhook hands back: the mutated pod is a pod, keeps within its
\* limits, and its annotations explain the containers mutated.
LEMMA MutationResult ==
  ASSUME Inv, InCall("apply"), NEW cs \in SUBSET AllContainers,
         NEW p, p = Annotated(mutateContainers(cs, call.res.ratio))
  PROVE  /\ p \in Pod
         /\ \A c \in AllContainers : Fits(p.limits[c], p.requests[c])
         /\ p.limits = pod.limits
         /\ Explained(p, cs)
<1> USE DEF Inv, InCall
<1>1. pod \in Pod /\ call.res \in Resolution /\ call.hook \in Webhooks
  BY DEF Progress, TypeOK, CallState
<1>2. ClassName \in Names
  BY <1>1 DEF ClassName, Resolution, Webhooks
<1> DEFINE q == call.res.ratio
           m == mutateContainers(cs, q)
<1>3. q \in [Resources -> Ratio]
  BY <1>1 DEF Resolution
<1>4. \A c \in AllContainers, r \in Resources :
        pod.limits[c][r] \in Quantity /\ pod.requests[c][r] \in Quantity
  BY <1>1 DEF Pod, ResourceLists
<1>5. \A c \in AllContainers, r \in Resources :
        m[c][r] = IF c \in cs /\ pod.limits[c][r] # Absent /\ q[r] # Unit
                  THEN Scale(pod.limits[c][r], q[r]) ELSE pod.requests[c][r]
  BY DEF mutateContainers
<1>6. \A c \in AllContainers, r \in Resources :
        pod.limits[c][r] # Absent =>
          Scale(pod.limits[c][r], q[r]) \in Nat
          /\ Scale(pod.limits[c][r], q[r]) <= pod.limits[c][r]
  BY <1>3, <1>4, ScaleBounded DEF Quantity
<1>7. \A c \in AllContainers, r \in Resources : m[c][r] \in Quantity
  BY <1>4, <1>5, <1>6 DEF Quantity
<1>8. m \in [AllContainers -> ResourceLists]
  BY <1>7 DEF mutateContainers, ResourceLists
<1>9. p = [pod EXCEPT !.requests = m, !.applied = ClassName, !.ratio = q]
  BY DEF Annotated
<1>10. p.limits = pod.limits /\ p.requests = m /\ p.ratio = q
  BY <1>9, <1>1 DEF Pod
<1>11. p \in Pod
  BY <1>9, <1>1, <1>2, <1>3, <1>8 DEF Pod
<1>12. \A c \in AllContainers : Fits(p.limits[c], p.requests[c])
  <2>1. \A c \in AllContainers : Fits(pod.limits[c], pod.requests[c])
    BY <1>1, SentinelAssumption DEF RequestsWithinLimits
  <2>2. SUFFICES ASSUME NEW c \in AllContainers, NEW r \in Resources,
                        pod.limits[c][r] \in Nat, m[c][r] \in Nat
                 PROVE  m[c][r] <= pod.limits[c][r]
    BY <1>10 DEF Fits
  <2>3. pod.limits[c][r] # Absent
    BY <2>2, SentinelAssumption
  <2> QED BY <2>1, <2>2, <2>3, <1>5, <1>6 DEF Fits
<1>13. Explained(p, cs)
  BY <1>5, <1>10 DEF Explained
<1> QED BY <1>10, <1>11, <1>12, <1>13

\* The admission chain's bookkeeping of a webhook's answer.
LEMMA AnswerTyped ==
  ASSUME Inv, InCall("apply"), NEW p, Respond(p)
  PROVE  /\ count' \in [Webhooks -> 0 .. 2] /\ dirty' \subseteq Webhooks
         /\ call' \in CallState /\ call' = Idle /\ pod' = p
         /\ phase = "mutating" /\ phase' = "mutating"
<1> USE DEF Inv, InCall, Respond
<1>1. call.hook \in Webhooks /\ count[call.hook] <= 1 /\ count \in [Webhooks -> 0 .. 2]
      /\ dirty \subseteq Webhooks
  BY DEF Progress, TypeOK
<1>2. count' \in [Webhooks -> 0 .. 2]
  BY <1>1
<1>3. dirty' \subseteq Webhooks
  BY <1>1
<1> QED BY <1>2, <1>3, ResolutionsTyped

\* What the three ways to answer have in common.
Answered(p) ==
  /\ Respond(p) /\ p \in Pod
  /\ \A c \in AllContainers : Fits(p.limits[c], p.requests[c])
  /\ Explained(p, Containers \ touched')
  /\ touched' \subseteq AllContainers /\ mutatedBy' \subseteq Names

LEMMA ApplyPreservesInv ==
  ASSUME Inv, OvercommitSkip \/ Overcommit \/ OvercommitOnResize
  PROVE  Inv'
<1> USE DEF Inv
<1>1. TypeOK /\ Progress /\ RequestsWithinLimits /\ AnnotationExplainsRequests
      /\ InCall("apply") /\ pod \in Pod
  BY DEF OvercommitSkip, Overcommit, OvercommitOnResize, InCall, Progress
<1>2. call.res \in Resolution /\ ClassName \in Names
  BY <1>1 DEF ClassName, Resolution, Webhooks, Progress, InCall, TypeOK, CallState
<1>3. \E p : Answered(p)
  <2>1. CASE OvercommitSkip
    <3>1. Respond(pod) /\ touched' = touched /\ mutatedBy' = mutatedBy
      BY <2>1 DEF OvercommitSkip
    <3>2. pod # NoPod
      BY <1>1, SentinelAssumption
    <3> QED BY <1>1, <3>1, <3>2 DEF Answered, RequestsWithinLimits, AnnotationExplainsRequests, TypeOK
  <2>2. ASSUME NEW cs \in SUBSET AllContainers, Containers \subseteq cs,
               Respond(Annotated(mutateContainers(cs, call.res.ratio))),
               RecordApplication(cs)
        PROVE  \E p : Answered(p)
    <3> DEFINE p == Annotated(mutateContainers(cs, call.res.ratio))
    <3>1. /\ p \in Pod /\ Explained(p, cs)
          /\ \A c \in AllContainers : Fits(p.limits[c], p.requests[c])
      BY <1>1, MutationResult
    <3>2. touched' \subseteq AllContainers /\ mutatedBy' \subseteq Names
      BY <2>2, <1>1, <1>2 DEF RecordApplication, TypeOK
    <3>3. Explained(p, Containers \ touched')
      BY <3>1, <2>2 DEF Explained
    <3> QED BY <2>2, <3>1, <3>2, <3>3 DEF Answered
  <2>3. CASE Overcommit
    BY <2>2, <2>3 DEF Overcommit, AllContainers
  <2>4. CASE OvercommitOnResize
    BY <2>2, <2>4 DEF OvercommitOnResize, AllContainers
  <2> QED BY <2>1, <2>3, <2>4
<1>4. PICK p : Answered(p)
  BY <1>3
<1>5. /\ count' \in [Webhooks -> 0 .. 2] /\ dirty' \subseteq Webhooks
      /\ call' \in CallState /\ call' = Idle /\ pod' = p
      /\ phase = "mutating" /\ phase' = "mutating"
  BY <1>1, <1>4, AnswerTyped DEF Answered
<1>6. /\ UNCHANGED <<world, op, stored, edits, writes, storedTouched, origin, steady>>
  BY <1>4 DEF Answered, Respond
<1>7. metrics' \in [requested : Counter, mutated : Counter, podMutated : Counter]
  <2>1. metrics \in [requested : Counter, mutated : Counter, podMutated : Counter]
    BY <1>1 DEF TypeOK
  <2>2. CASE OvercommitSkip
    BY <2>1, <2>2, <1>2 DEF OvercommitSkip, Counter
  <2>3. CASE Overcommit \/ OvercommitOnResize
    BY <2>1, <2>3, <1>2 DEF Overcommit, OvercommitOnResize, CountMutation, Counter
  <2> QED BY <2>2, <2>3
<1>8. TypeOK'
  BY <1>1, <1>4, <1>5, <1>6, <1>7 DEF Answered, TypeOK, world, origin
<1>9. Progress'
  BY <1>1, <1>4, <1>5, <1>6 DEF Answered, Progress, Idle
<1>10. RequestsWithinLimits'
  BY <1>1, <1>4, <1>5, <1>6 DEF Answered, RequestsWithinLimits
<1>11. AnnotationExplainsRequests'
  BY <1>1, <1>4, <1>5, <1>6 DEF Answered, AnnotationExplainsRequests
<1> QED BY <1>8, <1>9, <1>10, <1>11

\* A new request for an acceptable object.
LEMMA NewRequestStep ==
  ASSUME Inv, NEW o \in {"create", "resize"}, NEW p \in Pod, NewRequest(o, p),
         \A c \in AllContainers : Fits(p.limits[c], p.requests[c]),
         Explained(p, Containers \ touched'), touched' \subseteq AllContainers,
         o = "resize" => stored \in Pod,
         writes' \in 0 .. MaxWrites, since' \in 0 .. MaxEdits, steady' \in BOOLEAN,
         submitted' \in Pod \cup {NoPod},
         UNCHANGED <<world, stored, metrics, edits, storedTouched, mutatedBy>>
  PROVE  Inv'
<1> USE DEF Inv, NewRequest, world
<1>1. Idle \in CallState
  BY ResolutionsTyped
<1>2. TypeOK'
  BY <1>1 DEF TypeOK
<1>3. Progress'
  BY DEF Progress, Idle
<1>4. RequestsWithinLimits'
  BY DEF RequestsWithinLimits
<1>5. AnnotationExplainsRequests'
  BY DEF AnnotationExplainsRequests
<1> QED BY <1>2, <1>3, <1>4, <1>5

LEMMA RequestsPreserveInv ==
  ASSUME Inv, CreatePod \/ ResizePod \/ OtherMutator
  PROVE  Inv'
<1> USE DEF Inv
<1>1. TypeOK /\ Progress /\ RequestsWithinLimits /\ AnnotationExplainsRequests
  OBVIOUS
<1>2. CASE CreatePod
  <2>1. PICK t \in Templates : NewRequest("create", t)
    BY <1>2 DEF CreatePod
  <2>2. t \in Pod /\ \A c \in AllContainers : Fits(t.limits[c], t.requests[c])
    BY TemplatesAssumption
  <2>3. touched' = AllContainers /\ submitted' = t /\ since' = edits /\ steady' \in BOOLEAN
        /\ writes' = writes
        /\ UNCHANGED <<world, stored, metrics, edits, storedTouched, mutatedBy>>
    BY <1>2, <2>1 DEF CreatePod, NewRequest
  <2>4. Explained(t, Containers \ touched')
    BY <2>3 DEF Explained, AllContainers
  <2> QED BY <1>1, <2>1, <2>2, <2>3, <2>4, NewRequestStep DEF TypeOK
<1>3. CASE ResizePod
  <2>1. phase = "stored" /\ stored \in Pod /\ pod = stored /\ touched = storedTouched
    BY <1>1, <1>3 DEF ResizePod, Progress
  <2>2. PICK c \in Containers, z \in Resizes :
          /\ NewRequest("resize", [stored EXCEPT !.limits[c] = z.limits, !.requests[c] = z.requests])
          /\ touched' = touched \cup {c}
    BY <1>3 DEF ResizePod
  <2> DEFINE p == [stored EXCEPT !.limits[c] = z.limits, !.requests[c] = z.requests]
  <2>3. z.limits \in ResourceLists /\ z.requests \in ResourceLists /\ Fits(z.limits, z.requests)
    BY ResizesAssumption
  <2>4. c \in AllContainers
    BY DEF AllContainers
  <2>5. /\ p \in Pod /\ p.ratio = stored.ratio
        /\ p.limits = [stored.limits EXCEPT ![c] = z.limits]
        /\ p.requests = [stored.requests EXCEPT ![c] = z.requests]
    BY <2>1, <2>3, <2>4 DEF Pod
  <2>6. \A d \in AllContainers : Fits(p.limits[d], p.requests[d])
    <3>1. \A d \in AllContainers : Fits(stored.limits[d], stored.requests[d])
      BY <1>1, <2>1, SentinelAssumption DEF RequestsWithinLimits
    <3> QED BY <3>1, <2>1, <2>3, <2>5 DEF Pod
  <2>7. Explained(p, Containers \ touched')
    <3>1. Explained(stored, Containers \ touched)
      BY <1>1, <2>1, SentinelAssumption DEF AnnotationExplainsRequests
    <3>2. \A d \in Containers \ touched' :
            d # c /\ d \in AllContainers /\ d \in Containers \ touched
      BY <2>2 DEF AllContainers
    <3>3. \A d \in Containers \ touched' :
            p.limits[d] = stored.limits[d] /\ p.requests[d] = stored.requests[d]
      BY <3>2, <2>1, <2>5 DEF Pod
    <3> QED BY <3>1, <3>2, <3>3, <2>5 DEF Explained
  <2>8. writes' \in 0 .. MaxWrites
    <3>1. writes \in 0 .. MaxWrites /\ writes < MaxWrites /\ writes' = writes + 1
      BY <1>1, <1>3 DEF ResizePod, TypeOK
    <3> QED BY <3>1, BoundsAssumption
  <2>9. UNCHANGED <<world, stored, metrics, edits, storedTouched, mutatedBy, origin, steady>>
    BY <1>3 DEF ResizePod
  <2>10. touched' \subseteq AllContainers /\ since' \in 0 .. MaxEdits /\ steady' \in BOOLEAN
         /\ submitted' \in Pod \cup {NoPod}
    BY <1>1, <2>2, <2>4, <2>9 DEF TypeOK, origin
  <2> QED BY <2>1, <2>2, <2>5, <2>6, <2>7, <2>8, <2>9, <2>10, NewRequestStep
<1>4. CASE OtherMutator
  <2>1. phase = "mutating" /\ pod \in Pod /\ pod # NoPod
    BY <1>1, <1>4, SentinelAssumption DEF OtherMutator, Progress
  <2>2. PICK c \in AllContainers, z \in Resizes :
          /\ pod' = [pod EXCEPT !.limits[c] = z.limits, !.requests[c] = z.requests]
          /\ touched' = touched \cup {c}
          /\ dirty' = IF pod' = pod THEN dirty ELSE {h \in Webhooks : count[h] > 0}
    BY <1>4 DEF OtherMutator, AllContainers
  <2>3. z.limits \in ResourceLists /\ z.requests \in ResourceLists /\ Fits(z.limits, z.requests)
    BY ResizesAssumption
  <2>4. /\ pod' \in Pod /\ pod'.ratio = pod.ratio
        /\ pod'.limits = [pod.limits EXCEPT ![c] = z.limits]
        /\ pod'.requests = [pod.requests EXCEPT ![c] = z.requests]
    BY <2>1, <2>2, <2>3 DEF Pod
  <2>5. \A d \in AllContainers : Fits(pod'.limits[d], pod'.requests[d])
    <3>1. \A d \in AllContainers : Fits(pod.limits[d], pod.requests[d])
      BY <1>1, <2>1, SentinelAssumption DEF RequestsWithinLimits
    <3> QED BY <3>1, <2>1, <2>3, <2>4 DEF Pod
  <2>6. Explained(pod', Containers \ touched')
    <3>1. Explained(pod, Containers \ touched)
      BY <1>1, <2>1 DEF AnnotationExplainsRequests
    <3>2. \A d \in Containers \ touched' :
            d # c /\ d \in AllContainers /\ d \in Containers \ touched
      BY <2>2 DEF AllContainers
    <3>3. \A d \in Containers \ touched' :
            pod'.limits[d] = pod.limits[d] /\ pod'.requests[d] = pod.requests[d]
      BY <3>2, <2>1, <2>4 DEF Pod
    <3> QED BY <3>1, <3>2, <3>3, <2>4 DEF Explained
  <2>7. /\ UNCHANGED <<world, phase, op, count, call, stored, metrics, edits>>
        /\ UNCHANGED <<storedTouched, mutatedBy, origin, steady>>
        /\ writes' \in 0 .. MaxWrites
    <3>1. writes \in 0 .. MaxWrites /\ writes < MaxWrites /\ writes' = writes + 1
      BY <1>1, <1>4 DEF OtherMutator, TypeOK
    <3>2. writes' \in 0 .. MaxWrites
      BY <3>1, BoundsAssumption
    <3> QED BY <1>4, <3>2 DEF OtherMutator
  <2>8. TypeOK'
    BY <1>1, <2>2, <2>4, <2>7 DEF TypeOK, world, origin
  <2>9. Progress'
    BY <1>1, <2>1, <2>4, <2>7 DEF Progress
  <2>10. RequestsWithinLimits'
    BY <1>1, <2>5, <2>7 DEF RequestsWithinLimits
  <2>11. AnnotationExplainsRequests'
    BY <1>1, <2>6, <2>7 DEF AnnotationExplainsRequests
  <2> QED BY <2>8, <2>9, <2>10, <2>11
<1> QED BY <1>2, <1>3, <1>4

\* The remaining steps of the admission chain change neither limits nor requests,
\* except that they persist or restore a whole object.
LEMMA ChainPreservesInv ==
  ASSUME Inv,
         \/ Invoke \/ WebhookFails \/ MutationDone \/ SkipValidation
         \/ ReadValidatedLabel \/ ValidateCreate \/ Persist \/ KeepStored
  PROVE  Inv'
<1> USE DEF Inv, world, history, origin
<1>1. Idle \in CallState
  BY ResolutionsTyped
<1>2. CASE Invoke
  <2>1. PICK h \in Webhooks : Callable(h) /\ call' = [Idle EXCEPT !.hook = h, !.pc = "label"]
    BY <1>2 DEF Invoke
  <2>2. call' \in CallState /\ call'.hook = h /\ call'.pc = "label"
    BY <1>1, <2>1 DEF CallState, Webhooks
  <2>3. count[h] <= 1
    BY <2>1 DEF Callable
  <2> QED BY <1>2, <2>2, <2>3
     DEF Invoke, TypeOK, Progress, RequestsWithinLimits, AnnotationExplainsRequests
<1>3. CASE WebhookFails
  BY <1>1, <1>3
  DEF WebhookFails, Idle, TypeOK, Progress, RequestsWithinLimits, AnnotationExplainsRequests
<1>4. CASE MutationDone
  BY <1>4 DEF MutationDone, TypeOK, Progress, RequestsWithinLimits, AnnotationExplainsRequests
<1>5. CASE SkipValidation
  BY <1>5 DEF SkipValidation, TypeOK, Progress, RequestsWithinLimits, AnnotationExplainsRequests
<1>6. CASE ReadValidatedLabel \/ ValidateCreate
  <2>1. /\ phase \in {"validating", "checking"} /\ phase' \in {"checking", "admitted", "rejected"}
        /\ UNCHANGED <<world, op, count, dirty, pod, stored, metrics, edits, writes, history>>
    BY <1>6 DEF ReadValidatedLabel, ValidateCreate
  <2>2. call' \in CallState /\ call'.pc = "idle"
    <3>1. pod \in Pod /\ call \in CallState /\ call.pc = "idle" /\ key \in Keys
      BY <2>1 DEF Progress, TypeOK
    <3>2. pod.labels[key] \in Names \cup {NoName}
      BY <3>1 DEF Pod, Labels
    <3>3. [Idle EXCEPT !.name = pod.labels[key]] \in CallState
      BY <1>1, <3>2 DEF CallState
    <3> QED BY <1>1, <1>6, <3>1, <3>3 DEF ReadValidatedLabel, ValidateCreate, Idle
  <2> QED BY <2>1, <2>2 DEF TypeOK, Progress, RequestsWithinLimits, AnnotationExplainsRequests
<1>7. CASE Persist
  BY <1>7 DEF Persist, TypeOK, Progress, RequestsWithinLimits, AnnotationExplainsRequests
<1>8. CASE KeepStored
  BY <1>8 DEF KeepStored, TypeOK, Progress, RequestsWithinLimits, AnnotationExplainsRequests
<1> QED BY <1>2, <1>3, <1>4, <1>5, <1>6, <1>7, <1>8

LEMMA ConfigurationTyped ==
  ASSUME TypeOK, NEW n \in Names
  PROVE  WebhookConfiguration(n) \in HookConfig \cup {NoHook}
BY DEF TypeOK, WebhookConfiguration, HookConfig, ClassSpec

\* Users and controllers change the cluster, never a pod under admission.
LEMMA WorldPreservesInv ==
  ASSUME Inv, PutClass \/ DeleteClass \/ LabelNamespace \/ ChangeLabelKey \/ Sync
  PROVE  Inv'
<1> USE DEF Inv, request, history, origin
<1>1. /\ UNCHANGED <<phase, op, count, dirty, call, pod, stored, metrics, writes>>
      /\ UNCHANGED <<touched, storedTouched, mutatedBy, submitted, since, steady>>
  BY DEF PutClass, DeleteClass, LabelNamespace, ChangeLabelKey, Sync, Edit,
         SyncWebhookConfiguration, CollectWebhookConfiguration
<1>2. edits' \in 0 .. MaxEdits
  BY BoundsAssumption
  DEF PutClass, DeleteClass, LabelNamespace, ChangeLabelKey, Sync, Edit,
      SyncWebhookConfiguration, CollectWebhookConfiguration, TypeOK
<1>3. classes' \in [Names -> ClassSpec \cup {NoClass}]
  BY SpecsAssumption
  DEF PutClass, DeleteClass, LabelNamespace, ChangeLabelKey, Sync,
      SyncWebhookConfiguration, CollectWebhookConfiguration, TypeOK
<1>4. nsLabels' \in [Namespaces -> Labels]
  BY DEF PutClass, DeleteClass, LabelNamespace, ChangeLabelKey, Sync, Labels,
         SyncWebhookConfiguration, CollectWebhookConfiguration, TypeOK
<1>5. key' \in Keys /\ vkey' \in Keys
  BY DEF PutClass, DeleteClass, LabelNamespace, ChangeLabelKey, Sync,
         SyncWebhookConfiguration, CollectWebhookConfiguration, TypeOK
<1>6. hooks' \in [Names -> HookConfig \cup {NoHook}]
  BY ConfigurationTyped
  DEF PutClass, DeleteClass, LabelNamespace, ChangeLabelKey, Sync,
      SyncWebhookConfiguration, CollectWebhookConfiguration, TypeOK
<1>7. TypeOK'
  BY <1>1, <1>2, <1>3, <1>4, <1>5, <1>6 DEF TypeOK
<1>8. Progress' /\ RequestsWithinLimits' /\ AnnotationExplainsRequests'
  BY <1>1 DEF Progress, RequestsWithinLimits, AnnotationExplainsRequests
<1> QED BY <1>7, <1>8

LEMMA InitEstablishesInv == Init => Inv
<1> SUFFICES ASSUME Init PROVE Inv
  OBVIOUS
<1> USE DEF Init
<1>1. classes \in [Names -> ClassSpec \cup {NoClass}]
  BY SpecsAssumption
<1>2. hooks \in [Names -> HookConfig \cup {NoHook}]
  <2>1. \A n \in Names : WebhookConfiguration(n) \in HookConfig \cup {NoHook}
    BY <1>1 DEF WebhookConfiguration, HookConfig, ClassSpec
  <2> QED BY <2>1
<1>3. Idle \in CallState
  BY UnitAssumption DEF Idle, CallState, Unresolved, NoOp, Resolution, Ratio
<1>4. TypeOK
  <2>1. metrics \in [requested : Counter, mutated : Counter, podMutated : Counter]
    BY DEF Counter
  <2>2. count \in [Webhooks -> 0 .. 2]
    OBVIOUS
  <2>3. 0 \in 0 .. MaxEdits /\ 0 \in 0 .. MaxWrites
    BY BoundsAssumption
  <2>4. steady \in BOOLEAN
    OBVIOUS
  <2> QED BY <1>1, <1>2, <1>3, <2>1, <2>2, <2>3, <2>4 DEF TypeOK
<1>5. Progress
  BY DEF Progress, Idle
<1> QED BY <1>4, <1>5 DEF Inv, RequestsWithinLimits, AnnotationExplainsRequests

LEMMA NextPreservesInv == Inv /\ [Next]_vars => Inv'
<1> SUFFICES ASSUME Inv, [Next]_vars PROVE Inv'
  OBVIOUS
<1>1. CASE UNCHANGED vars
  BY <1>1 DEF Inv, TypeOK, Progress, RequestsWithinLimits, AnnotationExplainsRequests,
              vars, world, request, history, origin
<1>2. CASE Answer
  BY <1>2, ReadsPreserveInv, ApplyPreservesInv, ChainPreservesInv DEF Answer
<1>3. CASE Sync
  BY <1>3, WorldPreservesInv
<1>4. CASE Environment
  BY <1>4, RequestsPreserveInv, ChainPreservesInv, WorldPreservesInv DEF Environment
<1> QED BY <1>1, <1>2, <1>3, <1>4 DEF Next

THEOREM Invariance == Spec => []Inv
<1>1. Init => Inv
  BY InitEstablishesInv
<1>2. Inv /\ [Next]_vars => Inv'
  BY NextPreservesInv
<1> QED BY <1>1, <1>2, PTL DEF Spec

\* Every variable keeps its type, whatever the constants.
THEOREM TypeCorrect == Spec => []TypeOK
BY Invariance, PTL DEF Inv

\* No webhook of any class, at any ratio up to 1, in any order of invocations,
\* reinvocations, resizes and failing reads, raises a request above its limit.
THEOREM RequestsStayWithinLimits == Spec => []RequestsWithinLimits
BY Invariance, PTL DEF Inv

\* The annotated ratio is the one ratio between limits and requests: ratios
\* never compound (setOvercommitAnnotation goes with mutateContainers).
THEOREM AnnotationsExplain == Spec => []AnnotationExplainsRequests
BY Invariance, PTL DEF Inv

-----------------------------------------------------------------------------
(* Mutation goes forward                                                   *)

LEMMA Places ==
  /\ Place["idle"] = 0 /\ Place["label"] = 1 /\ Place["class"] = 2 /\ Place["namespace"] = 3
  /\ Place["nsClass"] = 4 /\ Place["default"] = 4 /\ Place["apply"] = 5
BY DEF Place

\* What MutationAdvances says of a step.
Forward ==
  \/ UNCHANGED <<count, call>>
  \/ UNCHANGED count /\ Place[call'.pc] > Place[call.pc]
  \/ /\ call.hook \in Webhooks /\ count[call.hook] < 2
     /\ count' = [count EXCEPT ![call.hook] = @ + 1]
     /\ call' = Idle

LEMMA CallsAdvance ==
  ASSUME Inv,
         \/ Invoke \/ ReadOvercommitLabel \/ ReadPodClass \/ ReadNamespace
         \/ ReadNamespaceClass \/ ReadDefaultClass
  PROVE  Forward
<1> USE DEF UnchangedByRead, Goto, FailTo, GiveUp, Resolve, InCall
<1>1. call \in CallState
  BY DEF Inv, TypeOK
<1>2. UNCHANGED count
  BY DEF Invoke, ReadOvercommitLabel, ReadPodClass, ReadNamespace, ReadNamespaceClass,
         ReadDefaultClass
<1>3. CASE Invoke
  <2>1. call.pc = "idle" /\ call'.pc = "label"
    BY <1>3 DEF Invoke, Idle
  <2> QED BY <1>2, <2>1, Places DEF Forward
<1>4. CASE ReadOvercommitLabel
  <2>1. call.pc = "label" /\ call'.pc \in {"class", "namespace", "apply"}
    BY <1>1, <1>4 DEF ReadOvercommitLabel, CallState
  <2> QED BY <1>2, <2>1, Places DEF Forward
<1>5. CASE ReadPodClass
  <2>1. call.pc = "class" /\ call'.pc \in {"namespace", "apply"}
    BY <1>1, <1>5 DEF ReadPodClass, CallState
  <2> QED BY <1>2, <2>1, Places DEF Forward
<1>6. CASE ReadNamespace
  <2>1. call.pc = "namespace" /\ call'.pc \in {"nsClass", "default", "apply"}
    BY <1>1, <1>6 DEF ReadNamespace, CallState
  <2> QED BY <1>2, <2>1, Places DEF Forward
<1>7. CASE ReadNamespaceClass \/ ReadDefaultClass
  <2>1. call.pc \in {"nsClass", "default"} /\ call'.pc = "apply"
    BY <1>1, <1>7 DEF ReadNamespaceClass, ReadDefaultClass, CallState
  <2> QED BY <1>2, <2>1, Places DEF Forward
<1> QED BY <1>3, <1>4, <1>5, <1>6, <1>7

\* Mutation ends: a request is answered at most twice by each webhook there is or
\* will be, and every invocation makes its calls in one order, each once.
THEOREM MutationEnds == Spec => MutationAdvances
<1>1. Inv /\ [Next]_vars =>
        [phase = "mutating" /\ phase' = "mutating" =>
           \/ UNCHANGED <<count, call>>
           \/ UNCHANGED count /\ Place[call'.pc] > Place[call.pc]
           \/ /\ call.hook \in Webhooks /\ count[call.hook] < 2
              /\ count' = [count EXCEPT ![call.hook] = @ + 1]
              /\ call' = Idle]_vars
  <2> SUFFICES ASSUME Inv, Next, phase = "mutating", phase' = "mutating"
               PROVE  Forward
    BY DEF Forward
  <2>1. CASE OvercommitSkip \/ Overcommit \/ OvercommitOnResize
    <3>1. call.hook \in Webhooks /\ count[call.hook] <= 1
      BY <2>1 DEF OvercommitSkip, Overcommit, OvercommitOnResize, InCall, Inv, Progress
    <3>2. count[call.hook] < 2
      BY <3>1 DEF Inv, TypeOK
    <3>3. count' = [count EXCEPT ![call.hook] = @ + 1] /\ call' = Idle
      BY <2>1 DEF OvercommitSkip, Overcommit, OvercommitOnResize, Respond
    <3> QED BY <3>1, <3>2, <3>3 DEF Forward
  <2>2. CASE \/ Invoke \/ ReadOvercommitLabel \/ ReadPodClass \/ ReadNamespace
             \/ ReadNamespaceClass \/ ReadDefaultClass
    BY <2>2, CallsAdvance
  <2>3. ~(MutationDone \/ SkipValidation \/ ReadValidatedLabel \/ ValidateCreate
          \/ Persist \/ KeepStored)
    BY DEF MutationDone, SkipValidation, ReadValidatedLabel, ValidateCreate, Persist, KeepStored
  <2>4. CASE Sync \/ Environment
    BY <2>4 DEF Sync, SyncWebhookConfiguration, CollectWebhookConfiguration, Environment,
       CreatePod, ResizePod, OtherMutator, WebhookFails, PutClass, DeleteClass,
       LabelNamespace, ChangeLabelKey, Edit, request, Forward
  <2> QED BY <2>1, <2>2, <2>3, <2>4 DEF Next, Answer
<1> QED BY <1>1, Invariance, PTL DEF Spec, MutationAdvances
=============================================================================
