--------------------- MODULE OvercommitControllerProofs ---------------------
(***************************************************************************)
(* Proofs about OvercommitController for all children followed, all specs, *)
(* label keys and images and any number of edits and faults: type          *)
(* correctness, no lost edit, no lost wake-up, no webhook without what     *)
(* serves it; that it implements Reconciler; what adapting a child makes   *)
(* of it; and that a settled cluster stays settled.                        *)
(***************************************************************************)
EXTENDS OvercommitController, EqualityProofs

-----------------------------------------------------------------------------
(* The order of the children                                               *)

LEMMA TenKinds ==
  /\ Len(KindOrder) = 10
  /\ \A i \in 1 .. 10 : KindOrder[i] \in AllKinds
  /\ \A k \in AllKinds : \E i \in 1 .. 10 : KindOrder[i] = k
  /\ AllKinds =
       {"issuer", "classCertificate", "classDeployment", "classService", "classWebhook",
        "podCertificate", "podDeployment", "podService", "podWebhook", "classController"}
BY DEF KindOrder, AllKinds, Elements

LEMMA KindsDistinct ==
  \A i, j \in 1 .. 10 : KindOrder[i] = KindOrder[j] => i = j
BY DEF KindOrder

Place(k) == CHOOSE i \in 1 .. Len(KindOrder) : KindOrder[i] = k

LEMMA PlaceOfKind ==
  ASSUME NEW k \in AllKinds
  PROVE  Place(k) \in 1 .. 10 /\ KindOrder[Place(k)] = k
BY TenKinds DEF Place

\* A set of places has a first one.
LEMMA FirstPlace ==
  ASSUME NEW S, S \subseteq 1 .. 10, S # {}
  PROVE  \E j \in S : \A l \in S : j <= l
<1> SUFFICES ASSUME \A j \in S : \E l \in S : l < j
             PROVE  FALSE
  OBVIOUS
<1>1. 1 \notin S
  OBVIOUS
<1>2. 2 \notin S
  BY <1>1
<1>3. 3 \notin S
  BY <1>1, <1>2
<1>4. 4 \notin S
  BY <1>1, <1>2, <1>3
<1>5. 5 \notin S
  BY <1>1, <1>2, <1>3, <1>4
<1>6. 6 \notin S
  BY <1>1, <1>2, <1>3, <1>4, <1>5
<1>7. 7 \notin S
  BY <1>1, <1>2, <1>3, <1>4, <1>5, <1>6
<1>8. 8 \notin S
  BY <1>1, <1>2, <1>3, <1>4, <1>5, <1>6, <1>7
<1>9. 9 \notin S
  BY <1>1, <1>2, <1>3, <1>4, <1>5, <1>6, <1>7, <1>8
<1>10. 10 \notin S
  BY <1>1, <1>2, <1>3, <1>4, <1>5, <1>6, <1>7, <1>8, <1>9
<1>11. PICK j \in S : j \in 1 .. 10
  OBVIOUS
<1> QED BY <1>1, <1>2, <1>3, <1>4, <1>5, <1>6, <1>7, <1>8, <1>9, <1>10, <1>11

\* The next child from a place on passes over no child that is followed.
LEMMA NextFromPlace ==
  ASSUME NEW i \in 1 .. 11
  PROVE  /\ ChildFrom(i) \in AllKinds \cup {"refresh"}
         /\ ChildFrom(i) \in AllKinds =>
              \A k \in Before(ChildFrom(i)) \cap Kinds : \E j \in 1 .. i - 1 : KindOrder[j] = k
<1> DEFINE left == {j \in i .. 10 : KindOrder[j] \in Kinds}
<1>1. CASE left = {}
  BY <1>1, TenKinds DEF ChildFrom
<1>2. CASE left # {}
  <2> DEFINE first == CHOOSE j \in left : \A l \in left : j <= l
  <2>1. ChildFrom(i) = KindOrder[first]
    BY <1>2, TenKinds DEF ChildFrom
  <2>2. first \in left /\ \A l \in left : first <= l
    BY <1>2, FirstPlace
  <2> HIDE DEF first
  <2>3. first \in 1 .. 10 /\ KindOrder[first] \in AllKinds
    BY <2>2, TenKinds
  <2>4. Place(KindOrder[first]) = first
    BY <2>3, PlaceOfKind, KindsDistinct
  <2>5. Before(KindOrder[first]) = {KindOrder[j] : j \in 1 .. first - 1}
    BY <2>4 DEF Before, Place
  <2>6. ASSUME NEW k \in Before(KindOrder[first]) \cap Kinds
        PROVE  \E j \in 1 .. i - 1 : KindOrder[j] = k
    <3>1. PICK j \in 1 .. first - 1 : KindOrder[j] = k
      BY <2>5, <2>6
    <3>2. j \notin left
      BY <2>2, <2>3, <3>1
    <3>3. j < i
      BY <2>3, <3>1, <3>2
    <3> QED BY <3>1, <3>3
  <2> QED BY <2>1, <2>3, <2>6
<1> QED BY <1>1, <1>2

LEMMA FirstChild ==
  /\ ChildFrom(1) \in AllKinds \cup {"refresh"}
  /\ ChildFrom(1) \in AllKinds => Before(ChildFrom(1)) \cap Kinds = {}
BY NextFromPlace

LEMMA NextChild ==
  ASSUME NEW k \in AllKinds
  PROVE  /\ NextCall(k) \in AllKinds \cup {"refresh"}
         /\ NextCall(k) \in AllKinds => Before(NextCall(k)) \cap Kinds \subseteq Before(k) \cup {k}
<1>1. Place(k) \in 1 .. 10 /\ KindOrder[Place(k)] = k
  BY PlaceOfKind
<1>2. NextCall(k) = ChildFrom(1 + Place(k)) /\ Before(k) = {KindOrder[j] : j \in 1 .. Place(k) - 1}
  BY DEF NextCall, Place, Before
<1>3. ASSUME NEW j \in 1 .. Place(k) PROVE KindOrder[j] \in Before(k) \cup {k}
  <2>1. CASE j = Place(k)
    BY <1>1, <2>1
  <2>2. CASE j \in 1 .. Place(k) - 1
    BY <1>2, <2>2
  <2> QED BY <1>1, <2>1, <2>2
<1>4. 1 + Place(k) \in 1 .. 11 /\ 1 + Place(k) - 1 = Place(k)
  BY <1>1
<1> HIDE DEF Place
<1> DEFINE next == ChildFrom(1 + Place(k))
<1>5. /\ next \in AllKinds \cup {"refresh"}
      /\ next \in AllKinds =>
           \A c \in Before(next) \cap Kinds : \E j \in 1 .. Place(k) : KindOrder[j] = c
  <2> DEFINE i == 1 + Place(k)
  <2>1. i \in 1 .. 11 /\ i - 1 = Place(k)
    BY <1>1
  <2> HIDE DEF i
  <2>2. /\ ChildFrom(i) \in AllKinds \cup {"refresh"}
        /\ ChildFrom(i) \in AllKinds =>
             \A c \in Before(ChildFrom(i)) \cap Kinds : \E j \in 1 .. i - 1 : KindOrder[j] = c
    BY <2>1, NextFromPlace
  <2> QED BY <2>1, <2>2 DEF i
<1> HIDE DEF next
<1>6. NextCall(k) = next
  BY <1>2 DEF next
<1> QED BY <1>3, <1>5, <1>6

\* What serves a webhook comes before it.
LEMMA BackendBefore ==
  ASSUME NEW k \in AllKinds
  PROVE  Backend(k) \subseteq Before(k)
<1>1. CASE k = "classWebhook"
  <2>1. Place(k) = 5
    BY <1>1, PlaceOfKind, KindsDistinct DEF KindOrder
  <2>2. Before(k) = {KindOrder[j] : j \in 1 .. 4}
    <3>1. Before(k) = {KindOrder[j] : j \in 1 .. Place(k) - 1}
      BY DEF Before, Place
    <3>2. Place(k) - 1 = 4
      BY <2>1
    <3> QED BY <3>1, <3>2
  <2>3. Backend(k) = {KindOrder[2], KindOrder[3], KindOrder[4]}
    BY <1>1 DEF Backend, KindOrder
  <2> QED BY <2>2, <2>3
<1>2. CASE k = "podWebhook"
  <2>1. Place(k) = 9
    BY <1>2, PlaceOfKind, KindsDistinct DEF KindOrder
  <2>2. Before(k) = {KindOrder[j] : j \in 1 .. 8}
    <3>1. Before(k) = {KindOrder[j] : j \in 1 .. Place(k) - 1}
      BY DEF Before, Place
    <3>2. Place(k) - 1 = 8
      BY <2>1
    <3> QED BY <3>1, <3>2
  <2>3. Backend(k) = {KindOrder[6], KindOrder[7], KindOrder[8]}
    BY <1>2 DEF Backend, KindOrder
  <2> QED BY <2>2, <2>3
<1>3. CASE k \notin {"classWebhook", "podWebhook"}
  BY <1>3 DEF Backend
<1> QED BY <1>1, <1>2, <1>3

-----------------------------------------------------------------------------
(* What the worker writes                                                  *)

LEMMA StoredTwice ==
  ASSUME NEW data
  PROVE  Stored(Stored(data)) = Stored(data)
BY DEF Stored

LEMMA KeptRecord ==
  ASSUME NEW k \in Deployments, NEW i, NEW m, NEW l
  PROVE  Kept(k, [image |-> i, meta |-> m, tolerations |-> l]) =
           [image |-> i, meta |-> Stored(m), tolerations |-> Stored(l)]
BY DEF Kept

\* A write of a child makes one, which is never None.
LEMMA WantedTyped ==
  ASSUME NEW k \in Kinds, NEW have \in Child(k) \cup {None}, NEW o \in Overcommit,
         NEW key \in LabelKeys, NEW img \in Images
  PROVE  Wanted(k, have, o, key, img) \in Child(k)
<1> DEFINE want == Generated(k, o.spec, key, img)
<1>1. o.uid \in Uid /\ o.spec \in OvercommitSpec
  BY DEF Overcommit
<1>2. o.spec.meta \in Metas /\ o.spec.tolerations \in Tolerations
  BY <1>1 DEF OvercommitSpec
<1>3. CASE k \in Deployments
  <2> DEFINE M == {Stored(m) : m \in Metas}
             L == {Stored(l) : l \in Tolerations}
             D == [image : Images, meta : M, tolerations : L]
             m == IF k = "classController" /\ o.spec.meta = Nil THEN <<>> ELSE o.spec.meta
  <2>1. Content(k) = D
    BY <1>3 DEF Content, Deployments
  <2>2. want = [image |-> img, meta |-> m, tolerations |-> o.spec.tolerations]
    <3>1. CASE k = "classController"
      BY <3>1 DEF Generated, GeneratePodValidatingDeployment,
        GenerateOvercommitClassValidatingDeployment, GenerateOvercommitClassControllerDeployment
    <3>2. CASE k # "classController"
      BY <1>3, <3>2 DEF Generated, GeneratePodValidatingDeployment,
        GenerateOvercommitClassValidatingDeployment, GenerateOvercommitClassControllerDeployment, Deployments
    <3> QED BY <3>1, <3>2
  <2>3. Stored(m) \in M /\ Stored(o.spec.tolerations) \in L
    <3>1. Stored(m) = Stored(o.spec.meta)
      BY DEF Stored
    <3> QED BY <1>2, <3>1
  <2>4. Kept(k, want) \in D
    <3>1. Kept(k, want) =
            [image |-> img, meta |-> Stored(m), tolerations |-> Stored(o.spec.tolerations)]
      BY <1>3, <2>2, KeptRecord
    <3> QED BY <2>3, <3>1
  <2>5. ASSUME have # None
        PROVE  Kept(k, Rewritten(want, have.content)) \in D
    <3> DEFINE c == have.content
               rm == IF mapsEqual(want.meta, c.meta) THEN c.meta ELSE want.meta
               rl == IF TolerationsEqual(want.tolerations, c.tolerations)
                     THEN c.tolerations ELSE want.tolerations
    <3>1. c \in D
      BY <2>1, <2>5 DEF Child
    <3>2. Stored(c.meta) \in M /\ Stored(c.tolerations) \in L
      BY <3>1, StoredTwice
    <3>3. Stored(rm) \in M /\ Stored(rl) \in L
      BY <2>2, <2>3, <3>2
    <3>4. Rewritten(want, c) = [image |-> img, meta |-> rm, tolerations |-> rl]
      BY <2>2 DEF Rewritten
    <3> HIDE DEF rm, rl, want
    <3>5. Kept(k, Rewritten(want, c)) =
            [image |-> img, meta |-> Stored(rm), tolerations |-> Stored(rl)]
      BY <1>3, <3>4, KeptRecord
    <3> QED BY <3>3, <3>5
  <2> HIDE DEF D, want
  <2>6. CASE have = None
    BY <1>1, <2>1, <2>4, <2>6 DEF Wanted, Child, want
  <2>7. CASE have # None /\ Updated(want, have.content)
    BY <1>1, <1>3, <2>1, <2>5, <2>7 DEF Wanted, Child, want
  <2>8. CASE have # None /\ ~Updated(want, have.content)
    BY <2>8 DEF Wanted, want
  <2> QED BY <2>6, <2>7, <2>8
<1>4. CASE k \notin Deployments
  <2>1. Kept(k, want) \in Content(k)
    BY <1>4, KindsAssumption DEF Kept, Generated, Content, Deployments,
       GeneratePodValidatingWebhookConfiguration
  <2> QED BY <1>1, <1>4, <2>1 DEF Wanted, Child
<1> QED BY <1>3, <1>4

LEMMA NotNone ==
  /\ None \notin Overcommit
  /\ \A k \in Kinds : None \notin Child(k)
BY SentinelAssumption

LEMMA StatusTyped ==
  ASSUME NEW o \in Overcommit, NEW ready \in SUBSET Kinds
  PROVE  LET w == [o EXCEPT !.status = setCondition(o.status, ready)]
         IN  w \in Overcommit /\ w.spec = o.spec
<1>1. o.status \in OvercommitStatus
  BY DEF Overcommit
<1>2. setCondition(o.status, ready) \in OvercommitStatus
  <2>1. o.status.since \in {0, 1}
    BY <1>1 DEF OvercommitStatus
  <2>2. (IF Condition(ready) = o.status.condition THEN o.status.since ELSE 1 - o.status.since) \in {0, 1}
    BY <2>1
  <2>3. Condition(ready) \in {"none", "True", "False"}
    BY DEF Condition
  <2> QED BY <2>2, <2>3 DEF setCondition, OvercommitStatus
<1> QED BY <1>2 DEF Overcommit

-----------------------------------------------------------------------------
(* Steps that leave the children and the caches alone                      *)

USE DEF Counted

WorkerMoves ==
  /\ overcommit' \in Overcommit \cup {None}
  /\ overcommit' # None => overcommit # None /\ overcommit'.spec = overcommit.spec
  /\ UNCHANGED <<children, seen, cached, image, late, wanted, lost, edits>>
  /\ queued' \in BOOLEAN /\ Counted'
  /\ read' \in (Uid \X OvercommitSpec) \cup {None}

\* What they must keep is about the worker alone.
LEMMA WorkerStep ==
  ASSUME Inv, WorkerMoves, WorkerTyped', ReadIsSeen', TakenInOrder'
  PROVE  Inv'
<1> USE DEF WorkerMoves
<1>1. TypeOK'
  BY DEF Inv, TypeOK
<1>2. NoLostEdit'
  BY DEF Inv, NoLostEdit
<1>3. BackedWebhooks' /\ CachedExisted'
  BY DEF Inv, BackedWebhooks, CachedExisted, Existed
<1> QED BY <1>1, <1>2, <1>3 DEF Inv

\* The worker's part of a step that ends the reconciliation.
LEMMA Ended ==
  ASSUME Return
  PROVE  WorkerTyped' /\ TakenInOrder'
<1>1. "idle" \notin AllKinds
  BY TenKinds
<1> QED BY <1>1 DEF Return, WorkerTyped, TakenInOrder, Calls

\* A step that ends the reconciliation and writes nothing but the object.
LEMMA EndStep ==
  ASSUME Inv, WorkerMoves, Return, UNCHANGED read,
         queued' = TRUE \/ (UNCHANGED queued /\ pc \notin {"label", "get"})
  PROVE  Inv'
<1>1. ReadIsSeen'
  BY DEF Inv, ReadIsSeen, WorkerMoves
<1> QED BY <1>1, WorkerStep, Ended

\* A step in which the object stays as it is.
LEMMA Still ==
  ASSUME Inv, UNCHANGED <<store, caches, process, wanted, lost, edits>>,
         queued' \in BOOLEAN, Counted',
         read' \in (Uid \X OvercommitSpec) \cup {None}
  PROVE  WorkerMoves
BY DEF Inv, TypeOK, WorkerMoves, store, caches, process

LEMMA ReadsPreserveInv ==
  ASSUME Inv, Start \/ GetOvercommitLabel \/ GetOvercommit \/ RefreshOvercommit
  PROVE  Inv'
<1> USE DEF store, caches, process, history, bounds
<1>1. /\ seen \in Overcommit \cup {None} /\ None \notin Overcommit
      /\ "idle" \notin AllKinds /\ "label" \notin AllKinds /\ "get" \notin AllKinds
      /\ "finalizer" \notin AllKinds /\ "refresh" \notin AllKinds /\ "status" \notin AllKinds
  BY TenKinds, NotNone DEF Inv, TypeOK
<1>2. CASE Start
  <2>1. WorkerMoves
    BY <1>2, Still DEF Start, Inv, TypeOK
  <2>2. WorkerTyped' /\ ReadIsSeen' /\ TakenInOrder'
    BY <1>1, <1>2 DEF Start, Inv, TypeOK, WorkerTyped, ReadIsSeen, TakenInOrder, Calls
  <2> QED BY <2>1, <2>2, WorkerStep
<1>3. CASE GetOvercommitLabel
  <2>1. WorkerMoves
    BY <1>3, Still DEF GetOvercommitLabel, Retry, Inv, TypeOK
  <2>2. CASE seen = None
    BY <1>3, <2>1, <2>2, EndStep DEF GetOvercommitLabel, Retry
  <2>3. CASE seen # None
    <3>1. seen.spec.key \in LabelKeys
      BY <1>1, <2>3 DEF Overcommit, OvercommitSpec
    <3>2. WorkerTyped' /\ ReadIsSeen' /\ TakenInOrder'
      BY <1>1, <1>3, <2>3, <3>1
         DEF GetOvercommitLabel, Inv, TypeOK, WorkerTyped, ReadIsSeen, TakenInOrder, Calls
    <3> QED BY <2>1, <3>2, WorkerStep
  <2> QED BY <2>2, <2>3
<1>4. CASE GetOvercommit
  <2>1. Identity(seen) \in (Uid \X OvercommitSpec) \cup {None}
    BY <1>1 DEF Identity, Overcommit
  <2>2. WorkerMoves
    BY <1>4, <2>1, Still DEF GetOvercommit, Done, Inv, TypeOK
  <2>3. ReadIsSeen'
    BY <1>4 DEF GetOvercommit, ReadIsSeen, Identity
  <2>4. CASE seen = None
    BY <1>4, <2>2, <2>3, <2>4, WorkerStep, Ended DEF GetOvercommit, Done
  <2>5. CASE seen # None
    <3>1. pc' = "finalizer" \/ (pc' = ChildFrom(1) /\ pc' \in AllKinds \cup {"refresh"})
      BY <1>4, <2>5, FirstChild DEF GetOvercommit
    <3>2. WorkerTyped'
      BY <1>1, <1>4, <2>5, <3>1, BoundsAssumption DEF GetOvercommit, Inv, TypeOK, WorkerTyped, Calls
    <3>3. TakenInOrder'
      BY <1>1, <3>1, FirstChild DEF TakenInOrder
    <3> QED BY <2>2, <2>3, <3>2, <3>3, WorkerStep
  <2> QED BY <2>4, <2>5
<1>5. CASE RefreshOvercommit
  <2>1. WorkerMoves
    BY <1>5, Still DEF RefreshOvercommit, Done, Inv, TypeOK
  <2>2. CASE seen = None
    BY <1>5, <2>1, <2>2, EndStep DEF RefreshOvercommit, Done
  <2>3. CASE seen # None
    <3>1. label' \in LabelKeys /\ attempt \in 0 .. MaxAttempts - 1
      BY <1>1, <1>5, <2>3 DEF RefreshOvercommit, Inv, TypeOK, WorkerTyped
    <3>2. attempt' \in 1 .. MaxAttempts
      BY <1>5, <2>3, <3>1, BoundsAssumption DEF RefreshOvercommit
    <3>3. WorkerTyped'
      BY <1>1, <1>5, <2>3, <3>1, <3>2 DEF RefreshOvercommit, WorkerTyped, Calls
    <3>4. ReadIsSeen' /\ TakenInOrder'
      BY <1>1, <1>5, <2>3 DEF RefreshOvercommit, Inv, ReadIsSeen, TakenInOrder
    <3> QED BY <2>1, <3>3, <3>4, WorkerStep
  <2> QED BY <2>2, <2>3
<1> QED BY <1>2, <1>3, <1>4, <1>5

LEMMA RemoveFinalizersPreservesInv ==
  ASSUME Inv, RemoveFinalizers
  PROVE  Inv'
<1> USE DEF RemoveFinalizers, caches, process, history, bounds
<1>1. snap \in Overcommit
  BY DEF Inv, TypeOK, WorkerTyped
<1>2. \/ overcommit' = overcommit \/ overcommit' = None
      \/ overcommit = snap /\ overcommit' = [snap EXCEPT !.finalizer = FALSE]
  BY DEF Fresh
<1>3. /\ overcommit' \in Overcommit \cup {None}
      /\ overcommit' # None => overcommit # None /\ overcommit'.spec = overcommit.spec
  BY <1>1, <1>2, NotNone DEF Inv, TypeOK, Overcommit
<1>4. WorkerMoves
  BY <1>3 DEF WorkerMoves, Retry, Inv, TypeOK
<1> QED BY <1>4, EndStep DEF Retry

\* A write of the status, which UpdateStatus and ReadFails share.
LEMMA StatusWritten ==
  ASSUME Inv, pc = "status", Fresh, NEW ready \in SUBSET Kinds,
         overcommit' = [snap EXCEPT !.status = setCondition(snap.status, ready)],
         Done, Counted',
         UNCHANGED <<children, caches, process, history, edits>>
  PROVE  Inv'
<1> USE DEF caches, process, history
<1>1. snap \in Overcommit
  BY DEF Inv, TypeOK, WorkerTyped
<1>2. overcommit' \in Overcommit /\ overcommit'.spec = snap.spec
  BY <1>1, StatusTyped
<1>3. WorkerMoves
  BY <1>1, <1>2, NotNone DEF WorkerMoves, Fresh, Done, Inv, TypeOK
<1> QED BY <1>3, EndStep DEF Done

LEMMA UpdateStatusPreservesInv ==
  ASSUME Inv, UpdateStatus
  PROVE  Inv'
<1> USE DEF UpdateStatus
<1>1. CASE Fresh
  <2>1. Present \in SUBSET Kinds
    BY DEF Present
  <2>2. Counted' /\ UNCHANGED edits
    BY DEF Inv, TypeOK, bounds
  <2> QED BY <1>1, <2>1, <2>2, StatusWritten
<1>2. CASE ~Fresh /\ overcommit # None /\ AttemptsLeft
  <2>1. WorkerMoves
    BY <1>2, Still DEF Inv, TypeOK, store, history, bounds
  <2>2. attempt \in 0 .. MaxAttempts - 1
    BY <1>2, BoundsAssumption DEF Inv, TypeOK, WorkerTyped, AttemptsLeft
  <2>3. "refresh" \notin AllKinds
    BY TenKinds
  <2>4. pc = "status" /\ pc' = "refresh" /\ UNCHANGED <<snap, label, attempt, queued, read, seen>>
    BY <1>2 DEF history, caches
  <2>5. snap \in Overcommit /\ label \in LabelKeys
    BY <2>4 DEF Inv, TypeOK, WorkerTyped
  <2>6. WorkerTyped'
    BY <2>2, <2>4, <2>5 DEF WorkerTyped, Calls
  <2>7. ReadIsSeen' /\ TakenInOrder'
    BY <2>3, <2>4 DEF Inv, ReadIsSeen, TakenInOrder
  <2> QED BY <2>1, <2>6, <2>7, WorkerStep
<1>3. CASE ~Fresh /\ ~(overcommit # None /\ AttemptsLeft)
  <2>1. Done /\ UNCHANGED overcommit
    BY <1>3
  <2>2. WorkerMoves
    BY <2>1, Still DEF Done, Inv, TypeOK, store, history, bounds
  <2> QED BY <2>1, <2>2, EndStep DEF Done, history
<1> QED BY <1>1, <1>2, <1>3

LEMMA FailuresPreserveInv ==
  ASSUME Inv, CallFails \/ StatusFails \/ ReadFails
  PROVE  Inv'
<1>1. Counted' /\ UNCHANGED edits
  BY BoundsAssumption DEF CallFails, StatusFails, ReadFails, Fault, Inv, TypeOK
<1>2. CASE CallFails
  <2>1. WorkerMoves
    BY <1>1, <1>2, Still DEF CallFails, Retry, Inv, TypeOK, history
  <2> QED BY <1>2, <2>1, EndStep DEF CallFails, Retry, history
<1>3. CASE StatusFails
  <2>1. WorkerMoves
    BY <1>1, <1>3, Still DEF StatusFails, Done, Inv, TypeOK, history
  <2> QED BY <1>3, <2>1, EndStep DEF StatusFails, Done, history
<1>4. CASE ReadFails
  <2>1. PICK k \in Present :
          overcommit' = [snap EXCEPT !.status = setCondition(snap.status, Present \ {k})]
    BY <1>4 DEF ReadFails
  <2>2. Present \ {k} \in SUBSET Kinds
    BY DEF Present
  <2> QED BY <1>1, <1>4, <2>1, <2>2, StatusWritten DEF ReadFails
<1> QED BY <1>2, <1>3, <1>4

-----------------------------------------------------------------------------
(* Writes of children                                                      *)

\* A write of one child whose predecessors have existed, by either process.
LEMMA ChildWritten ==
  ASSUME Inv, NEW k \in Kinds, NEW child \in Child(k),
         children' = [children EXCEPT ![k] = child],
         \A b \in Before(k) \cap Kinds : Existed(b),
         UNCHANGED <<overcommit, caches, process, history, edits>>,
         queued' \in BOOLEAN, Counted', WorkerTyped', ReadIsSeen',
         pc' \in AllKinds => \A c \in Before(pc') \cap Kinds : c = k \/ Existed(c)
  PROVE  Inv'
<1> USE DEF caches, process, history
<1>1. \A c \in Kinds : children'[c] = IF c = k THEN child ELSE children[c]
  BY DEF Inv, TypeOK
<1>2. child # None /\ k \in AllKinds
  BY NotNone, KindsAssumption
<1>3. \A c \in Kinds : (c = k \/ Existed(c)) => Existed(c)'
  BY <1>1, <1>2 DEF Existed
<1>4. TypeOK'
  <2>1. children' = [c \in Kinds |-> children'[c]]
    BY DEF Inv, TypeOK
  <2>2. \A c \in Kinds : children'[c] \in Child(c) \cup {None} /\ cached'[c] \in Child(c) \cup {None}
    BY <1>1 DEF Inv, TypeOK
  <2> QED BY <2>1, <2>2 DEF Inv, TypeOK
<1>5. NoLostEdit'
  BY DEF Inv, NoLostEdit
<1>6. BackedWebhooks'
  <2>1. SUFFICES ASSUME NEW w \in Kinds, children'[w] # None, NEW b \in Backend(w) \cap Kinds
                 PROVE  Existed(b)'
    BY DEF BackedWebhooks, Existed
  <2>2. CASE w = k
    BY <1>2, <1>3, <2>2, BackendBefore
  <2>3. CASE w # k
    <3>1. Existed(b)
      BY <1>1, <2>1, <2>3 DEF Inv, BackedWebhooks, Existed
    <3> QED BY <1>3, <3>1
  <2> QED BY <2>2, <2>3
<1>7. CachedExisted'
  BY <1>3 DEF Inv, CachedExisted
<1>8. TakenInOrder'
  BY <1>3 DEF TakenInOrder
<1> QED BY <1>4, <1>5, <1>6, <1>7, <1>8 DEF Inv

\* What the worker holds while it takes the children.
LEMMA Taking ==
  ASSUME Inv, NEW k \in Kinds, pc = k
  PROVE  /\ k \in AllKinds /\ snap \in Overcommit /\ label \in LabelKeys /\ attempt = 0
         /\ Wanted(k, cached[k], snap, label, image) \in Child(k)
         /\ \A b \in Before(k) \cap Kinds : Existed(b)
         /\ read = Identity(seen) \/ queued
<1>1. k \in AllKinds /\ k \notin {"idle", "label", "get", "finalizer", "refresh", "status"}
  BY KindsAssumption, TenKinds
<1>2. snap \in Overcommit /\ label \in LabelKeys /\ attempt = 0
  BY <1>1 DEF Inv, TypeOK, WorkerTyped
<1>3. cached[k] \in Child(k) \cup {None} /\ image \in Images
  BY DEF Inv, TypeOK
<1>4. Wanted(k, cached[k], snap, label, image) \in Child(k)
  BY <1>2, <1>3, WantedTyped
<1>5. (\A b \in Before(k) \cap Kinds : Existed(b)) /\ (read = Identity(seen) \/ queued)
  BY <1>1 DEF Inv, TakenInOrder, ReadIsSeen
<1> QED BY <1>1, <1>2, <1>4, <1>5

\* After a child comes the next, or the status update.
LEMMA GoesOn ==
  ASSUME Inv, NEW k \in Kinds, pc = k, pc' = NextCall(k),
         UNCHANGED <<snap, label, attempt, queued, read, seen>>
  PROVE  /\ WorkerTyped' /\ ReadIsSeen'
         /\ pc' \in AllKinds => \A c \in Before(pc') \cap Kinds : c = k \/ Existed(c)
<1>1. /\ k \in AllKinds /\ snap \in Overcommit /\ label \in LabelKeys /\ attempt = 0
      /\ \A b \in Before(k) \cap Kinds : Existed(b)
      /\ read = Identity(seen) \/ queued
  BY Taking
<1>2. pc' \in AllKinds \cup {"refresh"}
  BY <1>1, NextChild
<1>3. /\ "idle" \notin AllKinds /\ "label" \notin AllKinds /\ "get" \notin AllKinds
      /\ "status" \notin AllKinds
  BY TenKinds
<1>4. WorkerTyped'
  <2>1. pc' \in Calls \cup {"idle"}
    BY <1>2 DEF Calls
  <2>2. 0 \in 0 .. MaxAttempts - 1
    BY BoundsAssumption
  <2> QED BY <1>1, <1>2, <1>3, <2>1, <2>2 DEF WorkerTyped
<1>5. ReadIsSeen'
  BY <1>1 DEF ReadIsSeen
<1>6. pc' \in AllKinds => \A c \in Before(pc') \cap Kinds : c = k \/ Existed(c)
  BY <1>1, NextChild
<1> QED BY <1>4, <1>5, <1>6

LEMMA CreateOrUpdatePreservesInv ==
  ASSUME Inv, NEW k \in Kinds, CreateOrUpdate(k)
  PROVE  Inv'
<1> DEFINE child == Wanted(k, cached[k], snap, label, image)
<1>1. pc = k /\ UNCHANGED <<overcommit, caches, process, history, bounds>>
  BY DEF CreateOrUpdate
<1>2. child \in Child(k) /\ \A b \in Before(k) \cap Kinds : Existed(b)
  BY <1>1, Taking
<1>3. Counted' /\ UNCHANGED edits /\ queued \in BOOLEAN
  BY <1>1 DEF Inv, TypeOK, bounds
<1> HIDE DEF child
<1>4. CASE /\ children' = [children EXCEPT ![k] = child]
           /\ pc' = NextCall(k) /\ UNCHANGED <<queued, snap, label, attempt>>
  <2>1. /\ WorkerTyped' /\ ReadIsSeen'
        /\ pc' \in AllKinds => \A c \in Before(pc') \cap Kinds : c = k \/ Existed(c)
    BY <1>1, <1>4, GoesOn DEF caches, history
  <2> QED BY <1>1, <1>2, <1>3, <1>4, <2>1, ChildWritten
<1>5. CASE /\ child = cached[k] /\ UNCHANGED children
           /\ pc' = NextCall(k) /\ UNCHANGED <<queued, snap, label, attempt>>
  <2>1. WorkerMoves
    BY <1>1, <1>3, <1>5, Still DEF Inv, TypeOK, store, history
  <2>2. /\ WorkerTyped' /\ ReadIsSeen'
        /\ pc' \in AllKinds => \A c \in Before(pc') \cap Kinds : c = k \/ Existed(c)
    BY <1>1, <1>5, GoesOn DEF caches, history
  <2>3. Existed(k)
    BY <1>2, <1>5, NotNone DEF Inv, CachedExisted
  <2>4. \A c \in Kinds : Existed(c)' <=> Existed(c)
    BY <1>1, <1>5 DEF Existed, history
  <2>5. TakenInOrder'
    BY <2>2, <2>3, <2>4 DEF TakenInOrder
  <2> QED BY <2>1, <2>2, <2>5, WorkerStep
<1>6. CASE Retry /\ UNCHANGED children
  <2>1. WorkerMoves
    BY <1>1, <1>3, <1>6, Still DEF Retry, Inv, TypeOK, store, history
  <2> QED BY <1>1, <1>6, <2>1, EndStep DEF Retry, history
<1> QED BY <1>4, <1>5, <1>6 DEF CreateOrUpdate, child

LEMMA AnswerLostPreservesInv ==
  ASSUME Inv, AnswerLost
  PROVE  Inv'
<1>1. PICK k \in Kinds :
        pc = k /\ children' = [children EXCEPT ![k] = Wanted(k, cached[k], snap, label, image)]
  BY DEF AnswerLost
<1>2. /\ Retry /\ UNCHANGED <<overcommit, caches, process, history, edits>>
      /\ Counted'
  BY BoundsAssumption DEF AnswerLost, Fault, Inv, TypeOK
<1>3. /\ Wanted(k, cached[k], snap, label, image) \in Child(k)
      /\ \A b \in Before(k) \cap Kinds : Existed(b)
  BY <1>1, Taking
<1>4. WorkerTyped' /\ pc' \notin AllKinds /\ queued' = TRUE
  BY <1>2, Ended, TenKinds DEF Retry, Return
<1>5. ReadIsSeen'
  BY <1>4 DEF ReadIsSeen
<1> QED BY <1>1, <1>2, <1>3, <1>4, <1>5, ChildWritten

LEMMA LatePreservesInv ==
  ASSUME Inv, Late
  PROVE  Inv'
<1>1. CASE LateStops
  <2> USE <1>1 DEF LateStops, store, caches, worker, history, bounds
  <2>1. WorkerTyped' /\ ReadIsSeen' /\ TakenInOrder'
    BY DEF Inv, TypeOK, WorkerTyped, ReadIsSeen, TakenInOrder, Existed
  <2>2. TypeOK'
    BY <2>1 DEF Inv, TypeOK
  <2>3. NoLostEdit' /\ BackedWebhooks' /\ CachedExisted'
    BY DEF Inv, NoLostEdit, BackedWebhooks, CachedExisted, Existed
  <2> QED BY <2>1, <2>2, <2>3 DEF Inv
<1>2. ASSUME NEW k \in Kinds, LateWrite(k)
      PROVE  Inv'
  <2>1. PICK o \in {overcommit, seen} \ {None} :
          children' = [children EXCEPT ![k] = Wanted(k, children[k], o, o.spec.key, late)]
    BY <1>2 DEF LateWrite
  <2>10. /\ late # None /\ UNCHANGED <<overcommit, caches, queued, worker, process, history, bounds>>
         /\ \A b \in Before(k) \cap Kinds : children[b] # None \/ cached[b] # None
    BY <1>2 DEF LateWrite
  <2> DEFINE child == Wanted(k, children[k], o, o.spec.key, late)
  <2>2. /\ o \in Overcommit /\ late \in Images /\ children[k] \in Child(k) \cup {None}
        /\ queued \in BOOLEAN /\ Counted
    BY <2>1, <2>10 DEF Inv, TypeOK
  <2>3. o.spec.key \in LabelKeys
    BY <2>2 DEF Overcommit, OvercommitSpec
  <2>4. child \in Child(k)
    BY <2>2, <2>3, WantedTyped
  <2>5. WorkerTyped' /\ ReadIsSeen'
    BY <2>10 DEF Inv, TypeOK, WorkerTyped, ReadIsSeen, worker, caches, history
  <2>6. pc' \in AllKinds => \A c \in Before(pc') \cap Kinds : c = k \/ Existed(c)
    BY <2>10 DEF Inv, TakenInOrder, worker
  <2>7. \A b \in Before(k) \cap Kinds : Existed(b)
    BY <2>10 DEF Existed, Inv, CachedExisted
  <2>8. queued' \in BOOLEAN /\ Counted' /\ UNCHANGED edits
    BY <2>2, <2>10 DEF bounds, Counted
  <2>9. children' = [children EXCEPT ![k] = child]
    BY <2>1
  <2> HIDE DEF child
  <2> QED BY <2>9, <2>10, <2>4, <2>5, <2>6, <2>7, <2>8, ChildWritten
<1> QED BY <1>1, <1>2 DEF Late

-----------------------------------------------------------------------------
(* Caches, collection and users                                            *)

LEMMA CachesPreserveInv ==
  ASSUME Inv, ObserveOvercommit \/ Resync \/ Restart \/ \E k \in Kinds : ObserveChild(k)
  PROVE  Inv'
<1> USE DEF store, history, bounds
<1>1. CASE ObserveOvercommit
  <2> USE <1>1 DEF ObserveOvercommit, worker, process
  <2>1. WorkerTyped' /\ ReadIsSeen' /\ TakenInOrder'
    BY DEF Inv, TypeOK, WorkerTyped, ReadIsSeen, TakenInOrder, Existed
  <2>2. TypeOK'
    BY <2>1 DEF Inv, TypeOK
  <2>3. NoLostEdit' /\ BackedWebhooks' /\ CachedExisted'
    BY DEF Inv, NoLostEdit, BackedWebhooks, CachedExisted, Existed
  <2> QED BY <2>1, <2>2, <2>3 DEF Inv
<1>2. CASE Resync
  <2>1. WorkerMoves
    BY <1>2, Still DEF Resync, Inv, TypeOK
  <2>2. WorkerTyped' /\ ReadIsSeen' /\ TakenInOrder'
    BY <1>2 DEF Resync, worker, Inv, TypeOK, WorkerTyped, ReadIsSeen, TakenInOrder, Existed
  <2> QED BY <2>1, <2>2, WorkerStep
<1>3. CASE Restart
  <2>1. /\ Return /\ queued' = (overcommit # None) /\ seen' = overcommit /\ cached' = children
        /\ image' \in Images /\ late' \in {None, image} /\ read' = None
        /\ UNCHANGED <<overcommit, children, wanted, lost, edits>>
    BY <1>3 DEF Restart, Fault
  <2>2. Counted'
    BY <1>3, BoundsAssumption DEF Restart, Fault, Inv, TypeOK
  <2>3. WorkerTyped' /\ TakenInOrder'
    BY <2>1, Ended
  <2>4. ReadIsSeen'
    BY <2>1 DEF ReadIsSeen, Identity
  <2>5. TypeOK'
    BY <2>1, <2>2, <2>3 DEF Inv, TypeOK
  <2>6. NoLostEdit' /\ BackedWebhooks' /\ CachedExisted'
    BY <2>1 DEF Inv, NoLostEdit, BackedWebhooks, CachedExisted, Existed
  <2> QED BY <2>3, <2>4, <2>5, <2>6 DEF Inv
<1>4. ASSUME NEW k \in Kinds, ObserveChild(k)
      PROVE  Inv'
  <2>1. /\ cached' = [cached EXCEPT ![k] = children[k]]
        /\ UNCHANGED <<overcommit, children, seen, queued, pc, snap, label, attempt, image, late,
                       wanted, read, lost, edits, faults>>
    BY <1>4 DEF ObserveChild, worker, process
  <2>2. /\ \A c \in Kinds : cached'[c] = IF c = k THEN children[c] ELSE cached[c]
        /\ cached' = [c \in Kinds |-> cached'[c]]
    BY <2>1 DEF Inv, TypeOK
  <2>3. WorkerTyped' /\ ReadIsSeen' /\ TakenInOrder'
    BY <2>1 DEF Inv, TypeOK, WorkerTyped, ReadIsSeen, TakenInOrder, Existed
  <2>4. \A c \in Kinds : children'[c] \in Child(c) \cup {None} /\ cached'[c] \in Child(c) \cup {None}
    BY <2>1, <2>2 DEF Inv, TypeOK
  <2>5. TypeOK'
    BY <2>1, <2>2, <2>3, <2>4 DEF Inv, TypeOK
  <2>6. NoLostEdit' /\ BackedWebhooks'
    BY <2>1 DEF Inv, NoLostEdit, BackedWebhooks
  <2>7. CachedExisted'
    BY <2>1, <2>2 DEF Inv, CachedExisted, Existed
  <2> QED BY <2>3, <2>5, <2>6, <2>7 DEF Inv
<1> QED BY <1>1, <1>2, <1>3, <1>4

\* Steps of users and of the collector: children only go, and the object may become
\* any that a user wants.
ClusterMoves ==
  /\ UNCHANGED <<seen, cached, queued, pc, snap, label, attempt, image, late, read, faults>>
  /\ overcommit' \in Overcommit \cup {None} /\ wanted' \in OvercommitSpec
  /\ overcommit' # None => overcommit'.spec = wanted'
  /\ children' = [k \in Kinds |-> children'[k]]
  /\ lost \subseteq lost' /\ lost' \subseteq Kinds
  /\ \A k \in Kinds : children'[k] = children[k] \/ (children'[k] = None /\ k \in lost')
  /\ Counted'

LEMMA ClusterStep ==
  ASSUME Inv, ClusterMoves
  PROVE  Inv'
<1> USE DEF ClusterMoves
<1>1. \A k \in Kinds : Existed(k) => Existed(k)'
  BY DEF Existed
<1>2. WorkerTyped' /\ ReadIsSeen'
  BY DEF Inv, TypeOK, WorkerTyped, ReadIsSeen
<1>3. TypeOK'
  <2>1. \A k \in Kinds : children'[k] \in Child(k) \cup {None} /\ cached'[k] \in Child(k) \cup {None}
    BY DEF Inv, TypeOK
  <2> QED BY <1>2, <2>1 DEF Inv, TypeOK
<1>4. NoLostEdit'
  BY DEF NoLostEdit
<1>5. BackedWebhooks'
  BY <1>1 DEF Inv, BackedWebhooks, Existed
<1>6. CachedExisted' /\ TakenInOrder'
  BY <1>1 DEF Inv, CachedExisted, TakenInOrder
<1> QED BY <1>2, <1>3, <1>4, <1>5, <1>6 DEF Inv

LEMMA ChildGone ==
  ASSUME Inv, NEW k \in Kinds, children' = [children EXCEPT ![k] = None], lost' = lost \cup {k}
  PROVE  /\ children' = [c \in Kinds |-> children'[c]]
         /\ lost \subseteq lost' /\ lost' \subseteq Kinds
         /\ \A c \in Kinds : children'[c] = children[c] \/ (children'[c] = None /\ c \in lost')
<1>1. \A c \in Kinds : children'[c] = IF c = k THEN None ELSE children[c]
  BY DEF Inv, TypeOK
<1>2. children' = [c \in Kinds |-> children'[c]]
  BY DEF Inv, TypeOK
<1> QED BY <1>1, <1>2 DEF Inv, TypeOK

LEMMA CollectChildPreservesInv ==
  ASSUME Inv, NEW k \in Kinds, CollectChild(k)
  PROVE  Inv'
<1>1. ClusterMoves
  BY ChildGone
     DEF CollectChild, caches, worker, process, bounds, ClusterMoves, Inv, TypeOK, NoLostEdit, Counted
<1> QED BY <1>1, ClusterStep

LEMMA UserPreservesInv ==
  ASSUME Inv, User
  PROVE  Inv'
<1>1. ClusterMoves
  <2>1. /\ edits \in 0 .. MaxChanges - 1 /\ Counted'
        /\ UNCHANGED <<seen, cached, queued, pc, snap, label, attempt, image, late, read, faults>>
    BY BoundsAssumption
       DEF User, CreateOvercommit, EditOvercommit, DeleteOvercommit, DeleteChild, Edit,
           caches, worker, process, Inv, TypeOK, Counted
  <2>2. /\ children = [k \in Kinds |-> children[k]] /\ lost \subseteq Kinds
        /\ overcommit \in Overcommit \cup {None} /\ wanted \in OvercommitSpec
        /\ overcommit # None => overcommit.spec = wanted
    BY DEF Inv, TypeOK, NoLostEdit
  <2>3. CASE CreateOvercommit
    <3>1. PICK s \in OvercommitSpec :
            /\ overcommit' = [uid |-> edits + 3, spec |-> s, finalizer |-> FALSE,
                              deleting |-> FALSE, status |-> NewStatus]
            /\ wanted' = s
      BY <2>3 DEF CreateOvercommit
    <3>2. NewStatus \in OvercommitStatus /\ edits + 3 \in Uid
      BY <2>1, BoundsAssumption DEF NewStatus, OvercommitStatus, Uid
    <3>3. overcommit' \in Overcommit /\ overcommit'.spec = wanted' /\ wanted' \in OvercommitSpec
      BY <3>1, <3>2 DEF Overcommit
    <3> QED BY <2>1, <2>2, <2>3, <3>3 DEF CreateOvercommit, ClusterMoves
  <2>4. CASE EditOvercommit
    <3>1. PICK s \in OvercommitSpec :
            overcommit # None /\ overcommit' = [overcommit EXCEPT !.spec = s] /\ wanted' = s
      BY <2>4 DEF EditOvercommit
    <3>2. overcommit' \in Overcommit /\ overcommit'.spec = s
      BY <2>2, <3>1 DEF Overcommit
    <3> QED BY <2>1, <2>2, <2>4, <3>1, <3>2 DEF EditOvercommit, ClusterMoves
  <2>5. CASE DeleteOvercommit
    <3>1. /\ overcommit # None
          /\ overcommit' = None \/ overcommit' = [overcommit EXCEPT !.deleting = TRUE]
      BY <2>5 DEF DeleteOvercommit
    <3>2. overcommit' # None => overcommit' \in Overcommit /\ overcommit'.spec = overcommit.spec
      BY <2>2, <3>1 DEF Overcommit
    <3> QED BY <2>1, <2>2, <2>5, <3>1, <3>2 DEF DeleteOvercommit, ClusterMoves
  <2>6. CASE DeleteChild
    BY <2>1, <2>2, <2>6, ChildGone DEF DeleteChild, ClusterMoves
  <2> QED BY <2>3, <2>4, <2>5, <2>6 DEF User
<1> QED BY <1>1, ClusterStep

LEMMA InitEstablishesInv == Init => Inv
<1> SUFFICES ASSUME Init PROVE Inv
  OBVIOUS
<1>1. /\ queued = TRUE /\ pc = "idle" /\ snap = None /\ label = None /\ attempt = 0
      /\ cached = children /\ seen = overcommit /\ late = None /\ read = None /\ lost = {}
      /\ Counted
  BY BoundsAssumption DEF Init
<1>2. overcommit \in Overcommit /\ wanted \in OvercommitSpec /\ overcommit.spec = wanted
  <2>1. PICK s \in OvercommitSpec, f \in BOOLEAN :
          /\ overcommit = [uid |-> 2, spec |-> s, finalizer |-> f, deleting |-> FALSE,
                           status |-> NewStatus]
          /\ wanted = s
    BY DEF Init
  <2>2. NewStatus \in OvercommitStatus /\ 2 \in Uid
    BY BoundsAssumption DEF NewStatus, OvercommitStatus, Uid
  <2> QED BY <2>1, <2>2 DEF Overcommit
<1>3. /\ children = [k \in Kinds |-> children[k]]
      /\ \/ \A k \in Kinds : children[k] = None
         \/ \A k \in Kinds : children[k] \in Child(k)
  <2>1. CASE children = [k \in Kinds |-> None]
    BY <2>1
  <2>2. ASSUME NEW s \in OvercommitSpec, NEW img \in Images, children = Orphans(s, img)
        PROVE  children = [k \in Kinds |-> children[k]] /\ \A k \in Kinds : children[k] \in Child(k)
    <3>1. ASSUME NEW k \in Kinds PROVE children[k] \in Child(k)
      <4> DEFINE o == [uid |-> 1, spec |-> s, finalizer |-> FALSE, deleting |-> FALSE,
                       status |-> NewStatus]
      <4>1. NewStatus \in OvercommitStatus /\ 1 \in Uid /\ s.key \in LabelKeys
        BY BoundsAssumption DEF NewStatus, OvercommitStatus, Uid, OvercommitSpec
      <4>2. o \in Overcommit
        BY <4>1 DEF Overcommit
      <4>3. Wanted(k, None, o, s.key, img) \in Child(k)
        BY <4>1, <4>2, WantedTyped
      <4>4. children[k] = Wanted(k, None, o, s.key, img)
        BY <2>2 DEF Orphans, Wanted
      <4> QED BY <4>3, <4>4
    <3> QED BY <2>2, <3>1 DEF Orphans
  <2> QED BY <2>1, <2>2 DEF Init
<1>4. image \in Images
  BY ImagesAssumption DEF Init
<1>5. "idle" \notin AllKinds
  BY TenKinds
<1>6. WorkerTyped /\ ReadIsSeen /\ TakenInOrder
  BY <1>1, <1>5 DEF WorkerTyped, ReadIsSeen, TakenInOrder
<1>7. TypeOK
  BY <1>1, <1>2, <1>3, <1>4, <1>6 DEF TypeOK
<1>8. NoLostEdit
  BY <1>2 DEF NoLostEdit
<1>9. BackedWebhooks /\ CachedExisted
  BY <1>1, <1>3, NotNone DEF BackedWebhooks, CachedExisted, Existed
<1> QED BY <1>6, <1>7, <1>8, <1>9 DEF Inv

LEMMA NextPreservesInv == Inv /\ [Next]_vars => Inv'
<1> SUFFICES ASSUME Inv, [Next]_vars PROVE Inv'
  OBVIOUS
<1>1. CASE UNCHANGED vars
  <2> USE <1>1 DEF vars, store, caches, worker, process, history, bounds
  <2>1. WorkerTyped' /\ ReadIsSeen' /\ TakenInOrder'
    BY DEF Inv, TypeOK, WorkerTyped, ReadIsSeen, TakenInOrder, Existed
  <2>2. TypeOK'
    BY <2>1 DEF Inv, TypeOK
  <2>3. NoLostEdit' /\ BackedWebhooks' /\ CachedExisted'
    BY DEF Inv, NoLostEdit, BackedWebhooks, CachedExisted, Existed
  <2> QED BY <2>1, <2>2, <2>3 DEF Inv
<1>2. CASE Step
  BY <1>2, ReadsPreserveInv, RemoveFinalizersPreservesInv, CreateOrUpdatePreservesInv,
     UpdateStatusPreservesInv DEF Step
<1>3. CASE Observe \/ Resync \/ Restart
  BY <1>3, CachesPreserveInv DEF Observe
<1>4. CASE Late \/ User \/ \E k \in Kinds : CollectChild(k)
  BY <1>4, LatePreservesInv, UserPreservesInv, CollectChildPreservesInv
<1>5. CASE CallFails \/ StatusFails \/ ReadFails \/ AnswerLost
  BY <1>5, FailuresPreserveInv, AnswerLostPreservesInv
<1> QED BY <1>1, <1>2, <1>3, <1>4, <1>5 DEF Next

THEOREM Invariance == Spec => []Inv
<1>1. Init => Inv
  BY InitEstablishesInv
<1>2. Inv /\ [Next]_vars => Inv'
  BY NextPreservesInv
<1> QED BY <1>1, <1>2, PTL DEF Spec

\* Every variable keeps its type, and the status update is never tried more often
\* than MaxAttempts times.
THEOREM TypeCorrect == Spec => []TypeOK
BY Invariance, PTL DEF Inv

\* Neither the removal of finalizers nor a status update undoes a user's edit.
THEOREM EditsKept == Spec => []NoLostEdit
BY Invariance, PTL DEF Inv

\* No early return, failure, conflict or restart makes the controller forget a
\* change of the object.
THEOREM WakeupsKept == Spec => []NoLostWakeup
<1>1. Inv => NoLostWakeup
  BY DEF Inv, ReadIsSeen, NoLostWakeup
<1> QED BY <1>1, Invariance, PTL

\* Whatever fails, restarts, lags or runs late, a webhook is registered only after
\* its Certificate, Deployment and Service.
THEOREM WebhooksBacked == Spec => []BackedWebhooks
BY Invariance, PTL DEF Inv

-----------------------------------------------------------------------------
(* The refinement of Reconciler                                            *)

LEMMA Versioned ==
  ASSUME NEW o \in Overcommit
  PROVE  Identity(o) \in Uid \X OvercommitSpec /\ Identity(o) # None
<1>1. o # None /\ <<o.uid, o.spec>> \in Uid \X OvercommitSpec
  BY NotNone DEF Overcommit
<1> QED BY <1>1, SentinelAssumption DEF Identity

LEMMA VersionNone ==
  ASSUME NEW o \in Overcommit \cup {None}
  PROVE  Identity(o) = None <=> o = None
<1>1. Identity(None) = None
  BY DEF Identity
<1> QED BY <1>1, Versioned

\* The worker's own writes.
LEMMA WriteKeepsVersion ==
  ASSUME Inv, Fresh, pc \in {"finalizer", "status"},
         \/ overcommit' = [snap EXCEPT !.finalizer = FALSE]
         \/ \E ready \in SUBSET Kinds :
              overcommit' = [snap EXCEPT !.status = setCondition(snap.status, ready)]
  PROVE  Identity(overcommit)' = Identity(overcommit) /\ Deleting' = Deleting
<1>1. overcommit = snap /\ overcommit \in Overcommit /\ overcommit # None
  BY NotNone DEF Inv, TypeOK, WorkerTyped, Fresh
<1>2. overcommit' \in Overcommit
  <2>1. CASE overcommit' = [snap EXCEPT !.finalizer = FALSE]
    BY <1>1, <2>1 DEF Overcommit
  <2>2. ASSUME NEW ready \in SUBSET Kinds,
               overcommit' = [snap EXCEPT !.status = setCondition(snap.status, ready)]
        PROVE  overcommit' \in Overcommit
    BY <1>1, <2>2, StatusTyped
  <2> QED BY <2>1, <2>2
<1>3. /\ overcommit'.uid = overcommit.uid /\ overcommit'.spec = overcommit.spec
      /\ overcommit'.deleting = overcommit.deleting
  BY <1>1 DEF Overcommit
<1> QED BY <1>1, <1>2, <1>3, NotNone DEF Identity, Deleting

\* A reconciliation goes on, or ends, and the object keeps its version.
Continues == Stage' = "working" /\ UNCHANGED queued

Ends == Stage' = "idle" /\ (UNCHANGED queued \/ queued' = TRUE)

LEMMA WorkingRefines ==
  ASSUME Stage = "working", Continues \/ Ends,
         UNCHANGED <<Identity(overcommit), Deleting, Identity(seen), read>>
  PROVE  Controller!Next \/ UNCHANGED Controller!vars
<1> USE DEF Continues, Ends
<1>1. CASE Continues
  BY <1>1 DEF Controller!vars, Controller!cluster
<1>2. CASE Stage' = "idle" /\ UNCHANGED queued
  BY <1>2 DEF Controller!Finish, Controller!Next, Controller!cluster
<1>3. CASE Stage' = "idle" /\ queued' = TRUE
  BY <1>3 DEF Controller!GiveUp, Controller!Next, Controller!cluster
<1> QED BY <1>1, <1>2, <1>3

\* The worker's calls after the object was read are its work.
LEMMA CallsAreWork ==
  /\ pc \in AllKinds \cup {"finalizer", "refresh", "status"} => Stage = "working"
  /\ pc' \in AllKinds \cup {"finalizer", "refresh", "status"} => Stage' = "working"
  /\ Retry => Ends
  /\ Done => Ends
BY TenKinds DEF Stage, Retry, Done, Return, Ends

LEMMA ReadsRefine ==
  ASSUME Inv, Start \/ GetOvercommitLabel \/ GetOvercommit \/ RefreshOvercommit
  PROVE  Controller!Next \/ UNCHANGED Controller!vars
<1> USE DEF Controller!Next, Controller!vars, Controller!cluster, store, caches, history
<1>1. UNCHANGED <<overcommit, seen, Identity(overcommit), Identity(seen), Deleting>>
  BY DEF Start, GetOvercommitLabel, GetOvercommit, RefreshOvercommit, Identity, Deleting
<1>2. CASE Start
  <2>1. Stage = "idle" /\ Stage' = "begun"
    BY <1>2 DEF Start, Stage
  <2> QED BY <1>1, <1>2, <2>1 DEF Controller!Begin, Start
<1>3. CASE GetOvercommitLabel
  <2>1. CASE seen = None
    <3>1. Stage = "begun" /\ Stage' = "idle"
      BY <1>3, <2>1 DEF GetOvercommitLabel, Retry, Return, Stage
    <3> QED BY <1>1, <1>3, <2>1, <3>1 DEF Controller!GiveUp, GetOvercommitLabel, Retry
  <2>2. CASE seen # None
    <3>1. Stage = "begun" /\ Stage' = "begun"
      BY <1>3, <2>2 DEF GetOvercommitLabel, Stage
    <3> QED BY <1>1, <1>3, <2>2, <3>1 DEF GetOvercommitLabel
  <2> QED BY <2>1, <2>2
<1>4. CASE GetOvercommit
  <2>1. seen = None <=> Identity(seen) = None
    BY VersionNone DEF Inv, TypeOK
  <2>2. Stage = "begun"
    BY <1>4 DEF GetOvercommit, Stage
  <2>3. Stage' = IF seen = None THEN "idle" ELSE "working"
    <3>1. CASE seen = None
      BY <1>4, <3>1 DEF GetOvercommit, Done, Return, Stage
    <3>2. CASE seen # None
      BY <1>4, <3>2, FirstChild, CallsAreWork DEF GetOvercommit
    <3> QED BY <3>1, <3>2
  <2>4. UNCHANGED queued /\ read' = Identity(seen)
    BY <1>4 DEF GetOvercommit, Done
  <2> QED BY <1>1, <2>1, <2>2, <2>3, <2>4 DEF Controller!Read
<1>5. CASE RefreshOvercommit
  <2>1. Stage = "working"
    BY <1>5, CallsAreWork DEF RefreshOvercommit
  <2>2. Continues \/ Ends
    BY <1>5, CallsAreWork DEF RefreshOvercommit, Continues
  <2> QED BY <1>1, <1>5, <2>1, <2>2, WorkingRefines DEF RefreshOvercommit
<1> QED BY <1>2, <1>3, <1>4, <1>5

LEMMA RemoveFinalizersRefines ==
  ASSUME Inv, RemoveFinalizers
  PROVE  Controller!Next \/ UNCHANGED Controller!vars
<1> USE DEF RemoveFinalizers, caches, history
<1>1. Stage = "working" /\ Ends /\ snap \in Overcommit
  BY CallsAreWork DEF Inv, TypeOK, WorkerTyped
<1>2. UNCHANGED <<Identity(seen), read>>
  BY DEF Identity
<1>3. CASE Fresh /\ snap.deleting
  <2>1. Identity(overcommit)' = None /\ Deleting' = FALSE
    BY <1>3 DEF Identity, Deleting
  <2>2. Deleting = TRUE
    BY <1>1, <1>3, NotNone DEF Fresh, Deleting, Overcommit
  <2>3. Stage' = "idle" /\ queued' = TRUE
    BY DEF Retry, Return, Stage
  <2> QED BY <1>1, <1>2, <2>1, <2>2, <2>3 DEF Controller!Release, Controller!Next
<1>4. CASE Fresh /\ ~snap.deleting
  <2>1. Identity(overcommit)' = Identity(overcommit) /\ Deleting' = Deleting
    BY <1>4, WriteKeepsVersion
  <2> QED BY <1>1, <1>2, <2>1, WorkingRefines
<1>5. CASE ~Fresh
  <2>1. Identity(overcommit)' = Identity(overcommit) /\ Deleting' = Deleting
    BY <1>5 DEF Identity, Deleting
  <2> QED BY <1>1, <1>2, <2>1, WorkingRefines
<1> QED BY <1>3, <1>4, <1>5

LEMMA ChildrenRefine ==
  ASSUME Inv, NEW k \in Kinds, CreateOrUpdate(k)
  PROVE  Controller!Next \/ UNCHANGED Controller!vars
<1>1. k \in AllKinds /\ pc = k
  BY KindsAssumption DEF CreateOrUpdate
<1>2. UNCHANGED <<Identity(overcommit), Deleting, Identity(seen), read>>
  BY DEF CreateOrUpdate, Identity, Deleting, caches, history
<1>3. Stage = "working" /\ (Continues \/ Ends)
  BY <1>1, NextChild, CallsAreWork DEF CreateOrUpdate, Continues
<1> QED BY <1>2, <1>3, WorkingRefines

LEMMA StatusRefines ==
  ASSUME Inv, UpdateStatus \/ StatusFails \/ ReadFails
  PROVE  Controller!Next \/ UNCHANGED Controller!vars
<1> USE DEF store, caches, history
<1>1. Stage = "working" /\ UNCHANGED <<Identity(seen), read>>
  BY CallsAreWork DEF UpdateStatus, StatusFails, ReadFails, Identity
<1>2. Continues \/ Ends
  BY CallsAreWork DEF UpdateStatus, StatusFails, ReadFails, Continues
<1>3. UNCHANGED <<Identity(overcommit), Deleting>>
  <2>1. CASE UNCHANGED overcommit
    BY <2>1 DEF Identity, Deleting
  <2>2. CASE UpdateStatus /\ Fresh
    <3>1. Present \in SUBSET Kinds
      BY DEF Present
    <3> QED BY <2>2, <3>1, WriteKeepsVersion DEF UpdateStatus
  <2>3. CASE ReadFails
    <3>1. PICK k \in Present :
            overcommit' = [snap EXCEPT !.status = setCondition(snap.status, Present \ {k})]
      BY <2>3 DEF ReadFails
    <3>2. Present \ {k} \in SUBSET Kinds
      BY DEF Present
    <3> QED BY <2>3, <3>1, <3>2, WriteKeepsVersion DEF ReadFails
  <2> QED BY <2>1, <2>2, <2>3 DEF UpdateStatus, StatusFails
<1> QED BY <1>1, <1>2, <1>3, WorkingRefines

LEMMA FaultsRefine ==
  ASSUME Inv, CallFails \/ AnswerLost \/ Restart \/ Late
  PROVE  Controller!Next \/ UNCHANGED Controller!vars
<1> USE DEF Controller!Next, Controller!vars, Controller!cluster, store, caches, history
<1>1. UNCHANGED <<Identity(overcommit), Deleting>>
  BY DEF CallFails, AnswerLost, Restart, Late, LateWrite, LateStops, Identity, Deleting
<1>2. CASE CallFails \/ AnswerLost
  <2>1. Stage # "idle" /\ Stage' = "idle" /\ queued' = TRUE
    BY <1>2, TenKinds, KindsAssumption DEF CallFails, AnswerLost, Retry, Return, Calls, Stage
  <2>2. UNCHANGED <<Identity(seen), read>>
    BY <1>2 DEF CallFails, AnswerLost, Identity
  <2> QED BY <1>1, <2>1, <2>2 DEF Controller!GiveUp
<1>3. CASE Restart
  <2>1. Stage' = "idle" /\ read' = None /\ Identity(seen)' = Identity(overcommit)
    BY <1>3 DEF Restart, Return, Stage, Identity
  <2>2. queued' = (Identity(overcommit) # None)
    BY <1>3, VersionNone DEF Restart, Inv, TypeOK
  <2> QED BY <1>1, <2>1, <2>2 DEF Controller!Restart
<1>4. CASE Late
  BY <1>1, <1>4 DEF Late, LateWrite, LateStops, worker, Identity, Stage
<1> QED BY <1>2, <1>3, <1>4

LEMMA CachesRefine ==
  ASSUME Inv, Observe \/ Resync
  PROVE  Controller!Next \/ UNCHANGED Controller!vars
<1> USE DEF Controller!Next, Controller!vars, Controller!cluster, store, worker, history
<1>1. UNCHANGED <<Identity(overcommit), Deleting, Stage, read>>
  BY DEF Observe, ObserveOvercommit, ObserveChild, Resync, Identity, Deleting, Stage
<1>2. CASE ObserveOvercommit
  BY <1>1, <1>2 DEF ObserveOvercommit, Controller!Learn, Identity
<1>3. CASE \E k \in Kinds : ObserveChild(k)
  BY <1>1, <1>3 DEF ObserveChild, Identity
<1>4. CASE Resync
  <2>1. Identity(seen) # None /\ Identity(seen)' = Identity(seen)
    BY <1>4, VersionNone DEF Resync, caches, Identity, Inv, TypeOK
  <2> QED BY <1>1, <1>4, <2>1 DEF Resync, Controller!Resync
<1> QED BY <1>2, <1>3, <1>4 DEF Observe

\* Users change the object as Reconciler lets them; of children it says nothing.
LEMMA ClusterRefines ==
  ASSUME Inv, Inv', User \/ \E k \in Kinds : CollectChild(k)
  PROVE  Controller!Next \/ UNCHANGED Controller!vars
<1> USE DEF Controller!Next, Controller!vars, Controller!cluster, caches, worker, history, Edit
<1>1. UNCHANGED <<Identity(seen), queued, Stage, read>>
  BY DEF CollectChild, User, CreateOvercommit, EditOvercommit, DeleteOvercommit, DeleteChild,
         Identity, Stage
<1>2. CASE DeleteOvercommit
  <2> USE <1>2 DEF DeleteOvercommit
  <2>1. overcommit \in Overcommit /\ Identity(overcommit) # None /\ Deleting = FALSE
    BY Versioned DEF Inv, TypeOK, Overcommit, Deleting
  <2>2. CASE overcommit.finalizer
    <3>1. /\ overcommit'.uid = overcommit.uid /\ overcommit'.spec = overcommit.spec
          /\ overcommit'.deleting = TRUE /\ overcommit' \in Overcommit
      BY <2>1, <2>2 DEF Overcommit
    <3>2. overcommit # None /\ overcommit' # None
      BY <2>1, <3>1, NotNone
    <3>3. Identity(overcommit)' = Identity(overcommit)
      BY <3>1, <3>2 DEF Identity
    <3>4. Deleting' = TRUE
      BY <3>1, <3>2 DEF Deleting
    <3> QED BY <1>1, <2>1, <3>3, <3>4 DEF Controller!Delete
  <2>3. CASE ~overcommit.finalizer
    <3>1. Identity(overcommit)' = None /\ Deleting' = FALSE
      BY <2>3 DEF Identity, Deleting
    <3> QED BY <1>1, <2>1, <3>1 DEF Controller!Delete
  <2> QED BY <2>2, <2>3
<1>3. CASE CreateOvercommit \/ EditOvercommit
  <2>1. /\ overcommit' \in Overcommit
        /\ overcommit'.deleting = IF overcommit = None THEN FALSE ELSE overcommit.deleting
    <3>1. CASE CreateOvercommit
      <4>1. PICK s \in OvercommitSpec :
              overcommit' = [uid |-> edits + 3, spec |-> s, finalizer |-> FALSE,
                             deleting |-> FALSE, status |-> NewStatus]
        BY <3>1 DEF CreateOvercommit
      <4>2. NewStatus \in OvercommitStatus /\ edits + 3 \in Uid
        BY <3>1, BoundsAssumption
           DEF CreateOvercommit, NewStatus, OvercommitStatus, Uid, Inv, TypeOK
      <4> QED BY <3>1, <4>1, <4>2 DEF CreateOvercommit, Overcommit
    <3>2. CASE EditOvercommit
      BY <3>2 DEF EditOvercommit, Inv, TypeOK, Overcommit
    <3> QED BY <1>3, <3>1, <3>2
  <2>2. Identity(overcommit)' \in Uid \X OvercommitSpec
    BY <2>1, Versioned
  <2>3. Deleting' = IF Identity(overcommit) = None THEN FALSE ELSE Deleting
    <3>1. Identity(overcommit) = None <=> overcommit = None
      BY VersionNone DEF Inv, TypeOK
    <3> QED BY <2>1, <3>1, NotNone DEF Deleting
  <2> QED BY <1>1, <2>2, <2>3 DEF Controller!Put
<1>4. CASE UNCHANGED overcommit
  BY <1>1, <1>4 DEF Identity, Deleting
<1> QED BY <1>2, <1>3, <1>4 DEF User, DeleteChild, CollectChild

\* Of all that happens to the object, its users need to know Reconciler only.
THEOREM ReconcilerImplemented == Spec => ImplementsReconciler
<1>1. Init => Controller!Init
  <2> SUFFICES ASSUME Init PROVE Controller!Init
    OBVIOUS
  <2>1. PICK s \in OvercommitSpec, f \in BOOLEAN :
          overcommit = [uid |-> 2, spec |-> s, finalizer |-> f, deleting |-> FALSE,
                        status |-> NewStatus]
    BY DEF Init
  <2>2. NewStatus \in OvercommitStatus /\ 2 \in Uid
    BY BoundsAssumption DEF NewStatus, OvercommitStatus, Uid
  <2>3. overcommit \in Overcommit /\ ~overcommit.deleting
    BY <2>1, <2>2 DEF Overcommit
  <2>4. Identity(overcommit) \in Uid \X OvercommitSpec
    BY <2>3, Versioned
  <2>5. Deleting = FALSE /\ Identity(seen) = Identity(overcommit)
    BY <2>3, NotNone DEF Init, Deleting
  <2> QED BY <2>4, <2>5 DEF Init, Controller!Init, Stage
<1>2. Inv /\ Inv' /\ [Next]_vars => [Controller!Next]_(Controller!vars)
  <2> SUFFICES ASSUME Inv, Inv', [Next]_vars
               PROVE  Controller!Next \/ UNCHANGED Controller!vars
    OBVIOUS
  <2>1. CASE UNCHANGED vars
    BY <2>1 DEF vars, store, caches, worker, history, Controller!vars, Controller!cluster,
                Identity, Deleting, Stage
  <2>2. CASE Step
    BY <2>2, ReadsRefine, RemoveFinalizersRefines, ChildrenRefine, StatusRefines DEF Step
  <2>3. CASE Observe \/ Resync \/ User \/ \E k \in Kinds : CollectChild(k)
    BY <2>3, CachesRefine, ClusterRefines
  <2>4. CASE CallFails \/ StatusFails \/ ReadFails \/ AnswerLost \/ Restart \/ Late
    BY <2>4, StatusRefines, FaultsRefine
  <2> QED BY <2>1, <2>2, <2>3, <2>4 DEF Next
<1> QED BY <1>1, <1>2, Invariance, PTL DEF Spec, ImplementsReconciler, Controller!Spec

-----------------------------------------------------------------------------
(* Adapting a child                                                        *)

\* What is generated for a Deployment, for a child of either kind.
LEMMA DeploymentGenerated ==
  ASSUME NEW k \in Deployments, NEW spec, NEW key, NEW img
  PROVE  LET want == Generated(k, spec, key, img)
         IN  \E m : /\ want = [image |-> img, meta |-> m, tolerations |-> spec.tolerations]
                    /\ Stored(m) = Stored(spec.meta)
<1>1. CASE k = "classController"
  <2> DEFINE m == IF spec.meta = Nil THEN <<>> ELSE spec.meta
  <2>1. Stored(m) = Stored(spec.meta)
    BY DEF Stored
  <2>2. Generated(k, spec, key, img) = [image |-> img, meta |-> m, tolerations |-> spec.tolerations]
    BY <1>1 DEF Generated, GenerateOvercommitClassControllerDeployment
  <2> HIDE DEF m
  <2> QED BY <2>1, <2>2
<1>2. CASE k # "classController"
  BY <1>2 DEF Generated, GeneratePodValidatingDeployment,
     GenerateOvercommitClassValidatingDeployment, Deployments
<1> QED BY <1>1, <1>2

\* The outcome of an adaptation: of what differs, what is generated, as it is
\* stored; of the rest, what was there.
LEMMA DeploymentWanted ==
  ASSUME NEW k \in Deployments, NEW have, have # None, NEW o, NEW key, NEW img, NEW m,
         Generated(k, o.spec, key, img) =
           [image |-> img, meta |-> m, tolerations |-> o.spec.tolerations],
         Updated(Generated(k, o.spec, key, img), have.content)
  PROVE  Wanted(k, have, o, key, img) =
           [content |->
              [image |-> img,
               meta |-> Stored(IF mapsEqual(m, have.content.meta)
                               THEN have.content.meta ELSE m),
               tolerations |-> Stored(IF TolerationsEqual(o.spec.tolerations, have.content.tolerations)
                                      THEN have.content.tolerations ELSE o.spec.tolerations)],
            owner |-> o.uid]
<1> DEFINE want == Generated(k, o.spec, key, img)
           rm == IF mapsEqual(m, have.content.meta) THEN have.content.meta ELSE m
           rl == IF TolerationsEqual(o.spec.tolerations, have.content.tolerations)
                 THEN have.content.tolerations ELSE o.spec.tolerations
<1>1. Wanted(k, have, o, key, img) =
        [content |-> Kept(k, Rewritten(want, have.content)), owner |-> o.uid]
  BY DEF Wanted
<1>2. Rewritten(want, have.content) = [image |-> img, meta |-> rm, tolerations |-> rl]
  BY DEF Rewritten
<1> HIDE DEF rm, rl, want
<1>3. Kept(k, Rewritten(want, have.content)) =
        [image |-> img, meta |-> Stored(rm), tolerations |-> Stored(rl)]
  BY <1>2, KeptRecord
<1> QED BY <1>1, <1>3 DEF rm, rl

\* The outcome of a creation.
LEMMA DeploymentCreated ==
  ASSUME NEW k \in Deployments, NEW o, NEW key, NEW img
  PROVE  Wanted(k, None, o, key, img) =
           [content |-> [image |-> img, meta |-> Stored(o.spec.meta),
                         tolerations |-> Stored(o.spec.tolerations)],
            owner |-> o.uid]
<1> DEFINE want == Generated(k, o.spec, key, img)
<1>1. PICK m : /\ want = [image |-> img, meta |-> m, tolerations |-> o.spec.tolerations]
               /\ Stored(m) = Stored(o.spec.meta)
  BY DeploymentGenerated
<1>2. Wanted(k, None, o, key, img) = [content |-> Kept(k, want), owner |-> o.uid]
  BY DEF Wanted
<1> HIDE DEF want
<1>3. Kept(k, want) = [image |-> img, meta |-> Stored(m), tolerations |-> Stored(o.spec.tolerations)]
  BY <1>1, KeptRecord
<1> QED BY <1>1, <1>2, <1>3

\* What a child in the API server is made of is in the form in which it is stored.
LEMMA StoredForm ==
  ASSUME NEW k \in Deployments, NEW have \in Child(k)
  PROVE  Stored(have.content.meta) = have.content.meta
         /\ Stored(have.content.tolerations) = have.content.tolerations
<1> DEFINE M == {Stored(m) : m \in Metas}
           L == {Stored(l) : l \in Tolerations}
<1>1. have.content \in [image : Images, meta : M, tolerations : L]
  <2>1. Content(k) = [image : Images, meta : M, tolerations : L]
    BY DEF Content, Deployments
  <2> QED BY <2>1 DEF Child
<1> HIDE DEF M, L
<1>2. have.content.meta \in M /\ have.content.tolerations \in L
  BY <1>1
<1> QED BY <1>2, StoredTwice DEF M, L

\* A child adapted to an object is not adapted to it again: whatever the generators
\* make of it, the outcome of a second adaptation is that of the first. (Of the
\* Deployments the one of the class controller seems to differ at every
\* reconciliation, its generated annotations never being nil; the API server drops
\* what that writes, and no write comes of it.)
THEOREM AdaptedOnce ==
  ASSUME NEW k \in Kinds, NEW have \in Child(k) \cup {None}, NEW o \in Overcommit,
         NEW key \in LabelKeys, NEW img \in Images
  PROVE  Wanted(k, Wanted(k, have, o, key, img), o, key, img) = Wanted(k, have, o, key, img)
<1> DEFINE once == Wanted(k, have, o, key, img)
           want == Generated(k, o.spec, key, img)
<1>1. once \in Child(k) /\ once # None
  BY WantedTyped, NotNone
<1>2. CASE k \notin Deployments
  BY <1>1, <1>2 DEF Wanted
<1>3. CASE k \in Deployments
  <2>1. CASE ~Updated(want, once.content)
    BY <1>1, <2>1 DEF Wanted
  <2>2. CASE Updated(want, once.content)
    <3>1. PICK m : /\ want = [image |-> img, meta |-> m, tolerations |-> o.spec.tolerations]
                   /\ Stored(m) = Stored(o.spec.meta)
      BY <1>3, DeploymentGenerated
    <3> DEFINE l == o.spec.tolerations
    <3> HIDE DEF once, want
    <3>2. Wanted(k, once, o, key, img) =
            [content |->
               [image |-> img,
                meta |-> Stored(IF mapsEqual(m, once.content.meta) THEN once.content.meta ELSE m),
                tolerations |-> Stored(IF TolerationsEqual(l, once.content.tolerations)
                                       THEN once.content.tolerations ELSE l)],
             owner |-> o.uid]
      BY <1>1, <1>3, <2>2, <3>1, DeploymentWanted DEF want
    <3>3. /\ Stored(once.content.meta) = once.content.meta
          /\ Stored(once.content.tolerations) = once.content.tolerations
      BY <1>1, <1>3, StoredForm
    <3>4. CASE have = None
      <4>1. once = [content |-> [image |-> img, meta |-> Stored(m), tolerations |-> Stored(l)],
                    owner |-> o.uid]
        BY <1>3, <3>1, <3>4, DeploymentCreated DEF once
      <4>2. once.content.meta = Stored(m) /\ once.content.tolerations = Stored(l)
        BY <4>1
      <4> QED BY <3>2, <3>3, <4>1, <4>2 DEF once
    <3>5. CASE have # None /\ Updated(want, have.content)
      <4>1. once =
              [content |->
                 [image |-> img,
                  meta |-> Stored(IF mapsEqual(m, have.content.meta) THEN have.content.meta ELSE m),
                  tolerations |-> Stored(IF TolerationsEqual(l, have.content.tolerations)
                                         THEN have.content.tolerations ELSE l)],
               owner |-> o.uid]
        BY <1>3, <3>1, <3>5, DeploymentWanted DEF once, want
      <4>2. /\ Stored(have.content.meta) = have.content.meta
            /\ Stored(have.content.tolerations) = have.content.tolerations
        BY <1>3, <3>5, StoredForm
      <4>3. Stored(IF mapsEqual(m, once.content.meta) THEN once.content.meta ELSE m)
              = once.content.meta
        BY <3>3, <4>1, <4>2
      <4>4. Stored(IF TolerationsEqual(l, once.content.tolerations)
                   THEN once.content.tolerations ELSE l) = once.content.tolerations
        BY <3>3, <4>1, <4>2
      <4>5. once = [content |-> [image |-> img, meta |-> once.content.meta,
                                 tolerations |-> once.content.tolerations],
                    owner |-> o.uid]
        BY <4>1
      <4> QED BY <3>2, <4>3, <4>4, <4>5 DEF once
    <3>6. CASE have # None /\ ~Updated(want, have.content)
      <4>1. once = have
        BY <3>6 DEF Wanted, once, want
      <4> QED BY <2>2, <3>6, <4>1 DEF once
    <3> QED BY <3>4, <3>5, <3>6 DEF once
  <2> QED BY <2>1, <2>2
<1> QED BY <1>2, <1>3

\* Nil, and the maps with keys among A and values in V.
MapsOver(A, V) == {Nil} \cup UNION {[S -> V] : S \in SUBSET A}

\* Two maps of metadata agree for mapsEqual exactly when they are the same.
LEMMA MetasCompared ==
  ASSUME NEW A, NEW V, IsFiniteSet(A),
         NEW a \in MapsOver(A, V),
         NEW b \in MapsOver(A, V)
  PROVE  mapsEqual(a, b) <=> a = b
<1>1. CASE a = Nil \/ b = Nil
  BY <1>1 DEF mapsEqual
<1>2. CASE a # Nil /\ b # Nil
  <2>1. PICK S \in SUBSET A : a \in [S -> V]
    BY <1>2 DEF MapsOver
  <2>2. PICK R \in SUBSET A : b \in [R -> V]
    BY <1>2 DEF MapsOver
  <2>3. IsFiniteSet(S) /\ IsFiniteSet(R)
    BY FS_Subset
  <2>4. a \in [S -> V] \cup {Nil} /\ b \in [R -> V] \cup {Nil}
    BY <2>1, <2>2
  <2> QED BY ONLY <2>3, <2>4, MapsEqualExact
<1> QED BY <1>1, <1>2

\* Do the tolerations of a Deployment follow a spec's, up to seconds and order?
\* (Tolerates asks it of the lists that repeat no key.)
Follows(have, want) ==
  IF have = Nil \/ Stored(want) = Nil THEN have = Stored(want)
  ELSE TolerationsAgree(have, want)

\* The tolerations a Deployment has repeat a key, every key of theirs is wanted, and
\* one that is wanted is missing.
Overlooked(have, want) ==
  /\ have # Nil /\ want # Nil /\ Len(have) = Len(want)
  /\ ~KeysOnce(have)
  /\ TolerationKeys(have) \subseteq TolerationKeys(want)
  /\ ~TolerationsAgree(have, want)

LEMMA StoredFollows ==
  ASSUME NEW want
  PROVE  Follows(Stored(want), want)
<1>1. CASE Stored(want) = Nil
  BY <1>1 DEF Follows
<1>2. CASE Stored(want) # Nil
  <2>1. Stored(want) = want
    BY <1>2 DEF Stored
  <2>2. TolerationsAgree(Stored(want), want)
    BY <2>1 DEF TolerationsAgree
  <2> QED BY <1>2, <2>2 DEF Follows
<1> QED BY <1>1, <1>2

\* What adapt leaves of the tolerations follows the spec exactly when what is stored
\* is not overlooked.
LEMMA TolerationsCompared ==
  ASSUME NEW T, NEW want \in Seq(T) \cup {Nil}, NEW have \in Seq(T) \cup {Nil},
         Nil \notin Seq(T), Stored(have) = have
  PROVE  Follows(Stored(IF TolerationsEqual(want, have) THEN have ELSE want), want)
           <=> ~Overlooked(have, want)
<1>1. Follows(Stored(want), want)
  BY StoredFollows
<1>2. CASE want = Nil \/ have = Nil
  <2>1. TolerationsEqual(want, have) => have = want
    BY <1>2 DEF TolerationsEqual
  <2> QED BY <1>1, <1>2, <2>1 DEF Overlooked
<1>3. CASE want # Nil /\ have # Nil /\ ~TolerationsEqual(want, have)
  BY <1>1, <1>3 DEF Overlooked, TolerationsEqual
<1>4. CASE want # Nil /\ have # Nil /\ TolerationsEqual(want, have)
  <2>1. Len(want) = Len(have) /\ TolerationKeys(have) \subseteq TolerationKeys(want)
    BY <1>4 DEF TolerationsEqual
  <2>2. KeysOnce(have) => TolerationsAgree(want, have)
    BY <1>4, TolerationsEqualExact
  <2>3. have # <<>> /\ have \in Seq(T) /\ want \in Seq(T)
    BY <1>4 DEF Stored
  <2>4. Len(have) # 0
    BY <2>3
  <2>5. want # <<>>
    BY <2>1, <2>4
  <2>6. Stored(want) # Nil
    BY <1>4, <2>5 DEF Stored
  <2>7. Follows(have, want) <=> TolerationsAgree(have, want)
    BY <1>4, <2>6 DEF Follows
  <2>8. Overlooked(have, want) <=> ~KeysOnce(have) /\ ~TolerationsAgree(have, want)
    BY <1>4, <2>1 DEF Overlooked
  <2>9. KeysOnce(have) => TolerationsAgree(have, want)
    BY <2>2 DEF TolerationsAgree
  <2> QED BY <1>4, <2>7, <2>8, <2>9
<1> QED BY <1>2, <1>3, <1>4

\* After CreateOrUpdate a Deployment runs the image and carries the metadata of the
\* spec, whatever it was before: what the comparisons do not find need not be
\* written. And it tolerates what the spec says, up to seconds and order, but for one
\* case, in which it never does: the tolerations it had repeat a key, are as many as
\* wanted, and all have keys that are wanted. TolerationsEqual looks for each live
\* toleration among the wanted ones and not the other way. (Of the owner it is not
\* so: a Deployment that needs no adaptation keeps the one it has.)
THEOREM AdaptedFollows ==
  ASSUME NEW A, NEW V, IsFiniteSet(A),
         Metas \subseteq MapsOver(A, V),
         NEW T, Nil \notin Seq(T), Tolerations \subseteq Seq(T) \cup {Nil},
         NEW k \in Deployments, NEW have \in Child(k) \cup {None}, NEW o \in Overcommit,
         NEW key, NEW img
  PROVE  LET c == Wanted(k, have, o, key, img).content
         IN  /\ c.image = img
             /\ c.meta = Stored(o.spec.meta)
             /\ (Follows(c.tolerations, o.spec.tolerations)
                   <=> ~(have # None /\ Overlooked(have.content.tolerations, o.spec.tolerations)))
<1> DEFINE l == o.spec.tolerations
           want == Generated(k, o.spec, key, img)
           after == Wanted(k, have, o, key, img)
           missed == have # None /\ Overlooked(have.content.tolerations, l)
<1>1. PICK m : /\ want = [image |-> img, meta |-> m, tolerations |-> l]
               /\ Stored(m) = Stored(o.spec.meta)
  BY DeploymentGenerated
<1>2. o.spec.meta \in Metas /\ l \in Tolerations
  BY DEF Overcommit, OvercommitSpec
<1>3. Nil \in MapsOver(A, V) /\ <<>> \in MapsOver(A, V)
  <2>1. <<>> \in [{} -> V]
    OBVIOUS
  <2> QED BY <2>1 DEF MapsOver
<1>4. m \in MapsOver(A, V)
  <2>1. m \in {o.spec.meta, Nil, <<>>}
    BY <1>1 DEF Stored
  <2> QED BY <1>2, <1>3, <2>1
<1>5. ASSUME have # None
      PROVE  /\ (mapsEqual(m, have.content.meta) <=> m = have.content.meta)
             /\ Stored(have.content.meta) = have.content.meta
             /\ Stored(have.content.tolerations) = have.content.tolerations
             /\ (Follows(Stored(IF TolerationsEqual(l, have.content.tolerations)
                                THEN have.content.tolerations ELSE l), l)
                   <=> ~Overlooked(have.content.tolerations, l))
  <2> DEFINE hm == have.content.meta
             hl == have.content.tolerations
             SM == {Stored(d) : d \in Metas}
             SL == {Stored(d) : d \in Tolerations}
  <2>1. Content(k) = [image : Images, meta : SM, tolerations : SL]
    BY DEF Content, Deployments
  <2>2. have \in Child(k)
    BY <1>5
  <2>3. hm \in SM /\ hl \in SL
    <3> HIDE DEF SM, SL
    <3>1. have.content \in [image : Images, meta : SM, tolerations : SL]
      BY <2>1, <2>2 DEF Child
    <3> QED BY <3>1
  <2>4. Stored(hm) = hm /\ Stored(hl) = hl
    BY <2>2, StoredForm
  <2>5. hm \in MapsOver(A, V)
    <3>1. PICK d \in Metas : hm = Stored(d)
      BY <2>3
    <3> QED BY <1>3, <3>1 DEF Stored
  <2>6. hl \in Seq(T) \cup {Nil}
    <3>1. PICK d \in Tolerations : hl = Stored(d)
      BY <2>3
    <3> QED BY <3>1 DEF Stored
  <2>7. l \in Seq(T) \cup {Nil}
    BY <1>2
  <2> HIDE DEF hm, hl, l
  <2>8. Follows(Stored(IF TolerationsEqual(l, hl) THEN hl ELSE l), l) <=> ~Overlooked(hl, l)
    BY <2>4, <2>6, <2>7, TolerationsCompared
  <2>9. mapsEqual(m, hm) <=> m = hm
    BY <1>4, <2>5, MetasCompared
  <2>10. /\ (mapsEqual(m, hm) <=> m = hm)
         /\ Stored(hm) = hm
         /\ Stored(hl) = hl
         /\ (Follows(Stored(IF TolerationsEqual(l, hl) THEN hl ELSE l), l) <=> ~Overlooked(hl, l))
    BY <2>4, <2>8, <2>9
  <2> QED BY <2>10 DEF hm, hl, l
<1>6. CASE have = None
  <2>1. after = [content |-> [image |-> img, meta |-> Stored(o.spec.meta),
                              tolerations |-> Stored(l)],
                 owner |-> o.uid]
    BY <1>6, DeploymentCreated
  <2>2. Follows(Stored(l), l) /\ ~missed
    BY <1>6, StoredFollows
  <2> HIDE DEF after, l, missed
  <2>3. /\ after.content.image = img
        /\ after.content.meta = Stored(o.spec.meta)
        /\ (Follows(after.content.tolerations, l) <=> ~missed)
    BY <2>1, <2>2
  <2> QED BY <2>3 DEF after, l, missed
<1>7. CASE have # None /\ Updated(want, have.content)
  <2> DEFINE rm == IF mapsEqual(m, have.content.meta) THEN have.content.meta ELSE m
             rl == IF TolerationsEqual(l, have.content.tolerations)
                   THEN have.content.tolerations ELSE l
  <2>1. after = [content |-> [image |-> img, meta |-> Stored(rm), tolerations |-> Stored(rl)],
                 owner |-> o.uid]
    BY <1>1, <1>7, DeploymentWanted
  <2>2. Stored(rm) = Stored(o.spec.meta)
    BY <1>1, <1>5, <1>7
  <2>3. Follows(Stored(rl), l) <=> ~missed
    BY <1>5, <1>7
  <2> HIDE DEF after, l, rm, rl, missed
  <2>4. /\ after.content.image = img
        /\ after.content.meta = Stored(o.spec.meta)
        /\ (Follows(after.content.tolerations, l) <=> ~missed)
    BY <2>1, <2>2, <2>3
  <2> QED BY <2>4 DEF after, l, missed
<1>8. CASE have # None /\ ~Updated(want, have.content)
  <2>1. after = have
    BY <1>8 DEF Wanted
  <2>2. /\ have.content.image = img /\ mapsEqual(m, have.content.meta)
        /\ TolerationsEqual(l, have.content.tolerations)
    BY <1>1, <1>8 DEF Updated
  <2>3. have.content.meta = Stored(o.spec.meta)
    BY <1>1, <1>5, <1>8, <2>2
  <2>4. Follows(have.content.tolerations, l) <=> ~missed
    BY <1>5, <1>8, <2>2
  <2> HIDE DEF after, l, missed
  <2>5. /\ after.content.image = img
        /\ after.content.meta = Stored(o.spec.meta)
        /\ (Follows(after.content.tolerations, l) <=> ~missed)
    BY <2>1, <2>2, <2>3, <2>4
  <2> QED BY <2>5 DEF after, l, missed
<1> QED BY <1>6, <1>7, <1>8

-----------------------------------------------------------------------------
(* A settled cluster stays settled                                         *)

\* What Settled says, but for the worker.
Quiet ==
  /\ overcommit # None /\ Converged
  /\ Current(seen) /\ \A k \in Kinds : Fits(k, cached[k])
  /\ late = None

\* A child that fits fits still when it was adapted.
LEMMA AdaptedFits ==
  ASSUME Inv, Settled, NEW k \in Kinds, pc = k
  PROVE  Fits(k, Wanted(k, cached[k], snap, label, image))
<1> DEFINE have == cached[k]
           new == Wanted(k, have, snap, label, image)
           want == Generated(k, snap.spec, label, image)
<1>1. /\ snap \in Overcommit /\ snap # None /\ label \in LabelKeys /\ image \in Images
      /\ have \in Child(k) /\ have # None /\ Fits(k, have)
      /\ snap.uid = overcommit.uid /\ snap.spec = overcommit.spec
  BY KindsAssumption, TenKinds, NotNone DEF Inv, TypeOK, WorkerTyped, Settled, Current, Fits
<1>2. CASE k \notin Deployments \/ ~Updated(want, have.content)
  BY <1>1, <1>2 DEF Wanted
<1>3. CASE k \in Deployments /\ Updated(want, have.content)
  <2>1. PICK m : /\ want = [image |-> image, meta |-> m, tolerations |-> snap.spec.tolerations]
                 /\ Stored(m) = Stored(snap.spec.meta)
    BY <1>3, DeploymentGenerated
  <2> DEFINE l == snap.spec.tolerations
             rm == IF mapsEqual(m, have.content.meta) THEN have.content.meta ELSE m
             rl == IF TolerationsEqual(l, have.content.tolerations)
                   THEN have.content.tolerations ELSE l
  <2>2. new = [content |-> [image |-> image, meta |-> Stored(rm), tolerations |-> Stored(rl)],
               owner |-> snap.uid]
    BY <1>1, <1>3, <2>1, DeploymentWanted
  <2>3. new # None
    BY <1>1, WantedTyped, NotNone
  <2>4. /\ have.content.meta = Stored(snap.spec.meta)
        /\ Tolerates(have.content.tolerations, l)
    BY <1>1, <1>3 DEF Fits
  <2>5. Stored(rm) = Stored(snap.spec.meta)
    BY <2>1, <2>4, StoredTwice
  <2>6. Tolerates(Stored(rl), l)
    <3>1. CASE rl = have.content.tolerations
      BY <1>1, <1>3, <2>4, <3>1, StoredForm
    <3>2. CASE rl = l
      BY <3>2 DEF Tolerates, Stored, TolerationsAgree
    <3> QED BY <3>1, <3>2
  <2> HIDE DEF new, rm, rl
  <2>7. /\ new.owner = overcommit.uid /\ new.content.image = image
        /\ new.content.meta = Stored(rm) /\ new.content.tolerations = Stored(rl)
    BY <1>1, <2>2
  <2>8. Fits(k, new)
    BY <1>1, <2>3, <2>5, <2>6, <2>7 DEF Fits
  <2> QED BY <2>8 DEF new
<1> QED BY <1>2, <1>3

\* A step of the worker that writes nothing at the API server.
LEMMA QuietWorker ==
  ASSUME Inv, Settled, UNCHANGED <<store, caches, process>>
  PROVE  Quiet'
<1>1. UNCHANGED <<overcommit, children, seen, cached, image, late>>
  BY DEF store, caches, process
<1>2. Converged'
  BY <1>1 DEF Settled, Converged, Reconciled, Fits
<1> QED BY <1>1, <1>2 DEF Settled, Quiet, Current, Fits

LEMMA ReadsStaySettled ==
  ASSUME Inv, Settled, Start \/ GetOvercommitLabel \/ GetOvercommit \/ RefreshOvercommit
  PROVE  Settled' /\ UNCHANGED overcommit
<1> USE DEF store, caches, process, bounds
<1>1. UNCHANGED <<store, caches, process>>
  BY DEF Start, GetOvercommitLabel, GetOvercommit, RefreshOvercommit
<1>2. Quiet'
  BY <1>1, QuietWorker
<1>3. seen # None /\ Current(seen) /\ ~seen.finalizer
  BY DEF Settled, Current, Converged
<1>4. snap' = seen \/ snap' = snap
  BY <1>3 DEF Start, GetOvercommitLabel, GetOvercommit, RefreshOvercommit
<1>5. (snap # None => Current(snap))'
  BY <1>1, <1>3, <1>4 DEF Settled, Current
<1>6. pc' # "finalizer"
  BY <1>3, FirstChild, TenKinds
     DEF Start, GetOvercommitLabel, GetOvercommit, RefreshOvercommit
<1> QED BY <1>1, <1>2, <1>5, <1>6 DEF Quiet, Settled

LEMMA ChildrenStaySettled ==
  ASSUME Inv, Settled, NEW k \in Kinds, CreateOrUpdate(k)
  PROVE  Settled' /\ UNCHANGED overcommit
<1> USE DEF caches, process, history, bounds
<1> DEFINE child == Wanted(k, cached[k], snap, label, image)
<1>1. Fits(k, child)
  BY AdaptedFits DEF CreateOrUpdate
<1> HIDE DEF child
<1>2. UNCHANGED <<overcommit, seen, cached, image, late>>
  BY DEF CreateOrUpdate
<1>3. children' = children \/ children' = [children EXCEPT ![k] = child]
  BY DEF CreateOrUpdate, child
<1>4. \A c \in Kinds : Fits(c, children'[c])
  <2> TAKE c \in Kinds
  <2>1. CASE children' = [children EXCEPT ![k] = child] /\ c = k
    BY <1>1, <2>1 DEF Inv, TypeOK
  <2>2. CASE children' = [children EXCEPT ![k] = child] /\ c # k
    BY <2>2 DEF Inv, TypeOK, Settled, Converged, Reconciled
  <2>3. CASE children' = children
    BY <2>3 DEF Settled, Converged, Reconciled
  <2> QED BY <1>3, <2>1, <2>2, <2>3
<1>5. Quiet'
  BY <1>2, <1>4 DEF Settled, Quiet, Converged, Reconciled, Current, Fits
<1>6. snap' = snap \/ snap' = None
  BY DEF CreateOrUpdate, Retry, Return
<1>7. (snap # None => Current(snap))'
  BY <1>2, <1>6 DEF Settled, Current
<1>8. pc' # "finalizer"
  <2>1. NextCall(k) \in AllKinds \cup {"refresh"}
    BY KindsAssumption, NextChild
  <2> QED BY <2>1, TenKinds DEF CreateOrUpdate, Retry, Return
<1> QED BY <1>2, <1>5, <1>7, <1>8 DEF Quiet, Settled

\* The status says again that all is ready.
LEMMA StatusStaysSettled ==
  ASSUME Inv, Settled, UpdateStatus
  PROVE  Settled' /\ UNCHANGED overcommit
<1> USE DEF caches, process, history, bounds
<1>1. CASE Fresh
  <2> DEFINE status == setCondition(snap.status, Present)
  <2>1. overcommit = snap /\ overcommit \in Overcommit
    BY <1>1 DEF Fresh, Inv, TypeOK, Settled
  <2>2. Present = Kinds
    BY DEF Settled, Present, Fits
  <2>3. status.ready = Kinds /\ status.condition = "True"
    BY <2>2 DEF setCondition, Condition
  <2>4. overcommit' = [overcommit EXCEPT !.status = status] /\ Done
    BY <1>1, <2>1 DEF UpdateStatus
  <2>5. overcommit' \in Overcommit
    BY <2>1, <2>2, <2>4, StatusTyped
  <2> HIDE DEF status
  <2>6. /\ overcommit' # None
        /\ overcommit'.uid = overcommit.uid /\ overcommit'.spec = overcommit.spec
        /\ overcommit'.finalizer = overcommit.finalizer
        /\ overcommit'.status = status
    BY <2>1, <2>4, <2>5, NotNone DEF Overcommit
  <2>7. UNCHANGED <<children, seen, cached, image, late>> /\ snap' = None /\ pc' = "idle"
    BY <2>4 DEF UpdateStatus, Done, Return
  <2>8. Converged'
    BY <2>3, <2>6, <2>7 DEF Settled, Converged, Reconciled, Fits
  <2>9. overcommit' = overcommit
    <3>1. snap.status \in OvercommitStatus /\ snap.status.ready = Kinds
          /\ snap.status.condition = "True"
      BY <2>1 DEF Overcommit, Settled, Converged
    <3>2. status = snap.status
      BY <2>2, <3>1 DEF status, setCondition, Condition, OvercommitStatus
    <3> QED BY <2>1, <2>4, <3>2 DEF Overcommit
  <2> QED BY <2>6, <2>7, <2>8, <2>9 DEF Settled, Current, Fits
<1>2. CASE ~Fresh
  <2>1. UNCHANGED <<store, caches, process>>
    BY <1>2 DEF UpdateStatus, store
  <2>2. snap' = snap \/ snap' = None
    BY <1>2 DEF UpdateStatus, Done, Return
  <2>3. pc' # "finalizer"
    BY <1>2 DEF UpdateStatus, Done, Return
  <2>4. Quiet'
    BY <2>1, QuietWorker
  <2>5. (snap # None => Current(snap))'
    BY <2>1, <2>2 DEF Settled, Current, store
  <2> QED BY <2>1, <2>3, <2>4, <2>5 DEF Quiet, Settled, store
<1> QED BY <1>1, <1>2

\* Events, resyncs and the collector find nothing to change, and no replaced
\* process is left to.
LEMMA ClusterStaysSettled ==
  ASSUME Inv, Settled, Observe \/ Resync \/ Late \/ \E k \in Kinds : CollectChild(k)
  PROVE  Settled' /\ UNCHANGED overcommit
<1> USE DEF store, worker, process, history, bounds
<1>0. Observe \/ Resync => UNCHANGED overcommit
  BY DEF Observe, ObserveOvercommit, ObserveChild, Resync
<1>1. CASE ObserveOvercommit
  <2>1. UNCHANGED <<overcommit, children, cached, pc, snap, image, late>> /\ seen' = overcommit
    BY <1>1 DEF ObserveOvercommit
  <2>2. Converged'
    BY <2>1 DEF Settled, Converged, Reconciled, Fits
  <2> QED BY <2>1, <2>2 DEF Settled, Current, Fits
<1>2. ASSUME NEW k \in Kinds, ObserveChild(k)
      PROVE  Settled'
  <2>1. UNCHANGED <<overcommit, children, seen, pc, snap, image, late>>
        /\ cached' = [cached EXCEPT ![k] = children[k]]
    BY <1>2 DEF ObserveChild
  <2>2. Converged'
    BY <2>1 DEF Settled, Converged, Reconciled, Fits
  <2>3. \A c \in Kinds : Fits(c, cached'[c])
    BY <2>1 DEF Settled, Converged, Reconciled, Inv, TypeOK
  <2>4. \A c \in Kinds : Fits(c, cached[c])'
    BY <2>1, <2>3 DEF Fits
  <2> QED BY <2>1, <2>2, <2>4 DEF Settled, Current
<1>3. CASE Resync
  <2>1. UNCHANGED <<overcommit, pc, snap>> /\ UNCHANGED <<store, caches, process>>
    BY <1>3 DEF Resync
  <2>2. Quiet'
    BY <2>1, QuietWorker
  <2> QED BY <2>1, <2>2 DEF Quiet, Settled, Current
<1>4. ~Late /\ ~\E k \in Kinds : CollectChild(k)
  BY DEF Late, LateStops, LateWrite, CollectChild, Settled, Converged, Reconciled, Fits
<1> QED BY <1>0, <1>1, <1>2, <1>3, <1>4 DEF Observe

\* The safety half of convergence: what reconciliation has reached, no further
\* reconciliation, event, resync or late cache undoes.
THEOREM SettledStays == Spec => StaysSettled
<1>1. Inv /\ [Next]_vars => [Settled /\ UNCHANGED bounds => Settled' /\ UNCHANGED overcommit]_vars
  <2> SUFFICES ASSUME Inv, Next, Settled, UNCHANGED bounds
               PROVE  Settled' /\ UNCHANGED overcommit
    OBVIOUS
  <2>1. /\ edits' = edits /\ faults' = faults
        /\ edits \in Int /\ faults \in Int
    BY BoundsAssumption DEF bounds, Inv, TypeOK
  <2>2. CASE Step
    <3>1. ~RemoveFinalizers
      BY DEF Settled, RemoveFinalizers
    <3> QED BY <2>2, <3>1, ReadsStaySettled, ChildrenStaySettled, StatusStaysSettled DEF Step
  <2>3. CASE Observe \/ Resync \/ Late \/ \E k \in Kinds : CollectChild(k)
    BY <2>3, ClusterStaysSettled
  <2>4. ~User
    BY <2>1 DEF User, CreateOvercommit, EditOvercommit, DeleteOvercommit, DeleteChild, Edit
  <2>5. ~(CallFails \/ StatusFails \/ ReadFails \/ AnswerLost \/ Restart)
    BY <2>1 DEF CallFails, StatusFails, ReadFails, AnswerLost, Restart, Fault
  <2> QED BY <2>2, <2>3, <2>4, <2>5 DEF Next
<1> QED BY <1>1, Invariance, PTL DEF Spec, StaysSettled
=============================================================================
