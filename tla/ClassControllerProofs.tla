------------------------ MODULE ClassControllerProofs ------------------------
(***************************************************************************)
(* Proofs about ClassController for every set of kinds, specs and label    *)
(* keys and any number of edits and faults: type correctness, no lost      *)
(* edit, no lost wake-up, no child of a class that is not adopted; that it *)
(* implements Reconciler; and that what is settled stays settled.          *)
(***************************************************************************)
EXTENDS ClassController, TLAPS

\* The order of the children ends in the listing of the classes.
LEMMA CallsInOrder ==
  /\ ChildFrom(1) \in AllKinds \cup {"metrics"}
  /\ \A k \in Kinds : NextCall(k) \in AllKinds \cup {"metrics"}
<1>1. ASSUME NEW i \in Int
      PROVE  ChildFrom(i) \in AllKinds \cup {"metrics"}
  <2> DEFINE left == {j \in i .. 4 : KindOrder[j] \in Kinds}
  <2>1. CASE left = {}
    BY <2>1 DEF ChildFrom
  <2>2. CASE left # {}
    <3> DEFINE first == CHOOSE j \in left : \A l \in left : j <= l
    <3>1. ChildFrom(i) = KindOrder[first]
      BY <2>2 DEF ChildFrom
    <3>2. \E j \in left : \A l \in left : j <= l
      <4>1. left \subseteq {1, 2, 3, 4} \cap left
        BY <2>2
      <4>2. CASE 1 \in left
        BY <4>1, <4>2
      <4>3. CASE 1 \notin left /\ 2 \in left
        BY <4>1, <4>3
      <4>4. CASE 1 \notin left /\ 2 \notin left /\ 3 \in left
        BY <4>1, <4>4
      <4>5. CASE left = {4}
        BY <4>5
      <4> HIDE DEF left
      <4> QED BY <4>1, <4>2, <4>3, <4>4, <4>5, <2>2
    <3>3. first \in left
      BY <3>2
    <3>4. KindOrder[first] \in AllKinds
      BY <3>3, KindsAssumption
    <3> QED BY <3>1, <3>4
  <2> QED BY <2>1, <2>2
<1>2. ASSUME NEW k \in Kinds
      PROVE  (CHOOSE i \in 1 .. 4 : KindOrder[i] = k) \in 1 .. 4
  BY KindsAssumption DEF AllKinds
<1>3. \A k \in Kinds : NextCall(k) \in AllKinds \cup {"metrics"}
  <2> TAKE k \in Kinds
  <2> DEFINE place == CHOOSE i \in 1 .. 4 : KindOrder[i] = k
  <2>1. place \in 1 .. 4
    BY <1>2
  <2>2. NextCall(k) = ChildFrom(1 + place)
    BY DEF NextCall
  <2> HIDE DEF place
  <2>3. 1 + place \in Int
    BY <2>1
  <2>4. ChildFrom(1 + place) \in AllKinds \cup {"metrics"}
    BY <2>3, <1>1
  <2> QED BY <2>2, <2>4
<1> QED BY <1>1, <1>3

LEMMA FourKinds == AllKinds = {"deployment", "service", "certificate", "webhook"}
BY DEF AllKinds, KindOrder

LEMMA ChildrenTyped ==
  ASSUME TypeOK, Holding, NEW k \in Kinds
  PROVE  Desired(k) \in Child /\ Desired(k).owner = snap.uid
<1>1. snap \in Class /\ label \in LabelKeys
  BY DEF TypeOK, Holding
<1>2. snap.spec \in ClassSpec /\ snap.uid \in Uid
  BY <1>1 DEF Class
<1>3. Content(k, snap.spec, label) \in Contents
  BY <1>1, <1>2, KindsAssumption DEF Content, Contents, ClassSpec
<1> QED BY <1>2, <1>3 DEF Desired, Child

\* A step of the worker that leaves the API server and the caches alone.
WorkerMoves ==
  /\ UNCHANGED <<overcommit, class, children, caches, wanted, edits>>
  /\ queued' \in BOOLEAN /\ gauge' \in BOOLEAN /\ pc' \in Calls \cup {"idle"}
  /\ IF pc' \in {"idle", "label", "get"} THEN snap' = None
     ELSE snap' \in Class /\ ((snap' = snap /\ Holding) \/ (snap' = seen /\ seen # None))
  /\ label' \in LabelKeys /\ parent' \in Uid
  /\ read' \in (Uid \X ClassSpec) \cup {None} /\ faults' \in 0 .. MaxFaults
  /\ pc' \in AllKinds => snap'.owner # 0

\* What it must keep is about the worker alone.
LEMMA WorkerStep ==
  ASSUME Inv, WorkerMoves, ReadIsSeen'
  PROVE  Inv'
<1> USE DEF WorkerMoves, caches
<1>1. TypeOK'
  BY DEF Inv, TypeOK
<1>2. NoLostEdit' /\ AdoptedBeforeChildren'
  BY DEF Inv, NoLostEdit, AdoptedBeforeChildren
<1>3. UidsGivenOut'
  BY DEF Inv, UidsGivenOut, Holding
<1>4. StaysAdopted'
  BY DEF Inv, StaysAdopted, Holding
<1> QED BY <1>1, <1>2, <1>3, <1>4 DEF Inv

LEMMA ReadsPreserveInv ==
  ASSUME Inv,
         \/ Start \/ GetOvercommitLabel \/ GetClass \/ GetOvercommit \/ GetTotalClasses
         \/ CallFails \/ ListFails
  PROVE  Inv'
<1>1. SUFFICES WorkerMoves /\ ReadIsSeen'
  BY WorkerStep
<1> USE DEF Inv, TypeOK, store, caches, history, bounds, Calls, ReadIsSeen, WorkerMoves, Identity
<1> USE FourKinds
<1>2. CASE Start
  BY <1>2 DEF Start
<1>3. CASE GetOvercommitLabel
  BY <1>3 DEF GetOvercommitLabel, Retry, Return
<1>4. CASE GetClass
  <2>1. read' \in (Uid \X ClassSpec) \cup {None}
    BY <1>4 DEF GetClass, Identity, Class
  <2>2. CASE seen = None
    BY <1>4, <2>1, <2>2 DEF GetClass, Done, Return
  <2>3. CASE seen # None
    BY <1>4, <2>1, <2>3 DEF GetClass, Continue
  <2> QED BY <2>2, <2>3
<1>5. CASE GetOvercommit
  <2>1. CASE heard.uid = 0
    BY <1>5, <2>1 DEF GetOvercommit, Retry, Return
  <2>2. CASE heard.uid # 0
    <3>1. pc' \in AllKinds \cup {"metrics", "owner"}
      BY <1>5, <2>2, CallsInOrder DEF GetOvercommit
    <3>2. pc' \in AllKinds => snap.owner # 0
      BY <1>5, <2>2 DEF GetOvercommit
    <3>3. pc' \notin {"idle", "label", "get"} /\ snap' = snap /\ snap \in Class
      BY <1>5, <2>2, <3>1 DEF GetOvercommit, Holding
    <3>4. parent' \in Uid
      BY <1>5, <2>2 DEF GetOvercommit
    <3> QED BY <1>5, <2>2, <3>1, <3>2, <3>3, <3>4 DEF GetOvercommit, Holding
  <2> QED BY <2>1, <2>2
<1>6. CASE GetTotalClasses
  BY <1>6 DEF GetTotalClasses, Continue, Holding
<1>7. CASE CallFails
  BY <1>7, BoundsAssumption DEF CallFails, Fault, Retry, Return
<1>8. CASE ListFails
  BY <1>8, BoundsAssumption DEF ListFails, Fault, Done, Return
<1> QED BY <1>2, <1>3, <1>4, <1>5, <1>6, <1>7, <1>8

LEMMA RemoveFinalizerPreservesInv ==
  ASSUME Inv, RemoveFinalizer
  PROVE  Inv'
<1> USE DEF RemoveFinalizer, Retry, Return, caches, history, bounds
<1>1. class' = class \/ class' = None
      \/ (class = snap /\ class' = [snap EXCEPT !.finalizer = FALSE])
  BY DEF Fresh
<1>2. snap \in Class
  BY DEF Inv, TypeOK
<1>3. class' # None /\ class' # class =>
        /\ class' \in Class /\ class'.uid = class.uid
        /\ class'.spec = class.spec /\ class'.owner = class.owner
  BY <1>1, <1>2 DEF Class
<1>4. class' # None => class # None
  BY <1>1, <1>2, SentinelAssumption
<1>5. TypeOK'
  BY <1>1, <1>3 DEF Inv, TypeOK
<1>6. NoLostEdit' /\ AdoptedBeforeChildren' /\ ReadIsSeen'
  BY <1>1, <1>3, <1>4 DEF Inv, NoLostEdit, AdoptedBeforeChildren, ReadIsSeen
<1>7. UidsGivenOut' /\ StaysAdopted'
  BY <1>1, <1>3, <1>4, FourKinds DEF Inv, UidsGivenOut, StaysAdopted, Holding
<1> QED BY <1>5, <1>6, <1>7 DEF Inv

\* The write of the owner reference, which SetOwner and AnswerLost share.
LEMMA OwnerWritten ==
  ASSUME Inv, pc = "owner", Fresh, class' = [snap EXCEPT !.owner = parent],
         pc' = "idle", snap' = None, queued' \in BOOLEAN, queued => queued', faults' \in 0 .. MaxFaults,
         UNCHANGED <<overcommit, children, caches, gauge, history, edits, label, parent>>
  PROVE  Inv'
<1> USE DEF caches, history
<1>1. /\ class \in Class /\ class = snap /\ class # None /\ parent \in Uid
  BY SentinelAssumption DEF Inv, TypeOK, Fresh
<1>2. /\ class' \in Class /\ class'.uid = class.uid /\ class'.spec = class.spec
      /\ class'.owner # 0
  BY <1>1 DEF Class, Uid
<1>3. TypeOK'
  BY <1>2 DEF Inv, TypeOK
<1>4. NoLostEdit' /\ AdoptedBeforeChildren'
  BY <1>1, <1>2 DEF Inv, NoLostEdit, AdoptedBeforeChildren
<1>5. ReadIsSeen'
  BY DEF Inv, ReadIsSeen
<1>6. UidsGivenOut' /\ StaysAdopted'
  BY <1>1, <1>2, FourKinds DEF Inv, UidsGivenOut, StaysAdopted, Holding
<1> QED BY <1>3, <1>4, <1>5, <1>6 DEF Inv

\* The write of a child, which CreateOrUpdate and AnswerLost share.
LEMMA ChildWritten ==
  ASSUME Inv, NEW k \in Kinds, pc = k, children' = [children EXCEPT ![k] = Desired(k)],
         \/ pc' = NextCall(k) /\ UNCHANGED <<snap, queued, faults>>
         \/ pc' = "idle" /\ snap' = None /\ queued' = TRUE /\ faults' \in 0 .. MaxFaults,
         UNCHANGED <<overcommit, class, caches, gauge, history, edits, label, parent>>
  PROVE  Inv'
<1> USE DEF caches, history
<1>1. k \in AllKinds /\ Holding /\ snap \in Class /\ snap.owner # 0
  BY FourKinds, KindsAssumption DEF Inv, TypeOK, StaysAdopted, Holding
<1>2. Desired(k) \in Child /\ Desired(k).owner = snap.uid
  BY <1>1, ChildrenTyped DEF Inv
<1>3. /\ pc' \in AllKinds \cup {"metrics", "idle"}
      /\ IF pc' \in {"idle", "label", "get"} THEN snap' = None ELSE snap' = snap
  <2>1. NextCall(k) \in AllKinds \cup {"metrics"}
    BY CallsInOrder
  <2> QED BY <2>1, FourKinds
<1>4. TypeOK'
  <2>1. children' \in [Kinds -> Child \cup {None}]
    BY <1>2 DEF Inv, TypeOK
  <2>2. IF pc' \in {"idle", "label", "get"} THEN snap' = None ELSE snap' \in Class
    BY <1>1, <1>3
  <2>3. pc' \in Calls \cup {"idle"} /\ queued' \in BOOLEAN /\ faults' \in 0 .. MaxFaults
    BY <1>3 DEF Inv, TypeOK, Calls
  <2> QED BY <2>1, <2>2, <2>3 DEF Inv, TypeOK
<1>5. \A c \in Kinds : children'[c] = IF c = k THEN Desired(k) ELSE children[c]
  BY DEF Inv, TypeOK
<1>6. NoLostEdit'
  BY DEF Inv, NoLostEdit
<1>7. AdoptedBeforeChildren'
  BY <1>1, <1>2, <1>5 DEF Inv, AdoptedBeforeChildren, StaysAdopted
<1>8. ReadIsSeen'
  BY <1>1, FourKinds DEF Inv, ReadIsSeen
<1>9. UidsGivenOut'
  BY <1>1, <1>2, <1>3, <1>5 DEF Inv, UidsGivenOut, Holding
<1>10. StaysAdopted'
  BY <1>1, <1>3, FourKinds DEF Inv, StaysAdopted, Holding
<1> QED BY <1>4, <1>6, <1>7, <1>8, <1>9, <1>10 DEF Inv

LEMMA CreateOrUpdatePreservesInv ==
  ASSUME Inv, NEW k \in Kinds, CreateOrUpdate(k)
  PROVE  Inv'
<1> USE DEF CreateOrUpdate, caches, history, bounds
<1>1. k \in AllKinds
  BY KindsAssumption
<1>2. CASE children[k] = cached[k] /\ Write(k) /\ children' = [children EXCEPT ![k] = Desired(k)]
           /\ pc' = NextCall(k) /\ UNCHANGED <<queued, snap, label, parent>>
  BY <1>2, ChildWritten
<1>3. CASE \/ Continue(NextCall(k)) /\ UNCHANGED <<snap, children>>
           \/ Retry /\ UNCHANGED children
  <2>1. NextCall(k) \in AllKinds \cup {"metrics"}
    BY CallsInOrder
  <2>2. pc' \in AllKinds \cup {"metrics", "idle"} /\ Holding
    BY <1>1, <1>3, <2>1, FourKinds DEF Continue, Retry, Return, Holding
  <2>3. snap \in Class /\ snap.owner # 0
    BY <1>1, <2>2 DEF Inv, TypeOK, StaysAdopted, Holding
  <2>4. pc' = "idle" => snap' = None
    BY <1>3, <2>1, FourKinds DEF Continue, Retry, Return
  <2>5. pc' # "idle" => snap' = snap
    BY <1>3, <2>1 DEF Continue, Retry, Return
  <2>6. WorkerMoves
    <3>1. /\ queued' \in BOOLEAN /\ gauge' \in BOOLEAN /\ label' \in LabelKeys /\ parent' \in Uid
          /\ read' \in (Uid \X ClassSpec) \cup {None} /\ faults' \in 0 .. MaxFaults
      BY <1>3 DEF Continue, Retry, Return, Inv, TypeOK
    <3>2. UNCHANGED <<overcommit, class, children, seen, cached, wanted, edits>>
      BY <1>3
    <3> QED BY <2>2, <2>3, <2>4, <2>5, <3>1, <3>2, FourKinds DEF WorkerMoves, Calls
  <2>7. ReadIsSeen'
    BY <1>1, <1>3, FourKinds DEF Continue, Retry, Return, Inv, ReadIsSeen
  <2> QED BY <2>6, <2>7, WorkerStep
<1> QED BY <1>2, <1>3

LEMMA SetOwnerPreservesInv ==
  ASSUME Inv, SetOwner
  PROVE  Inv'
<1> USE DEF SetOwner, caches, history, bounds
<1>1. CASE Fresh
  <2>1. faults' \in 0 .. MaxFaults /\ queued' \in BOOLEAN
    BY <1>1 DEF Done, Return, Inv, TypeOK
  <2> QED BY <1>1, <2>1, OwnerWritten DEF Done, Return
<1>2. CASE ~Fresh
  <2>1. WorkerMoves /\ ReadIsSeen'
    BY <1>2, FourKinds DEF Retry, Return, Inv, TypeOK, WorkerMoves, ReadIsSeen
  <2> QED BY <2>1, WorkerStep
<1> QED BY <1>1, <1>2

\* What the two writes of the status do.
LEMMA StatusWritten ==
  ASSUME Inv, pc \in {"resources", "condition"}, NEW status \in Status,
         \/ class' = class \/ (class # None /\ class' = [class EXCEPT !.status = status]),
         \/ pc' = "idle" /\ snap' = None
         \/ pc' = "condition" /\ snap' = [snap EXCEPT !.status = status],
         queued' \in BOOLEAN, queued => queued',
         UNCHANGED <<overcommit, children, caches, gauge, history, bounds, label, parent>>
  PROVE  Inv'
<1> USE DEF caches, history, bounds
<1>1. snap \in Class
  BY DEF Inv, TypeOK
<1>2. /\ class' # None => class # None
      /\ class' # None => /\ class' \in Class /\ class'.uid = class.uid
                          /\ class'.spec = class.spec /\ class'.owner = class.owner
  BY SentinelAssumption DEF Inv, TypeOK, Class
<1>3. pc' = "condition" =>
        snap' \in Class /\ snap'.uid = snap.uid /\ snap'.owner = snap.owner
  BY <1>1 DEF Class
<1>4. TypeOK'
  <2>1. class' \in Class \cup {None}
    BY <1>2
  <2>2. pc' \in Calls \cup {"idle"} /\ queued' \in BOOLEAN
    BY DEF Inv, TypeOK, Calls
  <2>3. IF pc' \in {"idle", "label", "get"} THEN snap' = None ELSE snap' \in Class
    BY <1>3
  <2> QED BY <2>1, <2>2, <2>3 DEF Inv, TypeOK
<1>5. NoLostEdit' /\ AdoptedBeforeChildren'
  BY <1>2 DEF Inv, NoLostEdit, AdoptedBeforeChildren
<1>6. ReadIsSeen'
  <2>1. queued \/ read = Identity(seen)
    BY DEF Inv, ReadIsSeen
  <2> QED BY <2>1 DEF ReadIsSeen, Identity
<1>7. UidsGivenOut' /\ StaysAdopted'
  BY <1>2, <1>3, FourKinds DEF Inv, UidsGivenOut, StaysAdopted, Holding
<1> QED BY <1>4, <1>5, <1>6, <1>7 DEF Inv

LEMMA StatusPreservesInv ==
  ASSUME Inv, UpdateCondition \/ \E o \in Orders : UpdateResources(o)
  PROVE  Inv'
<1> USE DEF WriteStatus, Retry, Done, Continue, Return, bounds
<1>1. CASE UpdateCondition
  <2> DEFINE c == IF snap.status.ready = Kinds THEN "True" ELSE "False"
             status == [snap.status EXCEPT !.condition = c]
  <2>1. snap.status \in Status
    BY <1>1 DEF UpdateCondition, Inv, TypeOK, Class
  <2>2. status \in Status
    BY <2>1 DEF Status
  <2>3. queued' \in BOOLEAN
    BY <1>1 DEF UpdateCondition, Inv, TypeOK
  <2>4. queued => queued'
    BY <1>1 DEF UpdateCondition
  <2> QED BY <1>1, <2>4, <2>2, <2>3, StatusWritten DEF UpdateCondition
<1>2. ASSUME NEW o \in Orders, UpdateResources(o)
      PROVE  Inv'
  <2> DEFINE status == [snap.status EXCEPT !.order = o, !.ready = {k \in Kinds : cached[k] # None}]
  <2>1. snap.status \in Status
    BY <1>2 DEF UpdateResources, Inv, TypeOK, Class
  <2>2. status \in Status
    BY <2>1 DEF Status
  <2>3. queued' \in BOOLEAN
    BY <1>2 DEF UpdateResources, Inv, TypeOK
  <2>4. queued => queued'
    BY <1>2 DEF UpdateResources
  <2> QED BY <1>2, <2>4, <2>2, <2>3, StatusWritten DEF UpdateResources
<1> QED BY <1>1, <1>2

LEMMA AnswerLostPreservesInv ==
  ASSUME Inv, AnswerLost
  PROVE  Inv'
<1> USE DEF AnswerLost, Retry, Return, Fault, history
<1>1. faults' \in 0 .. MaxFaults
  BY BoundsAssumption DEF Inv, TypeOK
<1>2. CASE pc = "owner" /\ Fresh /\ class' = [snap EXCEPT !.owner = parent] /\ UNCHANGED children
  BY <1>1, <1>2, OwnerWritten
<1>3. ASSUME NEW k \in Kinds, pc = k, children' = [children EXCEPT ![k] = Desired(k)],
             UNCHANGED class
      PROVE  Inv'
  BY <1>1, <1>3, ChildWritten
<1> QED BY <1>2, <1>3

LEMMA CachesPreserveInv ==
  ASSUME Inv,
         \/ ObserveClass \/ ObserveOvercommit \/ Resync \/ Restart
         \/ \E k \in Kinds : ObserveChild(k)
  PROVE  Inv'
<1> USE DEF Inv, store, worker, history, bounds
<1>1. CASE ObserveClass
  <2> USE <1>1 DEF ObserveClass
  <2>1. TypeOK'
    BY DEF TypeOK
  <2>2. NoLostEdit' /\ AdoptedBeforeChildren' /\ ReadIsSeen'
    BY DEF NoLostEdit, AdoptedBeforeChildren, ReadIsSeen
  <2>3. UidsGivenOut' /\ StaysAdopted'
    BY DEF UidsGivenOut, StaysAdopted, Holding
  <2> QED BY <2>1, <2>2, <2>3
<1>2. CASE Resync
  <2>1. WorkerMoves
    <3>1. pc' = "idle" /\ snap' = None /\ queued' = TRUE
      BY <1>2 DEF Resync, TypeOK
    <3>2. UNCHANGED <<overcommit, class, children, caches, wanted, edits,
                      gauge, label, parent, read, faults>>
      BY <1>2 DEF Resync, caches
    <3>3. pc' \notin AllKinds
      BY <3>1, FourKinds
    <3> QED BY <3>1, <3>2, <3>3 DEF WorkerMoves, TypeOK
  <2>2. ReadIsSeen'
    BY <1>2 DEF Resync, ReadIsSeen
  <2> HIDE DEF Inv
  <2> QED BY <2>1, <2>2, WorkerStep
<1>3. CASE Restart
  <2> USE <1>3 DEF Restart, Fault, Return
  <2>1. TypeOK'
    <3>1. queued' \in BOOLEAN /\ gauge' \in BOOLEAN
      BY <1>3
    <3>2. faults' \in 0 .. MaxFaults
      BY BoundsAssumption DEF TypeOK
    <3>3. UNCHANGED <<overcommit, class, children, label, parent, wanted, edits>>
      OBVIOUS
    <3>4. /\ seen' = class /\ heard' = overcommit /\ cached' = children
          /\ pc' = "idle" /\ snap' = None /\ read' = None
      OBVIOUS
    <3> HIDE DEF Restart
    <3> QED BY <3>1, <3>2, <3>3, <3>4 DEF TypeOK
  <2>2. NoLostEdit' /\ AdoptedBeforeChildren' /\ ReadIsSeen'
    BY DEF NoLostEdit, AdoptedBeforeChildren, ReadIsSeen, Identity
  <2>3. UidsGivenOut' /\ StaysAdopted'
    BY FourKinds DEF UidsGivenOut, StaysAdopted, Holding
  <2> QED BY <2>1, <2>2, <2>3
<1>4. ASSUME NEW k \in Kinds, ObserveChild(k)
      PROVE  Inv'
  <2> USE <1>4 DEF ObserveChild
  <2>1. TypeOK'
    BY DEF TypeOK
  <2>2. NoLostEdit' /\ AdoptedBeforeChildren' /\ ReadIsSeen'
    BY DEF NoLostEdit, AdoptedBeforeChildren, ReadIsSeen, Identity
  <2>3. UidsGivenOut' /\ StaysAdopted'
    BY DEF UidsGivenOut, StaysAdopted, Holding
  <2> QED BY <2>1, <2>2, <2>3
<1>5. CASE ObserveOvercommit
  <2> USE <1>5 DEF ObserveOvercommit
  <2>1. TypeOK'
    BY DEF TypeOK
  <2>2. NoLostEdit' /\ AdoptedBeforeChildren' /\ ReadIsSeen'
    BY DEF NoLostEdit, AdoptedBeforeChildren, ReadIsSeen
  <2>3. UidsGivenOut' /\ StaysAdopted'
    BY DEF UidsGivenOut, StaysAdopted, Holding
  <2> QED BY <2>1, <2>2, <2>3
<1> QED BY <1>1, <1>2, <1>3, <1>4, <1>5

\* Collection and deletion: the class and some children may go, the Overcommit
\* object may change, nothing new appears.
LEMMA RemovalsPreserveInv ==
  ASSUME Inv,
         \/ CollectClass \/ DeleteClass \/ DeleteChild
         \/ ChangeLabelKey \/ DeleteOvercommit \/ CreateOvercommit
         \/ \E k \in Kinds : CollectChild(k)
  PROVE  Inv'
<1> USE DEF Inv, caches, worker, history, bounds, Edit
<1>1. /\ edits' \in 0 .. MaxEdits /\ edits' >= edits
      /\ UNCHANGED <<caches, queued, worker, gauge, history, faults>>
  BY BoundsAssumption
     DEF TypeOK, CollectClass, DeleteClass, DeleteChild, ChangeLabelKey, DeleteOvercommit,
         CreateOvercommit, CollectChild
<1>2. overcommit' \in [uid : Uid \cup {0}, key : LabelKeys]
  BY BoundsAssumption
     DEF TypeOK, CollectClass, DeleteClass, DeleteChild, ChangeLabelKey, DeleteOvercommit,
         CreateOvercommit, CollectChild, Uid
<1>3. class' # None => /\ class # None /\ class' \in Class /\ class'.uid = class.uid
                       /\ class'.spec = class.spec /\ class'.owner = class.owner
  <2>1. CASE class # None /\ class' = Removed(class)
    <3>1. class \in Class
      BY <2>1 DEF TypeOK
    <3>2. Removed(class) = None \/ Removed(class) = [class EXCEPT !.deleting = TRUE]
      BY DEF Removed
    <3> HIDE DEF Inv
    <3> QED BY <2>1, <3>1, <3>2 DEF Class
  <2>2. CASE class' = class
    BY <2>2 DEF TypeOK
  <2> QED BY <2>1, <2>2 DEF CollectClass, DeleteClass, DeleteChild, ChangeLabelKey,
                            DeleteOvercommit, CreateOvercommit, CollectChild
<1>4. /\ children' \in [Kinds -> Child \cup {None}]
      /\ \A c \in Kinds : children'[c] # None => children'[c] = children[c]
  BY DEF TypeOK, CollectClass, DeleteClass, DeleteChild, ChangeLabelKey,
         DeleteOvercommit, CreateOvercommit, CollectChild
<1>5. TypeOK'
  BY <1>1, <1>2, <1>3, <1>4 DEF TypeOK
<1>6. NoLostEdit' /\ AdoptedBeforeChildren' /\ ReadIsSeen'
  BY <1>1, <1>3, <1>4 DEF NoLostEdit, AdoptedBeforeChildren, ReadIsSeen, Identity
<1>7. UidsGivenOut' /\ StaysAdopted'
  BY <1>1, <1>3, <1>4, FourKinds DEF UidsGivenOut, StaysAdopted, Holding, TypeOK, Class, Child, Uid
<1> QED BY <1>5, <1>6, <1>7

LEMMA ChangesPreserveInv ==
  ASSUME Inv, CreateClass \/ EditClass
  PROVE  Inv'
<1> USE DEF Inv, caches, worker, history, bounds, Edit
<1>1. /\ edits' = edits + 1 /\ edits' \in 0 .. MaxEdits
      /\ UNCHANGED <<overcommit, children, caches, queued, worker, gauge, read, faults>>
  BY BoundsAssumption DEF TypeOK, CreateClass, EditClass
<1>2. CASE CreateClass
  <2>1. NewStatus \in Status
    BY ValuesAssumption DEF NewStatus, Status
  <2>2. /\ class' \in Class /\ class'.uid = edits' + 1 /\ class'.spec = wanted'
        /\ wanted' \in ClassSpec
    BY <1>1, <1>2, <2>1, BoundsAssumption DEF CreateClass, Class, Uid, TypeOK
  <2>3. TypeOK'
    BY <1>1, <2>2 DEF TypeOK
  <2>4. /\ seen # None => seen.uid < class'.uid
        /\ Holding => snap.uid < class'.uid
        /\ \A k \in Kinds : children[k] # None => children[k].owner < class'.uid
    BY <1>1, <2>2 DEF UidsGivenOut, TypeOK, Class, Child, Uid, Holding
  <2>5. NoLostEdit' /\ AdoptedBeforeChildren' /\ ReadIsSeen'
    BY <1>1, <2>2, <2>4 DEF NoLostEdit, AdoptedBeforeChildren, ReadIsSeen, Identity, TypeOK,
                            Class, Child, Uid
  <2>6. UidsGivenOut' /\ StaysAdopted'
    BY <1>1, <2>2, <2>4, FourKinds DEF UidsGivenOut, StaysAdopted, Holding, TypeOK, Class,
                                       Child, Uid
  <2> QED BY <2>3, <2>5, <2>6
<1>3. CASE EditClass
  <2>1. /\ class \in Class /\ class # None /\ wanted' \in ClassSpec
        /\ class' = [class EXCEPT !.spec = wanted']
    BY <1>3 DEF EditClass, TypeOK
  <2>2. /\ class' \in Class /\ class'.uid = class.uid /\ class'.owner = class.owner
        /\ class'.spec = wanted'
    BY <2>1 DEF Class
  <2>3. TypeOK'
    BY <1>1, <2>1, <2>2 DEF TypeOK
  <2>4. NoLostEdit' /\ AdoptedBeforeChildren' /\ ReadIsSeen'
    BY <1>1, <2>1, <2>2 DEF NoLostEdit, AdoptedBeforeChildren, ReadIsSeen, Identity
  <2>5. UidsGivenOut' /\ StaysAdopted'
    BY <1>1, <2>1, <2>2, FourKinds DEF UidsGivenOut, StaysAdopted, Holding, TypeOK, Class,
                                       Child, Uid
  <2> QED BY <2>3, <2>4, <2>5
<1> QED BY <1>2, <1>3

LEMMA InitEstablishesInv == Init => Inv
<1> SUFFICES ASSUME Init PROVE Inv
  OBVIOUS
<1> USE DEF Init
<1>1. NewStatus \in Status
  BY ValuesAssumption DEF NewStatus, Status
<1>2. /\ class \in Class /\ wanted \in ClassSpec /\ class.spec = wanted /\ class.uid = 1
      /\ Holding = FALSE
  <2>1. PICK s \in ClassSpec, f \in BOOLEAN :
          /\ class = [uid |-> 1, spec |-> s, owner |-> IF f THEN 1 ELSE 0, finalizer |-> f,
                      deleting |-> FALSE, status |-> NewStatus]
          /\ wanted = s
    OBVIOUS
  <2>2. 1 \in Uid
    BY BoundsAssumption DEF Uid
  <2>3. class \in Class
    BY <1>1, <2>1, <2>2 DEF Class
  <2>4. Holding = FALSE
    BY DEF Holding
  <2> QED BY <2>1, <2>3, <2>4
<1>3. TypeOK
  <2>1. /\ overcommit \in [uid : Uid \cup {0}, key : LabelKeys]
        /\ label \in LabelKeys /\ parent \in Uid
    BY BoundsAssumption DEF Uid
  <2>2. /\ children \in [Kinds -> Child \cup {None}] /\ cached \in [Kinds -> Child \cup {None}]
        /\ queued \in BOOLEAN /\ gauge \in BOOLEAN
    OBVIOUS
  <2>3. edits \in 0 .. MaxEdits /\ faults \in 0 .. MaxFaults
    BY BoundsAssumption
  <2> QED BY <1>2, <2>1, <2>2, <2>3 DEF TypeOK
<1>4. NoLostEdit /\ AdoptedBeforeChildren /\ ReadIsSeen
  BY <1>2 DEF NoLostEdit, AdoptedBeforeChildren, ReadIsSeen
<1>5. UidsGivenOut /\ StaysAdopted
  BY <1>2, FourKinds DEF UidsGivenOut, StaysAdopted
<1> QED BY <1>3, <1>4, <1>5 DEF Inv

LEMMA NextPreservesInv == Inv /\ [Next]_vars => Inv'
<1> SUFFICES ASSUME Inv, [Next]_vars PROVE Inv'
  OBVIOUS
<1>1. CASE UNCHANGED vars
  BY <1>1 DEF Inv, TypeOK, NoLostEdit, AdoptedBeforeChildren, ReadIsSeen, UidsGivenOut,
              StaysAdopted, Holding, Identity, vars, store, caches, worker, history, bounds
<1>2. CASE Step
  BY <1>2, ReadsPreserveInv, RemoveFinalizerPreservesInv, SetOwnerPreservesInv,
     CreateOrUpdatePreservesInv, StatusPreservesInv DEF Step
<1>3. CASE Observe \/ Resync \/ Restart
  BY <1>3, CachesPreserveInv DEF Observe
<1>4. CASE Collect \/ User
  BY <1>4, RemovalsPreserveInv, ChangesPreserveInv DEF Collect, User
<1>5. CASE CallFails \/ AnswerLost \/ ListFails
  BY <1>5, ReadsPreserveInv, AnswerLostPreservesInv
<1> QED BY <1>1, <1>2, <1>3, <1>4, <1>5 DEF Next

THEOREM Invariance == Spec => []Inv
<1>1. Init => Inv
  BY InitEstablishesInv
<1>2. Inv /\ [Next]_vars => Inv'
  BY NextPreservesInv
<1> QED BY <1>1, <1>2, PTL DEF Spec

\* Every variable keeps its type, whatever fails or is deleted and recreated.
THEOREM TypeCorrect == Spec => []TypeOK
BY Invariance, PTL DEF Inv

\* The writes of the whole class (finalizer, owner, status) never undo what a user
\* wrote after the class was read.
THEOREM EditsKept == Spec => []NoLostEdit
BY Invariance, PTL DEF Inv

\* No early return, failure, conflict or restart makes the controller forget a
\* change of the class.
THEOREM WakeupsKept == Spec => []NoLostWakeup
<1>1. Inv => NoLostWakeup
  BY DEF Inv, ReadIsSeen, NoLostWakeup
<1> QED BY <1>1, Invariance, PTL

\* A class with a child of its own is owned by an Overcommit object, so the
\* collector reaches the child when that object goes.
THEOREM ChildrenOfAdopted == Spec => []AdoptedBeforeChildren
BY Invariance, PTL DEF Inv

-----------------------------------------------------------------------------
(* The refinement of Reconciler                                            *)

LEMMA Versioned ==
  ASSUME NEW c \in Class
  PROVE  Identity(c) = <<c.uid, c.spec>> /\ Identity(c) \in Uid \X ClassSpec /\ Identity(c) # None
<1>1. c # None /\ <<c.uid, c.spec>> \in Uid \X ClassSpec
  BY SentinelAssumption DEF Class
<1> QED BY <1>1, SentinelAssumption DEF Identity

LEMMA VersionNone ==
  ASSUME NEW c \in Class \cup {None}
  PROVE  Identity(c) = None <=> c = None
<1>1. Identity(None) = None
  BY DEF Identity
<1> QED BY <1>1, Versioned

\* The worker's own writes.
LEMMA WriteKeepsVersion ==
  ASSUME Inv, Fresh, Holding,
         \/ class' = [snap EXCEPT !.finalizer = FALSE]
         \/ class' = [snap EXCEPT !.owner = parent]
         \/ \E status \in Status : class' = [snap EXCEPT !.status = status]
  PROVE  Identity(class)' = Identity(class) /\ Deleting' = Deleting
<1>1. class = snap /\ class \in Class /\ class # None /\ parent \in Uid
  BY SentinelAssumption DEF Inv, TypeOK, Holding, Fresh
<1>2. /\ class'.uid = class.uid /\ class'.spec = class.spec /\ class'.deleting = class.deleting
      /\ class' \in Class
  BY <1>1 DEF Class
<1>3. class' # None
  BY <1>2, SentinelAssumption
<1> QED BY <1>1, <1>2, <1>3 DEF Identity, Deleting

\* A reconciliation goes on, or ends, and the class keeps its version.
GoesOn == Stage' = "working" /\ UNCHANGED queued

Ends == Stage' = "idle" /\ (UNCHANGED queued \/ queued' = TRUE)

LEMMA WorkingRefines ==
  ASSUME Stage = "working", GoesOn \/ Ends,
         UNCHANGED <<Identity(class), Deleting, Identity(seen), read>>
  PROVE  Controller!Next \/ UNCHANGED Controller!vars
<1> USE DEF GoesOn, Ends
<1>1. CASE GoesOn
  BY <1>1 DEF Controller!vars, Controller!cluster
<1>2. CASE Stage' = "idle" /\ UNCHANGED queued
  BY <1>2 DEF Controller!Finish, Controller!Next, Controller!cluster
<1>3. CASE Stage' = "idle" /\ queued' = TRUE
  BY <1>3 DEF Controller!GiveUp, Controller!Next, Controller!cluster
<1> QED BY <1>1, <1>2, <1>3

\* The worker's calls after the class was read are its work.
LEMMA CallsAreWork ==
  /\ Holding /\ Inv => Stage = "working"
  /\ Retry => Ends
  /\ Done => Ends
  /\ \A c \in AllKinds \cup {"metrics", "resources", "condition"} : Continue(c) => GoesOn
BY FourKinds DEF Holding, Inv, TypeOK, Stage, Retry, Done, Return, Ends, Continue, GoesOn

LEMMA ReadsRefine ==
  ASSUME Inv, Start \/ GetOvercommitLabel \/ GetClass \/ GetOvercommit \/ GetTotalClasses
  PROVE  Controller!Next \/ UNCHANGED Controller!vars
<1> USE DEF Controller!Next, Controller!vars, Controller!cluster, store, caches, history, bounds
<1>1. UNCHANGED <<class, seen, Identity(class), Identity(seen), Deleting>>
  BY DEF Start, GetOvercommitLabel, GetClass, GetOvercommit, GetTotalClasses, Identity, Deleting
<1>2. CASE Start
  <2>1. Stage = "idle" /\ Stage' = "begun"
    BY <1>2 DEF Start, Stage
  <2>2. Controller!Begin
    BY <1>1, <1>2, <2>1 DEF Controller!Begin, Start
  <2> QED BY <2>2
<1>3. CASE GetOvercommitLabel
  <2>1. CASE heard.uid = 0
    <3>1. Stage = "begun" /\ Stage' = "idle"
      BY <1>3, <2>1 DEF GetOvercommitLabel, Retry, Return, Stage
    <3>2. Controller!GiveUp
      BY <1>1, <1>3, <2>1, <3>1 DEF Controller!GiveUp, GetOvercommitLabel, Retry
    <3> QED BY <3>2
  <2>2. CASE heard.uid # 0
    <3>1. Stage = "begun" /\ Stage' = "begun"
      BY <1>3, <2>2 DEF GetOvercommitLabel, Stage
    <3> QED BY <1>1, <1>3, <2>2, <3>1 DEF GetOvercommitLabel
  <2> QED BY <2>1, <2>2
<1>4. CASE GetClass
  <2>1. seen = None <=> Identity(seen) = None
    BY VersionNone DEF Inv, TypeOK
  <2>2. Stage = "begun" /\ Stage' = IF seen = None THEN "idle" ELSE "working"
    BY <1>4 DEF GetClass, Done, Return, Continue, Stage
  <2>3. UNCHANGED queued /\ read' = Identity(seen)
    BY <1>4 DEF GetClass, Done, Continue
  <2>4. Controller!Read
    BY <1>1, <2>1, <2>2, <2>3 DEF Controller!Read
  <2> QED BY <2>4
<1>5. CASE GetOvercommit
  <2>1. CASE heard.uid = 0
    <3>1. Stage = "working" /\ Stage' = "idle"
      BY <1>5, <2>1 DEF GetOvercommit, Retry, Return, Stage
    <3>2. Controller!GiveUp
      BY <1>1, <1>5, <2>1, <3>1 DEF Controller!GiveUp, GetOvercommit, Retry
    <3> QED BY <3>2
  <2>2. CASE heard.uid # 0
    <3>1. pc' \in AllKinds \cup {"metrics", "owner"}
      BY <1>5, <2>2, CallsInOrder DEF GetOvercommit
    <3>2. Stage = "working" /\ Stage' = "working"
      BY <1>5, <2>2, <3>1, FourKinds DEF GetOvercommit, Stage
    <3> QED BY <1>1, <1>5, <2>2, <3>2 DEF GetOvercommit
  <2> QED BY <2>1, <2>2
<1>6. CASE GetTotalClasses
  <2>1. Stage = "working" /\ Stage' = "working"
    BY <1>6 DEF GetTotalClasses, Continue, Stage
  <2> QED BY <1>1, <1>6, <2>1 DEF GetTotalClasses, Continue
<1> QED BY <1>2, <1>3, <1>4, <1>5, <1>6

LEMMA ObjectWritesRefine ==
  ASSUME Inv, RemoveFinalizer \/ SetOwner
  PROVE  Controller!Next \/ UNCHANGED Controller!vars
<1> USE DEF caches, history, bounds
<1>1. Holding /\ Stage = "working" /\ snap \in Class
  BY DEF RemoveFinalizer, SetOwner, Holding, Stage, Inv, TypeOK
<1>2. UNCHANGED <<seen, Identity(seen), read>>
  BY DEF RemoveFinalizer, SetOwner, Identity
<1>3. CASE RemoveFinalizer /\ Fresh /\ snap.deleting
  <2>1. class' = None /\ Identity(class)' = None /\ Deleting' = FALSE
    BY <1>3 DEF RemoveFinalizer, Identity, Deleting
  <2>2. Deleting = TRUE
    BY <1>1, <1>3, SentinelAssumption DEF Fresh, Deleting, Class
  <2>3. Stage' = "idle" /\ queued' = TRUE
    BY <1>3 DEF RemoveFinalizer, Retry, Return, Stage
  <2> QED BY <1>1, <1>2, <2>1, <2>2, <2>3 DEF Controller!Release, Controller!Next
<1>4. CASE RemoveFinalizer /\ ~(Fresh /\ snap.deleting)
  <2>1. Identity(class)' = Identity(class) /\ Deleting' = Deleting
    <3>1. CASE Fresh
      BY <1>1, <1>4, <3>1, WriteKeepsVersion DEF RemoveFinalizer
    <3>2. CASE ~Fresh
      BY <1>4, <3>2 DEF RemoveFinalizer, Identity, Deleting
    <3> QED BY <3>1, <3>2
  <2>2. Ends
    BY <1>4, CallsAreWork DEF RemoveFinalizer
  <2> QED BY <1>1, <1>2, <2>1, <2>2, WorkingRefines
<1>5. CASE SetOwner
  <2>1. Identity(class)' = Identity(class) /\ Deleting' = Deleting
    <3>1. CASE Fresh
      BY <1>1, <1>5, <3>1, WriteKeepsVersion DEF SetOwner
    <3>2. CASE ~Fresh
      BY <1>5, <3>2 DEF SetOwner, Identity, Deleting
    <3> QED BY <3>1, <3>2
  <2>2. Ends
    BY <1>5, CallsAreWork DEF SetOwner
  <2> QED BY <1>1, <1>2, <2>1, <2>2, WorkingRefines
<1> QED BY <1>3, <1>4, <1>5

LEMMA ChildrenRefine ==
  ASSUME Inv, NEW k \in Kinds, CreateOrUpdate(k)
  PROVE  Controller!Next \/ UNCHANGED Controller!vars
<1>1. Holding /\ Stage = "working"
  BY KindsAssumption, FourKinds DEF CreateOrUpdate, Holding, Stage
<1>2. UNCHANGED <<Identity(class), Deleting, Identity(seen), read>>
  BY DEF CreateOrUpdate, Identity, Deleting, caches, history
<1>3. GoesOn \/ Ends
  <2>1. NextCall(k) \in AllKinds \cup {"metrics"}
    BY CallsInOrder
  <2>2. pc' = NextCall(k) => Stage' = "working"
    BY <2>1, FourKinds DEF Stage
  <2> QED BY <2>2, CallsAreWork DEF CreateOrUpdate, Continue, GoesOn
<1> QED BY <1>1, <1>2, <1>3, WorkingRefines

LEMMA StatusRefines ==
  ASSUME Inv, UpdateCondition \/ \E o \in Orders : UpdateResources(o)
  PROVE  Controller!Next \/ UNCHANGED Controller!vars
<1>1. Holding /\ Stage = "working" /\ snap.status \in Status
  BY DEF UpdateCondition, UpdateResources, Holding, Stage, Inv, TypeOK, Class
<1>2. UNCHANGED <<Identity(seen), read>>
  BY DEF UpdateCondition, UpdateResources, Identity, caches, history
<1>3. ASSUME NEW status \in Status,
             \/ class' = class
             \/ class # None /\ Fresh /\ class' = [class EXCEPT !.status = status]
      PROVE  UNCHANGED <<Identity(class), Deleting>>
  <2>1. CASE class' = class
    BY <2>1 DEF Identity, Deleting
  <2>2. CASE Fresh /\ class' = [snap EXCEPT !.status = status]
    BY <1>1, <2>2, WriteKeepsVersion
  <2> QED BY <1>3, <2>1, <2>2 DEF Fresh
<1>4. CASE UpdateCondition
  <2> DEFINE c == IF snap.status.ready = Kinds THEN "True" ELSE "False"
             status == [snap.status EXCEPT !.condition = c]
  <2>1. status \in Status
    BY <1>1 DEF Status
  <2>2. WriteStatus(status, Done)
    BY <1>4 DEF UpdateCondition
  <2> HIDE DEF status
  <2>3. UNCHANGED <<Identity(class), Deleting>>
    BY <1>3, <2>1, <2>2 DEF WriteStatus
  <2>4. Ends
    BY <2>2, CallsAreWork DEF WriteStatus
  <2> QED BY <1>1, <1>2, <2>3, <2>4, WorkingRefines
<1>5. ASSUME NEW o \in Orders, UpdateResources(o)
      PROVE  Controller!Next \/ UNCHANGED Controller!vars
  <2> DEFINE status == [snap.status EXCEPT !.order = o, !.ready = {k \in Kinds : cached[k] # None}]
  <2>1. status \in Status
    BY <1>1 DEF Status
  <2>2. WriteStatus(status, Continue("condition") /\ snap' = [snap EXCEPT !.status = status])
    BY <1>5 DEF UpdateResources
  <2> HIDE DEF status
  <2>3. UNCHANGED <<Identity(class), Deleting>>
    BY <1>3, <2>1, <2>2 DEF WriteStatus
  <2>4. GoesOn \/ Ends
    BY <2>2, CallsAreWork DEF WriteStatus
  <2> QED BY <1>1, <1>2, <2>3, <2>4, WorkingRefines
<1> QED BY <1>4, <1>5

LEMMA FailuresRefine ==
  ASSUME Inv, CallFails \/ AnswerLost \/ ListFails \/ Restart
  PROVE  Controller!Next \/ UNCHANGED Controller!vars
<1> USE DEF Controller!Next, Controller!cluster, Fault, store, caches, history
<1>1. CASE CallFails
  <2>1. Stage # "idle" /\ Stage' = "idle" /\ queued' = TRUE
    BY <1>1, FourKinds DEF CallFails, Retry, Return, Calls, Stage
  <2>2. UNCHANGED <<Identity(class), Deleting, Identity(seen), read>>
    BY <1>1 DEF CallFails, Identity, Deleting
  <2> QED BY <2>1, <2>2 DEF Controller!GiveUp
<1>2. CASE AnswerLost
  <2>1. Holding /\ Ends
    BY <1>2, CallsAreWork, KindsAssumption, FourKinds DEF AnswerLost, Holding
  <2>2. UNCHANGED <<Identity(class), Deleting>>
    <3>1. CASE UNCHANGED class
      BY <3>1 DEF Identity, Deleting
    <3>2. CASE Fresh /\ class' = [snap EXCEPT !.owner = parent]
      BY <2>1, <3>2, WriteKeepsVersion
    <3> QED BY <1>2, <3>1, <3>2 DEF AnswerLost
  <2>3. UNCHANGED <<Identity(seen), read>>
    BY <1>2 DEF AnswerLost, Identity
  <2> QED BY <2>1, <2>2, <2>3, CallsAreWork, WorkingRefines
<1>3. CASE ListFails
  <2>1. Holding /\ Ends
    BY <1>3, CallsAreWork DEF ListFails, Holding
  <2>2. UNCHANGED <<Identity(class), Deleting, Identity(seen), read>>
    BY <1>3 DEF ListFails, Identity, Deleting
  <2> QED BY <2>1, <2>2, CallsAreWork, WorkingRefines
<1>4. CASE Restart
  <2>1. Stage' = "idle" /\ read' = None /\ Identity(seen)' = Identity(class)
    BY <1>4 DEF Restart, Return, Stage, Identity
  <2>2. UNCHANGED <<Identity(class), Deleting>>
    BY <1>4 DEF Restart, Identity, Deleting
  <2>3. queued' = (Identity(class) # None)
    BY <1>4, VersionNone DEF Restart, Inv, TypeOK
  <2> QED BY <2>1, <2>2, <2>3 DEF Controller!Restart
<1> QED BY <1>1, <1>2, <1>3, <1>4

LEMMA CachesRefine ==
  ASSUME Inv, Observe \/ Resync
  PROVE  Controller!Next \/ UNCHANGED Controller!vars
<1> USE DEF Controller!Next, Controller!vars, Controller!cluster, store, worker, history
<1>1. UNCHANGED <<Identity(class), Deleting, Stage, read>>
  BY DEF Observe, ObserveClass, ObserveOvercommit, ObserveChild, Resync, Identity, Deleting, Stage
<1>2. CASE ObserveClass
  BY <1>1, <1>2 DEF ObserveClass, Controller!Learn, Identity
<1>3. CASE \E k \in Kinds : ObserveChild(k)
  BY <1>1, <1>3 DEF ObserveChild, Identity
<1>4. CASE ObserveOvercommit
  BY <1>1, <1>4 DEF ObserveOvercommit, Identity
<1>5. CASE Resync
  <2>1. Identity(seen) # None /\ Identity(seen)' = Identity(seen)
    BY <1>5, VersionNone DEF Resync, caches, Identity, Inv, TypeOK
  <2> QED BY <1>1, <1>5, <2>1 DEF Resync, Controller!Resync
<1> QED BY <1>2, <1>3, <1>4, <1>5 DEF Observe

\* Users and the collector change the class as Reconciler lets them; of the other
\* objects it says nothing.
LEMMA ClusterRefines ==
  ASSUME Inv, Inv', Collect \/ User
  PROVE  Controller!Next \/ UNCHANGED Controller!vars
<1> USE DEF Controller!Next, Controller!vars, Controller!cluster, caches, worker, history, Edit
<1>1. UNCHANGED <<Identity(seen), queued, Stage, read>>
  BY DEF Collect, CollectClass, CollectChild, User, CreateClass, EditClass, DeleteClass,
         DeleteChild, ChangeLabelKey, DeleteOvercommit, CreateOvercommit, Identity, Stage
<1>2. CASE class # None /\ ~class.deleting /\ class' = Removed(class)
  <2>1. class \in Class /\ Identity(class) # None /\ Deleting = FALSE
    BY <1>2, Versioned DEF Inv, TypeOK, Class, Deleting
  <2>2. CASE class.finalizer
    <3>1. class' = [class EXCEPT !.deleting = TRUE]
      BY <1>2, <2>2 DEF Removed
    <3>2. class'.uid = class.uid /\ class'.spec = class.spec /\ class'.deleting = TRUE
          /\ class' \in Class
      BY <2>1, <3>1 DEF Class
    <3>3. Identity(class)' = Identity(class) /\ Deleting' = TRUE
      BY <1>2, <3>2, SentinelAssumption DEF Identity, Deleting
    <3> QED BY <1>1, <2>1, <3>3 DEF Controller!Delete
  <2>3. CASE ~class.finalizer
    <3>1. Identity(class)' = None /\ Deleting' = FALSE
      BY <1>2, <2>3 DEF Removed, Identity, Deleting
    <3> QED BY <1>1, <2>1, <3>1 DEF Controller!Delete
  <2> QED BY <2>2, <2>3
<1>3. CASE CreateClass \/ EditClass
  <2>1. class' \in Class /\ class' # None
    <3>1. ASSUME NEW s \in ClassSpec,
                 class' = [uid |-> edits + 2, spec |-> s, owner |-> 0, finalizer |-> FALSE,
                           deleting |-> FALSE, status |-> NewStatus], CreateClass
          PROVE  class' \in Class
      <4>1. NewStatus \in Status
        BY ValuesAssumption DEF NewStatus, Status
      <4>2. edits + 2 \in Uid
        BY <3>1, BoundsAssumption DEF CreateClass, Inv, TypeOK, Uid
      <4> QED BY <3>1, <4>1, <4>2 DEF Class
    <3>2. ASSUME NEW s \in ClassSpec, class # None, class' = [class EXCEPT !.spec = s]
          PROVE  class' \in Class
      BY <3>2 DEF Inv, TypeOK, Class
    <3>3. class' \in Class
      BY <1>3, <3>1, <3>2 DEF CreateClass, EditClass
    <3> QED BY <3>3, SentinelAssumption
  <2>2. Identity(class)' \in Uid \X ClassSpec
    BY <2>1, Versioned
  <2>3. Deleting' = IF Identity(class) = None THEN FALSE ELSE Deleting
    <3>1. Identity(class) = None <=> class = None
      BY VersionNone DEF Inv, TypeOK
    <3>2. class'.deleting = IF class = None THEN FALSE ELSE class.deleting
      <4>1. CASE CreateClass
        BY <4>1 DEF CreateClass
      <4>2. CASE EditClass
        BY <4>2 DEF EditClass, Inv, TypeOK, Class
      <4> QED BY <1>3, <4>1, <4>2
    <3> QED BY <2>1, <3>1, <3>2 DEF Deleting
  <2> QED BY <1>1, <2>2, <2>3 DEF Controller!Put
<1>4. CASE UNCHANGED class
  BY <1>1, <1>4 DEF Identity, Deleting
<1> QED BY <1>2, <1>3, <1>4
        DEF Collect, CollectClass, CollectChild, User, DeleteClass, DeleteChild, ChangeLabelKey,
            DeleteOvercommit, CreateOvercommit

\* Of all that happens to a class, users and readers need to know Reconciler only.
THEOREM ReconcilerImplemented == Spec => ImplementsReconciler
<1>1. Init => Controller!Init
  <2> SUFFICES ASSUME Init PROVE Controller!Init
    OBVIOUS
  <2>1. class \in Class /\ Deleting = FALSE /\ seen = class
    <3>1. PICK s \in ClassSpec, f \in BOOLEAN :
            class = [uid |-> 1, spec |-> s, owner |-> IF f THEN 1 ELSE 0, finalizer |-> f,
                     deleting |-> FALSE, status |-> NewStatus]
      BY DEF Init
    <3>2. ~class.deleting /\ NewStatus \in Status /\ 1 \in Uid
      BY <3>1, BoundsAssumption, ValuesAssumption DEF NewStatus, Status, Uid
    <3>3. class \in Class
      BY <3>1, <3>2 DEF Class
    <3> QED BY <3>2, <3>3, SentinelAssumption DEF Init, Deleting
  <2>2. Identity(class) \in Uid \X ClassSpec
    BY <2>1, Versioned
  <2> QED BY <2>1, <2>2 DEF Init, Controller!Init, Stage
<1>2. Inv /\ Inv' /\ [Next]_vars => [Controller!Next]_(Controller!vars)
  <2> SUFFICES ASSUME Inv, Inv', [Next]_vars
               PROVE  Controller!Next \/ UNCHANGED Controller!vars
    OBVIOUS
  <2>1. CASE UNCHANGED vars
    BY <2>1 DEF vars, store, caches, worker, history, Controller!vars, Controller!cluster,
                Identity, Deleting, Stage
  <2>2. CASE Step
    BY <2>2, ReadsRefine, ObjectWritesRefine, ChildrenRefine, StatusRefines DEF Step
  <2>3. CASE Observe \/ Resync \/ Collect \/ User
    BY <2>3, CachesRefine, ClusterRefines
  <2>4. CASE CallFails \/ AnswerLost \/ ListFails \/ Restart
    BY <2>4, FailuresRefine
  <2> QED BY <2>1, <2>2, <2>3, <2>4 DEF Next
<1> QED BY <1>1, <1>2, Invariance, PTL DEF Spec, ImplementsReconciler, Controller!Spec

-----------------------------------------------------------------------------
(* A settled cluster stays settled                                         *)

\* What Settled says, but for the worker.
Quiet ==
  /\ class # None /\ overcommit.uid # 0 /\ Converged
  /\ heard.uid = overcommit.uid
  /\ Current(seen) /\ \A k \in Kinds : Fits(k, cached[k])

\* A step of the worker that writes nothing at the API server.
LEMMA QuietWorker ==
  ASSUME Inv, Settled, UNCHANGED <<overcommit, class, children, caches>>,
         gauge' = gauge \/ gauge' = TRUE
  PROVE  Quiet'
<1> USE DEF Inv, Settled, Quiet, caches
<1>1. UNCHANGED <<overcommit, class, children, seen, heard, cached>> /\ gauge'
  <2>1. gauge
    BY DEF Converged
  <2>2. gauge'
    BY <2>1
  <2> QED BY <2>2
<1>2. Converged'
  BY <1>1 DEF Converged, Reconciled, Fits, Content
<1> QED BY <1>1, <1>2 DEF Current, Fits, Content

\* A step that writes nothing leaves alone what it should.
LEMMA NothingWritten ==
  ASSUME Inv, Settled, UNCHANGED <<class, children>>
  PROVE  LeftAlone
<1>1. class \in Class
  BY DEF Inv, TypeOK, Settled
<1>2. class = [class EXCEPT !.status.order = class.status.order]
  BY <1>1 DEF Class, Status
<1> QED BY <1>2 DEF LeftAlone

\* A child that is written again is what it was.
LEMMA WritesRepeat ==
  ASSUME Inv, Settled, Holding, NEW k \in Kinds, Write(k), children[k] = cached[k]
  PROVE  [children EXCEPT ![k] = Desired(k)] = children
<1>1. Fits(k, cached[k]) /\ Current(snap)
  BY DEF Settled
<1>2. k = "service"
  BY <1>1, KindsAssumption, FourKinds DEF Write, Differs, Desired, Content, Fits, Current
<1>3. children[k] \in Child
  BY <1>1 DEF Inv, TypeOK, Fits
<1>4. children[k] = Desired(k)
  BY <1>1, <1>2, <1>3 DEF Fits, Desired, Content, Current, Child
<1> QED BY <1>4 DEF Inv, TypeOK

LEMMA ReadsStaySettled ==
  ASSUME Inv, Settled,
         Start \/ GetOvercommitLabel \/ GetClass \/ GetOvercommit \/ GetTotalClasses
  PROVE  Settled' /\ LeftAlone
<1> USE DEF store, caches, bounds
<1>1. UNCHANGED <<overcommit, class, children, caches>>
  BY DEF Start, GetOvercommitLabel, GetClass, GetOvercommit, GetTotalClasses
<1>2. seen # None /\ Current(seen) /\ overcommit.uid # 0 /\ ~class.finalizer
      /\ class.owner = overcommit.uid /\ heard.uid = overcommit.uid
  BY DEF Settled, Current, Converged
<1>3. gauge' = gauge \/ gauge' = TRUE
  BY <1>2 DEF Start, GetOvercommitLabel, GetClass, GetOvercommit, GetTotalClasses
<1>4. Quiet'
  BY <1>1, <1>3, QuietWorker
<1>5. Holding' => \/ snap' = seen
                  \/ Holding /\ snap' = snap
  BY DEF Start, GetOvercommitLabel, GetClass, GetOvercommit, GetTotalClasses, Continue,
         Retry, Done, Return, Holding
<1>6. Holding' => Current(snap)'
  BY <1>1, <1>2, <1>5 DEF Settled, Current
<1>7. pc' \notin {"finalizer", "owner", "condition"}
  <2>1. CASE GetOvercommit
    <3>1. snap.owner = overcommit.uid
      BY <1>2, <2>1 DEF GetOvercommit, Settled, Current, Holding
    <3>2. pc' = ChildFrom(1)
      BY <1>2, <2>1, <3>1 DEF GetOvercommit
    <3> QED BY <3>2, CallsInOrder, FourKinds
  <2>2. CASE GetClass
    BY <1>2, <2>2 DEF GetClass, Continue, Current
  <2> QED BY <2>1, <2>2 DEF Start, GetOvercommitLabel, GetTotalClasses, Retry, Return, Continue
<1>8. LeftAlone
  BY <1>1, NothingWritten
<1> QED BY <1>4, <1>6, <1>7, <1>8 DEF Quiet, Settled

LEMMA ChildrenStaySettled ==
  ASSUME Inv, Settled, NEW k \in Kinds, CreateOrUpdate(k)
  PROVE  Settled' /\ LeftAlone
<1> USE DEF caches, history, bounds
<1>1. Holding /\ pc # "condition"
  BY KindsAssumption, FourKinds DEF CreateOrUpdate, Holding
<1>2. pc' \notin {"finalizer", "owner", "condition"}
  <2>1. NextCall(k) \in AllKinds \cup {"metrics"}
    BY CallsInOrder
  <2> QED BY <2>1, FourKinds DEF CreateOrUpdate, Continue, Retry, Return
<1>3. UNCHANGED <<overcommit, class, caches, gauge>>
  BY DEF CreateOrUpdate
<1>4. Holding' => snap' = snap
  BY DEF CreateOrUpdate, Retry, Return, Holding
<1>5. Holding' => Current(snap)'
  BY <1>1, <1>3, <1>4 DEF Settled, Current
<1>6. children' = children
  BY <1>1, WritesRepeat DEF CreateOrUpdate
<1>7. Quiet'
  BY <1>3, <1>6, QuietWorker
<1>8. LeftAlone
  BY <1>3, <1>6, NothingWritten
<1> QED BY <1>2, <1>5, <1>7, <1>8 DEF Quiet, Settled

\* The two writes of the status say again that all is ready.
LEMMA StatusStaysSettled ==
  ASSUME Inv, Settled, UpdateCondition \/ \E o \in Orders : UpdateResources(o)
  PROVE  Settled' /\ LeftAlone
<1> USE DEF caches, history, bounds
<1>1. /\ class \in Class /\ snap \in Class /\ Holding /\ Current(snap)
      /\ {k \in Kinds : cached[k] # None} = Kinds
  BY DEF UpdateCondition, UpdateResources, Holding, Settled, Inv, TypeOK, Fits
<1>2. class.status \in Status /\ snap.status \in Status
  BY <1>1 DEF Class
<1>3. ASSUME NEW status \in Status, status.ready = Kinds, status.condition = "True",
             class' = IF Fresh THEN [class EXCEPT !.status = status] ELSE class,
             UNCHANGED <<overcommit, children, caches, gauge>>
      PROVE  /\ Quiet' /\ LeftAlone
             /\ class' # None /\ class'.uid = class.uid /\ class'.spec = class.spec
             /\ class'.finalizer = class.finalizer /\ class'.owner = class.owner
  <2>1. /\ class' \in Class
        /\ class'.uid = class.uid /\ class'.spec = class.spec
        /\ class'.finalizer = class.finalizer /\ class'.owner = class.owner
        /\ class'.status.ready = Kinds /\ class'.status.condition = "True"
    BY <1>1, <1>2, <1>3 DEF Class, Settled, Converged
  <2>2. class' # None
    BY <2>1, SentinelAssumption
  <2>3. Converged'
    BY <1>3, <2>1, <2>2 DEF Settled, Converged, Reconciled, Fits, Content
  <2>4. LeftAlone
    <3>1. CASE Fresh
      <4>1. [class EXCEPT !.status.order = status.order] = [class EXCEPT !.status = status]
        BY <1>1, <1>2, <1>3 DEF Class, Status, Settled, Converged
      <4>2. class'.status = status
        BY <1>1, <1>3, <3>1 DEF Class
      <4> QED BY <1>3, <3>1, <4>1, <4>2 DEF LeftAlone
    <3>2. CASE ~Fresh
      BY <1>3, <3>2, NothingWritten
    <3> QED BY <3>1, <3>2
  <2> QED BY <1>3, <2>1, <2>2, <2>3, <2>4 DEF Settled, Quiet, Current, Fits, Content
<1>4. CASE UpdateCondition
  <2> DEFINE status == [snap.status EXCEPT
                          !.condition = IF snap.status.ready = Kinds THEN "True" ELSE "False"]
  <2>1. snap.status.ready = Kinds /\ pc = "condition"
    BY <1>4 DEF UpdateCondition, Settled
  <2>2. status \in Status /\ status.ready = Kinds /\ status.condition = "True"
    BY <1>2, <2>1 DEF Status
  <2>3. WriteStatus(status, Done)
    BY <1>4 DEF UpdateCondition
  <2>4. UNCHANGED <<overcommit, children, caches, gauge>>
    BY <1>4 DEF UpdateCondition
  <2> HIDE DEF status
  <2>5. class' = IF Fresh THEN [class EXCEPT !.status = status] ELSE class
    BY <2>3 DEF WriteStatus, Settled
  <2>6. pc' = "idle"
    BY <2>3 DEF WriteStatus, Retry, Done, Return
  <2> QED BY <1>3, <2>2, <2>4, <2>5, <2>6 DEF Quiet, Settled, Holding
<1>5. ASSUME NEW o \in Orders, UpdateResources(o)
      PROVE  Settled' /\ LeftAlone
  <2> DEFINE status == [snap.status EXCEPT !.order = o, !.ready = {k \in Kinds : cached[k] # None}]
  <2>1. status \in Status /\ status.ready = Kinds /\ status.condition = snap.status.condition
    BY <1>1, <1>2 DEF Status
  <2>2. WriteStatus(status, Continue("condition") /\ snap' = [snap EXCEPT !.status = status])
    BY <1>5 DEF UpdateResources
  <2>3. UNCHANGED <<overcommit, children, caches, gauge>>
    BY <1>5 DEF UpdateResources
  <2> HIDE DEF status
  <2>4. class' = IF Fresh THEN [class EXCEPT !.status = status] ELSE class
    BY <2>2 DEF WriteStatus, Settled
  <2>5. pc' = "condition" /\ snap' = [snap EXCEPT !.status = status]
    BY <2>2 DEF WriteStatus, Settled, Continue
  <2>6. snap' \in Class /\ snap'.status.ready = Kinds
        /\ snap'.uid = snap.uid /\ snap'.spec = snap.spec
        /\ snap'.finalizer = snap.finalizer /\ snap'.owner = snap.owner
    BY <1>1, <2>1, <2>5 DEF Class
  <2>7. CASE Fresh
    <3>1. status.condition = "True"
      BY <2>1, <2>7 DEF Fresh, Settled, Converged
    <3>2. Quiet' /\ Current(snap)' /\ LeftAlone
      BY <1>1, <1>3, <2>1, <2>3, <2>4, <2>6, <3>1, SentinelAssumption DEF Current
    <3> QED BY <2>5, <2>6, <3>2 DEF Quiet, Settled
  <2>8. CASE ~Fresh
    <3>1. UNCHANGED <<overcommit, class, children, caches, gauge>>
      BY <2>3, <2>4, <2>8
    <3>2. Quiet'
      BY <3>1, QuietWorker
    <3>3. Current(snap)' /\ LeftAlone
      BY <1>1, <2>6, <3>1, SentinelAssumption, NothingWritten DEF Current
    <3> QED BY <2>5, <2>6, <3>2, <3>3 DEF Quiet, Settled
  <2> QED BY <2>7, <2>8
<1> QED BY <1>4, <1>5

\* Events, resyncs and the collector find nothing to change.
LEMMA ClusterStaysSettled ==
  ASSUME Inv, Settled, Observe \/ Resync \/ Collect
  PROVE  Settled' /\ LeftAlone
<1> USE DEF store, worker, history, bounds
<1>0. (Observe \/ Resync) => LeftAlone
  BY NothingWritten DEF Observe, ObserveClass, ObserveOvercommit, ObserveChild, Resync
<1>1. ObserveClass => Settled'
  <2> HAVE ObserveClass
  <2>1. UNCHANGED <<overcommit, class, children, heard, cached, pc, snap, gauge>> /\ seen' = class
    BY DEF ObserveClass
  <2>2. Converged'
    BY <2>1 DEF Settled, Converged, Reconciled, Fits, Content
  <2> QED BY <2>1, <2>2 DEF Settled, Current, Holding, Fits, Content
<1>2. ASSUME NEW k \in Kinds, ObserveChild(k)
      PROVE  Settled'
  <2>1. UNCHANGED <<overcommit, class, children, seen, heard, pc, snap, gauge>>
        /\ cached' = [cached EXCEPT ![k] = children[k]]
    BY <1>2 DEF ObserveChild
  <2>2. Converged'
    BY <2>1 DEF Settled, Converged, Reconciled, Fits, Content
  <2>3. \A c \in Kinds : Fits(c, cached'[c])
    BY <2>1 DEF Settled, Converged, Reconciled, Inv, TypeOK
  <2>4. \A c \in Kinds : Fits(c, cached[c])'
    BY <2>1, <2>3 DEF Fits, Content
  <2> QED BY <2>1, <2>2, <2>4 DEF Settled, Current, Holding
<1>3. Resync => Settled'
  <2> HAVE Resync
  <2>1. UNCHANGED <<overcommit, class, children, caches, gauge, pc, snap>>
    BY DEF Resync
  <2>2. Quiet'
    BY <2>1, QuietWorker
  <2> QED BY <2>1, <2>2 DEF Quiet, Settled, Holding, Current
<1>4. ObserveOvercommit => Settled'
  <2> HAVE ObserveOvercommit
  <2>1. UNCHANGED <<overcommit, class, children, seen, cached, pc, snap, gauge>>
        /\ heard' = overcommit
    BY DEF ObserveOvercommit
  <2>2. Converged'
    BY <2>1 DEF Settled, Converged, Reconciled, Fits, Content
  <2> QED BY <2>1, <2>2 DEF Settled, Current, Holding, Fits, Content
<1>5. ~Collect
  BY DEF Collect, CollectClass, CollectChild, Settled, Converged, Reconciled, Fits
<1> QED BY <1>0, <1>1, <1>2, <1>3, <1>4, <1>5 DEF Observe

\* The safety half of convergence: what reconciliation has reached, no further
\* reconciliation, event, resync or late cache undoes.
THEOREM SettledStays == Spec => StaysSettled
<1>1. Inv /\ [Next]_vars => [Settled /\ UNCHANGED bounds => Settled' /\ LeftAlone]_vars
  <2> SUFFICES ASSUME Inv, Next, Settled, UNCHANGED bounds
               PROVE  Settled' /\ LeftAlone
    OBVIOUS
  <2>1. /\ edits' = edits /\ faults' = faults
        /\ edits \in Int /\ faults \in Int
    BY BoundsAssumption DEF bounds, Inv, TypeOK
  <2>2. CASE Step
    <3>1. ~RemoveFinalizer /\ ~SetOwner
      BY DEF Settled, RemoveFinalizer, SetOwner
    <3> QED BY <2>2, <3>1, ReadsStaySettled, ChildrenStaySettled, StatusStaysSettled DEF Step
  <2>3. CASE Observe \/ Resync \/ Collect
    BY <2>3, ClusterStaysSettled
  <2>4. ~User
    BY <2>1 DEF User, CreateClass, EditClass, DeleteClass, DeleteChild, ChangeLabelKey,
                DeleteOvercommit, CreateOvercommit, Edit
  <2>5. ~(CallFails \/ AnswerLost \/ ListFails \/ Restart)
    BY <2>1 DEF CallFails, AnswerLost, ListFails, Restart, Fault
  <2> QED BY <2>2, <2>3, <2>4, <2>5 DEF Next
<1> QED BY <1>1, Invariance, PTL DEF Spec, StaysSettled
=============================================================================
