-------------------------- MODULE PodLookupsProofs --------------------------
(***************************************************************************)
(* The walk along owner references, for any objects, any references        *)
(* between them and any number of changes during the walk.                 *)
(***************************************************************************)
EXTENDS PodLookups, TLAPS

\* The edges recorded cover the references as they are now.
Recorded ==
  /\ edges \subseteq Names \X Names
  /\ FirstOwners(owners) \subseteq edges
  /\ Tops(owners) \subseteq tops

\* The walk stands at an ancestor of the pod, and it came there from every object
\* it has read.
OnPath ==
  lookup = "GetPodOwner" =>
    /\ pc \in {"pod", "replicaSet", "root", "done", "failed"}
    /\ pc \in {"replicaSet", "root"} => Ancestor(ref)
    /\ pc \in {"pod", "replicaSet"} => visited = {}
    /\ pc = "root" =>
         \A n \in visited : \E e \in edges : e[1] = n /\ e[2] \in visited \cup {ref}
    /\ visited \subseteq Names

Inv == TypeOK /\ Recorded /\ OnPath /\ AnswerOwnsPod /\ NoObjectTwice

-----------------------------------------------------------------------------
(* Lists and references                                                    *)

LEMMA ListsTyped ==
  ASSUME NEW list \in Lists
  PROVE  /\ list # <<>> => list[1] \in Names
         /\ \A kind : FirstOfKind(list, kind) \subseteq Names
BY NamesAssumption DEF FirstOfKind

LEMMA ReferencesRecorded ==
  ASSUME TypeOK, Recorded, NEW n \in Names, owners[n] # None
  PROVE  /\ owners[n] \in Lists
         /\ owners[n] # <<>> => owners[n][1] \in Names /\ <<n, owners[n][1]>> \in edges
         /\ owners[n] = <<>> => n \in tops
<1>1. owners[n] \in Lists
  BY DEF TypeOK
<1>2. owners[n] # <<>> => owners[n][1] \in Names
  BY <1>1, ListsTyped
<1>3. owners[n] # <<>> => <<n, owners[n][1]>> \in FirstOwners(owners)
  BY DEF FirstOwners
<1>4. owners[n] = <<>> => n \in Tops(owners)
  BY DEF Tops
<1> QED BY <1>1, <1>2, <1>3, <1>4 DEF Recorded

\* More references make more ancestors and keep every cycle.
LEMMA MoreEdges ==
  ASSUME edges \subseteq edges', pod' = pod
  PROVE  (\A n : Ancestor(n) => Ancestor(n)') /\ (Cyclic => Cyclic')
BY DEF Ancestor, Cyclic

LEMMA FirstOwnerIsAncestor ==
  ASSUME pod # <<>>
  PROVE  Ancestor(pod[1])
BY DEF Ancestor

LEMMA OwnerOfAncestor ==
  ASSUME NEW n, NEW o, Ancestor(n), <<n, o>> \in edges
  PROVE  Ancestor(o)
BY DEF Ancestor

-----------------------------------------------------------------------------
(* Types                                                                   *)

LEMMA StepTyped ==
  ASSUME TypeOK, Step
  PROVE  TypeOK'
<1> USE DEF TypeOK
<1>1. None \notin Names
  BY NamesAssumption
<1>2. pc \in {"replicaSet", "root", "ownReplicaSet"} =>
        /\ ref \in Names
        /\ owners[ref] # None => owners[ref] \in Lists
  OBVIOUS
<1>3. pod # <<>> => pod[1] \in Names
  BY ListsTyped
<1>4. pc \in {"replicaSet", "root", "ownReplicaSet"} /\ owners[ref] # None =>
        /\ owners[ref] # <<>> => owners[ref][1] \in Names
        /\ \A kind : FirstOfKind(owners[ref], kind) \subseteq Names
  BY <1>2, ListsTyped
<1>5. \A kind : FirstOfKind(pod, kind) \subseteq Names
  BY ListsTyped
<1>6. ImageDetails' = ImageDetails \/ ~UNCHANGED image
  BY DEF ImageDetails
<1>7. CASE GetPodOwner
  BY <1>1, <1>3, <1>6, <1>7 DEF GetPodOwner, Found, GoTo, cluster
<1>8. CASE GetReplicaSet
  BY <1>2, <1>4, <1>6, <1>8 DEF GetReplicaSet, Get, GetCached, GetFails, Found, Fail, cluster
<1>9. CASE FindRootOwner
  BY <1>2, <1>4, <1>6, <1>9 DEF FindRootOwner, Get, GetCached, GetFails, Found, Fail, GoTo, cluster
<1>10. CASE GetPodDeploymentName
  BY <1>5, <1>6, <1>10 DEF GetPodDeploymentName, GoTo, Fail, cluster
<1>11. CASE GetOwnReplicaSet
  BY <1>2, <1>4, <1>6, <1>11 DEF GetOwnReplicaSet, Get, GetCached, GetFails, Fail, cluster
<1>12. CASE GetPodImageDetails \/ GetPodServiceAccount \/ StartManager
  BY <1>6, <1>12 DEF GetPodImageDetails, GetPodServiceAccount, StartManager, Fail, cluster
<1> QED BY <1>7, <1>8, <1>9, <1>10, <1>11, <1>12 DEF Step

LEMMA NextTyped ==
  ASSUME TypeOK, [Next]_vars
  PROVE  TypeOK'
<1>1. ImageDetails' = ImageDetails \/ ~UNCHANGED image
  BY DEF ImageDetails
<1>2. CASE Step
  BY <1>2, StepTyped
<1>3. CASE Expire \/ RestartContainer
  BY <1>1, <1>3 DEF Expire, RestartContainer, cluster, process, TypeOK
<1>4. CASE CallFails
  <2>1. faults' \in 0 .. MaxFaults
    BY <1>4, BoundsAssumption DEF CallFails, TypeOK
  <2> QED BY <1>1, <1>4, <2>1 DEF CallFails, Fail, cluster, TypeOK
<1>5. CASE Change
  <2>1. edits' \in 0 .. MaxEdits
    BY <1>5, BoundsAssumption DEF Change, TypeOK
  <2>2. owners' \in [Names -> Lists \cup {None}]
    BY <1>5 DEF Change, TypeOK
  <2> QED BY <1>1, <1>5, <2>1, <2>2 DEF Change, process, TypeOK
<1>6. CASE UNCHANGED vars
  BY <1>1, <1>6 DEF vars, cluster, process, TypeOK
<1> QED BY <1>2, <1>3, <1>4, <1>5, <1>6 DEF Next

-----------------------------------------------------------------------------
(* The walk                                                                *)

\* The invariant but for types.
Walk == Recorded /\ OnPath /\ AnswerOwnsPod /\ NoObjectTwice

\* A read takes the walk from an ancestor to its first owner.
LEMMA ReadsKeepWalk ==
  ASSUME Inv, Step
  PROVE  Walk'
<1>1. UNCHANGED <<cluster, edges, tops>>
  BY DEF Step, GetPodOwner, GetReplicaSet, FindRootOwner, GetPodDeploymentName,
     GetOwnReplicaSet, GetPodImageDetails, GetPodServiceAccount, StartManager, Get, GetCached, GetFails,
     history
<1>2. Recorded' /\ (\A n : Ancestor(n) => Ancestor(n)') /\ (Cyclic => Cyclic')
  BY <1>1, MoreEdges DEF Inv, Recorded, cluster, FirstOwners, Tops
<1>3. SUFFICES ASSUME lookup = "GetPodOwner"
               PROVE  OnPath' /\ AnswerOwnsPod' /\ NoObjectTwice'
  BY <1>1, <1>2 DEF Walk, OnPath, AnswerOwnsPod, NoObjectTwice, cluster
<1>4. /\ TypeOK /\ Recorded /\ OnPath /\ AnswerOwnsPod /\ (~Cyclic => ~again)
      /\ None \notin Names /\ Self \notin Names
  BY <1>3, NamesAssumption DEF Inv, NoObjectTwice
<1>5. ASSUME pc' \in {"done", "failed"}, visited' \subseteq Names, ~Cyclic => ~again',
             answer' \in Names => /\ Ancestor(answer')
                                  /\ Kind[answer'] = "Deployment" \/ answer' \in tops
      PROVE  OnPath' /\ AnswerOwnsPod' /\ NoObjectTwice'
  <2>1. answer' \in Names => Ancestor(answer)'
    BY <1>1, <1>5 DEF Ancestor, cluster
  <2>2. Cyclic' <=> Cyclic
    BY <1>1 DEF Cyclic
  <2> QED BY <1>1, <1>5, <2>1, <2>2 DEF OnPath, AnswerOwnsPod, NoObjectTwice
<1>6. CASE GetPodOwner
  <2>1. CASE pod = <<>>
    BY <1>4, <1>5, <1>6, <2>1 DEF GetPodOwner, Found, history, OnPath
  <2>2. CASE pod # <<>>
    <3>1. /\ pc' \in {"replicaSet", "root"} /\ ref' = pod[1] /\ answer' = answer
          /\ visited' = {} /\ again' = again /\ pc = "pod"
      BY <1>4, <1>6, <2>2 DEF GetPodOwner, GoTo, history, OnPath
    <3>2. Ancestor(ref)'
      BY <1>1, <2>2, <3>1, FirstOwnerIsAncestor DEF Ancestor, cluster
    <3>3. AnswerOwnsPod'
      BY <1>1, <1>4, <3>1 DEF AnswerOwnsPod, Ancestor, cluster
    <3>4. NoObjectTwice'
      BY <1>1, <1>4, <3>1 DEF NoObjectTwice, Cyclic
    <3> QED BY <3>1, <3>2, <3>3, <3>4 DEF OnPath
  <2> QED BY <2>1, <2>2
<1>7. ASSUME GetCached("replicaSet") \/ GetCached("root")
      PROVE  /\ ref \in Names /\ owners[ref] \in Lists /\ Ancestor(ref)
             /\ visited' = visited \cup {ref} /\ visited' \subseteq Names
             /\ owners[ref] # <<>> => /\ owners[ref][1] \in Names
                                      /\ <<ref, owners[ref][1]>> \in edges
                                      /\ Ancestor(owners[ref][1])
             /\ owners[ref] = <<>> => ref \in tops
             /\ ~Cyclic => ~again'
  <2>1. /\ pc \in {"replicaSet", "root"} /\ owners[ref] # None
        /\ visited' = visited \cup {ref} /\ again' = (again \/ ref \in visited)
    BY <1>7 DEF GetCached
  <2>2. ref \in Names /\ Ancestor(ref) /\ visited \subseteq Names
    BY <1>3, <1>4, <2>1 DEF TypeOK, OnPath
  <2>3. ref \in visited => Cyclic
    <3> SUFFICES ASSUME ref \in visited PROVE Cyclic
      OBVIOUS
    <3>1. visited \cup {ref} = visited /\ visited # {} /\ pc = "root"
      BY <1>3, <1>4, <2>1 DEF OnPath
    <3>2. \A n \in visited : \E e \in edges : e[1] = n /\ e[2] \in visited
      BY <1>3, <1>4, <3>1 DEF OnPath
    <3> QED BY <2>2, <3>1, <3>2 DEF Cyclic
  <2>4. owners[ref] \in Lists /\ (owners[ref] = <<>> => ref \in tops)
        /\ (owners[ref] # <<>> => owners[ref][1] \in Names /\ <<ref, owners[ref][1]>> \in edges)
    BY <1>4, <2>1, <2>2, ReferencesRecorded
  <2>5. owners[ref] # <<>> => Ancestor(owners[ref][1])
    BY <2>2, <2>4, OwnerOfAncestor
  <2> QED BY <1>4, <2>1, <2>2, <2>3, <2>4, <2>5
<1>8. ASSUME GetFails("replicaSet") \/ GetFails("root"), Fail
      PROVE  OnPath' /\ AnswerOwnsPod' /\ NoObjectTwice'
  BY <1>3, <1>4, <1>5, <1>8 DEF GetFails, Fail, history, OnPath
<1>9. CASE GetReplicaSet
  <2>1. CASE GetCached("replicaSet") /\ Found(owners[ref][1])
             /\ owners[ref] # <<>> /\ Kind[owners[ref][1]] = "Deployment"
    BY <1>5, <1>7, <2>1 DEF Found
  <2>2. CASE GetCached("replicaSet") /\ Fail
    BY <1>4, <1>5, <1>7, <2>2 DEF Fail
  <2> QED BY <1>8, <1>9, <2>1, <2>2 DEF GetReplicaSet
<1>10. CASE FindRootOwner
  <2>1. CASE GetCached("root") /\ owners[ref] = <<>> /\ Found(ref)
    BY <1>5, <1>7, <2>1 DEF Found
  <2>2. CASE GetCached("root") /\ owners[ref] # <<>> /\ GoTo("root", owners[ref][1])
    <3>1. pc' = "root" /\ ref' = owners[ref][1] /\ answer' = answer /\ pc = "root"
      BY <2>2 DEF GoTo, GetCached
    <3>2. Ancestor(ref)'
      BY <1>1, <1>7, <2>2, <3>1 DEF Ancestor, cluster
    <3>3. \A n \in visited' : \E e \in edges : e[1] = n /\ e[2] \in visited' \cup {ref'}
      <4>1. \A n \in visited : \E e \in edges : e[1] = n /\ e[2] \in visited'
        BY <1>3, <1>4, <1>7, <2>2, <3>1 DEF OnPath
      <4>2. \E e \in edges : e[1] = ref /\ e[2] = ref'
        BY <1>7, <2>2, <3>1
      <4> QED BY <1>7, <2>2, <4>1, <4>2
    <3>4. AnswerOwnsPod'
      BY <1>1, <1>4, <3>1 DEF AnswerOwnsPod, Ancestor, cluster
    <3>5. NoObjectTwice'
      BY <1>1, <1>7, <2>2 DEF NoObjectTwice, Cyclic
    <3> QED BY <1>1, <1>7, <2>2, <3>1, <3>2, <3>3, <3>4, <3>5 DEF OnPath
  <2> QED BY <1>8, <1>10, <2>1, <2>2 DEF FindRootOwner, Get
<1>11. CASE GetPodDeploymentName
  BY <1>3, <1>11 DEF GetPodDeploymentName
<1>12. CASE GetOwnReplicaSet \/ GetPodImageDetails \/ GetPodServiceAccount \/ StartManager
  BY <1>3, <1>4, <1>12
  DEF GetOwnReplicaSet, GetPodImageDetails, GetPodServiceAccount, StartManager, Get, GetCached, GetFails, OnPath
<1> QED BY <1>6, <1>9, <1>10, <1>11, <1>12 DEF Step

\* References that change add to what was seen of them.
LEMMA ChangeKeepsWalk ==
  ASSUME Inv, Change
  PROVE  Walk'
<1>1. /\ edges \subseteq edges' /\ tops \subseteq tops' /\ FirstOwners(owners)' \subseteq edges'
      /\ Tops(owners)' \subseteq tops'
      /\ UNCHANGED <<pod, lookup, pc, ref, answer, visited, again>>
  BY DEF Change, process, FirstOwners, Tops
<1>2. edges' \subseteq Names \X Names
  <2>1. owners' \in [Names -> Lists \cup {None}]
    BY DEF Inv, TypeOK, Change
  <2>2. ASSUME NEW n \in Names, owners'[n] \notin {None, <<>>}
        PROVE  owners'[n][1] \in Names
    <3>1. owners'[n] \in Lists
      BY <2>1, <2>2
    <3> QED BY <2>2, <3>1, ListsTyped
  <2>3. FirstOwners(owners') \subseteq Names \X Names
    BY <2>2 DEF FirstOwners
  <2> QED BY <2>3 DEF Change, Inv, Recorded
<1>3. (\A n : Ancestor(n) => Ancestor(n)') /\ (Cyclic => Cyclic')
  BY <1>1, MoreEdges
<1>4. Recorded'
  BY <1>1, <1>2 DEF Recorded
<1>5. OnPath'
  <2>1. lookup = "GetPodOwner" /\ pc \in {"replicaSet", "root"} => Ancestor(ref)'
    BY <1>1, <1>3 DEF Inv, OnPath, Ancestor
  <2> QED BY <1>1, <2>1 DEF Inv, OnPath
<1>6. AnswerOwnsPod'
  <2>1. lookup = "GetPodOwner" /\ answer \in Names => Ancestor(answer)'
    BY <1>1, <1>3 DEF Inv, AnswerOwnsPod, Ancestor
  <2> QED BY <1>1, <2>1 DEF Inv, AnswerOwnsPod
<1>7. NoObjectTwice'
  BY <1>1, <1>3 DEF Inv, NoObjectTwice
<1> QED BY <1>4, <1>5, <1>6, <1>7 DEF Walk

LEMMA OthersKeepWalk ==
  ASSUME Inv, Expire \/ RestartContainer \/ CallFails \/ UNCHANGED vars
  PROVE  Walk'
<1>1. UNCHANGED <<cluster, history>>
  BY DEF Expire, RestartContainer, CallFails, vars
<1>2. /\ lookup = "GetPodOwner" =>
           \/ pc' = "failed" /\ ref' = None /\ answer' = None
           \/ UNCHANGED process
  BY DEF Expire, RestartContainer, CallFails, Fail, vars
<1>3. None \notin Names
  BY NamesAssumption
<1>4. Recorded' /\ NoObjectTwice'
  BY <1>1 DEF Inv, Recorded, NoObjectTwice, Cyclic, FirstOwners, Tops, cluster, history
<1>5. CASE lookup # "GetPodOwner"
  BY <1>1, <1>4, <1>5 DEF Walk, OnPath, AnswerOwnsPod, cluster
<1>6. CASE lookup = "GetPodOwner" /\ UNCHANGED process
  BY <1>1, <1>4, <1>6
  DEF Inv, Walk, OnPath, AnswerOwnsPod, Ancestor, cluster, process, history
<1>7. CASE lookup = "GetPodOwner" /\ pc' = "failed" /\ ref' = None /\ answer' = None
  BY <1>1, <1>3, <1>4, <1>7 DEF Inv, Walk, OnPath, AnswerOwnsPod, cluster, history
<1> QED BY <1>2, <1>5, <1>6, <1>7

-----------------------------------------------------------------------------
(* The theorems                                                            *)

LEMMA InitEstablishesInv == Init => Inv
<1> SUFFICES ASSUME Init PROVE Inv
  OBVIOUS
<1>1. TypeOK
  <2>1. image \in ImageNames
    BY NamesAssumption DEF Init
  <2>2. 0 \in 0 .. MaxEdits /\ 0 \in 0 .. MaxFaults
    BY BoundsAssumption
  <2>3. edits \in 0 .. MaxEdits /\ faults \in 0 .. MaxFaults
    BY <2>2 DEF Init
  <2>4. owners \in [Names -> Lists \cup {None}] /\ pod \in Lists /\ lookup \in Lookups
        /\ pc = "pod" /\ ref = None /\ answer = None /\ env = None /\ expired = FALSE
    BY DEF Init
  <2> QED BY <2>1, <2>3, <2>4 DEF TypeOK
<1>2. FirstOwners(owners) \subseteq Names \X Names
  <2>1. ASSUME NEW n \in Names, owners[n] \notin {None, <<>>}
        PROVE  owners[n][1] \in Names
    BY <1>1, <2>1, ListsTyped DEF TypeOK
  <2> QED BY <2>1 DEF FirstOwners
<1>3. Recorded
  BY <1>2 DEF Init, Recorded
<1>4. None \notin Names
  BY NamesAssumption
<1> QED BY <1>1, <1>3, <1>4 DEF Init, Inv, OnPath, AnswerOwnsPod, NoObjectTwice

THEOREM Invariance == Spec => []Inv
<1>1. Init => Inv
  BY InitEstablishesInv
<1>2. Inv /\ [Next]_vars => Inv'
  <2> SUFFICES ASSUME Inv, [Next]_vars PROVE Inv'
    OBVIOUS
  <2>1. TypeOK'
    BY NextTyped DEF Inv
  <2>2. Walk'
    BY ReadsKeepWalk, ChangeKeepsWalk, OthersKeepWalk DEF Next
  <2> QED BY <2>1, <2>2 DEF Inv, Walk
<1> QED BY <1>1, <1>2, PTL DEF Spec

\* Every variable keeps its type, and a read in progress has an object to read.
THEOREM TypeCorrect == Spec => []TypeOK
BY Invariance, PTL DEF Inv

\* Whatever changes while GetPodOwner walks, the owner it names is one by way of
\* first owners, and a Deployment or without owners.
THEOREM AnswersOwnPods == Spec => []AnswerOwnsPod
BY Invariance, PTL DEF Inv

\* However deep the owners are nested, findRootOwner reads an object twice only if
\* references, at different times perhaps, form a cycle.
THEOREM NoObjectReadTwice == Spec => []NoObjectTwice
BY Invariance, PTL DEF Inv
=============================================================================
