----------------------------- MODULE PodLookups -----------------------------
(***************************************************************************)
(* Two lookups along owner references.  GetPodOwner names the owner of an  *)
(* admitted pod for the labels of metrics; the webhook makes it before     *)
(* anything else, within the deadline of the admission request.            *)
(* GetPodDeploymentName starts main: a process finds the Deployment of its *)
(* own pod, then its image and service account, or it exits and its        *)
(* container is restarted.  Every read of the API server is a step, and    *)
(* references change in between.                                           *)
(***************************************************************************)
EXTENDS Integers, Sequences, FiniteSets, SequencesExt

CONSTANTS
  Names,      \* objects that may own each other
  Kind,       \* Kind[n]: "ReplicaSet", "Deployment" or another
  Self,       \* the pod
  Lists,      \* possible lists of owners
  ImageNames, \* image references: [registry : a host or None, parts : what colons separate]
  MaxEdits,   \* bound on changes of owner references
  MaxFaults,  \* bound on failing calls
  None

Lookups == {"GetPodOwner", "GetPodDeploymentName"}

ASSUME NamesAssumption ==
  /\ Self \notin Names /\ None \notin Names \cup {Self} /\ IsFiniteSet(Names)
  /\ Kind \in [Names -> STRING] /\ Lists \subseteq Seq(Names) /\ ImageNames # {}

ASSUME BoundsAssumption == MaxEdits \in Nat /\ MaxFaults \in Nat

VARIABLES
  owners,  \* [Names -> the owners of an object, or None if there is no such object]
  pod,     \* the owners of the pod, which do not change
  image,   \* the image reference of the pod
  lookup,  \* which of the Lookups is made
  pc,      \* the read made next, or how the lookup ended
  ref,     \* the object read next
  answer,  \* the name found, or None
  env,     \* registry, repository and version in the environment, or None
  expired, \* has the admission request been given up?
  edits, faults,
  \* History, read by properties only:
  edges,   \* every pair <<object, its first owner>> since the lookup began
  tops,    \* every object that was without owners
  visited, \* the objects read
  again    \* was one of them read twice?

cluster == <<owners, pod, image, lookup>>
process == <<pc, ref, answer, env>>
history == <<edges, tops, visited, again>>
vars == <<cluster, process, expired, edits, faults, history>>

FirstOwners(o) == {<<n, o[n][1]>> : n \in {m \in Names : o[m] \notin {None, <<>>}}}

Tops(o) == {n \in Names : o[n] = <<>>}

-----------------------------------------------------------------------------
(* Reads                                                                   *)

\* The object ref is read and exists, whatever the request's deadline says.
GetCached(at) ==
  /\ pc = at
  /\ owners[ref] # None
  /\ visited' = visited \cup {ref} /\ again' = (again \/ ref \in visited)
  /\ UNCHANGED <<cluster, expired, edits, faults, edges, tops>>

\* A live read looks at the request's context.
Get(at) == ~expired /\ GetCached(at)

\* It does not exist, or the request's context is done.
GetFails(at) ==
  /\ pc = at
  /\ expired \/ owners[ref] = None
  /\ UNCHANGED <<cluster, expired, edits, faults, history>>

GoTo(at, name) == pc' = at /\ ref' = name /\ UNCHANGED <<answer, env>>

Found(name) == pc' = "done" /\ ref' = None /\ answer' = name /\ UNCHANGED env

\* Mutant: what was known so far is returned with the error.
FailInPlace == pc' = "failed" /\ UNCHANGED <<ref, answer, env>>

Fail == pc' = "failed" /\ ref' = None /\ answer' = None /\ UNCHANGED env

-----------------------------------------------------------------------------
(* GetPodOwner: only the first owner counts                                *)

GetPodOwner ==
  /\ lookup = "GetPodOwner" /\ pc = "pod"
  /\ IF pod = <<>> THEN Found(Self)
     ELSE GoTo(IF Kind[pod[1]] = "ReplicaSet" THEN "replicaSet" ELSE "root", pod[1])
  /\ UNCHANGED <<cluster, expired, edits, faults, history>>

\* ReplicaSets come from the cache, which need not look at the deadline. A Deployment
\* is named without being read; no other owner is accepted.
GetReplicaSet ==
  \/ /\ GetCached("replicaSet")
     /\ LET owner == owners[ref] IN
          IF owner # <<>> /\ Kind[owner[1]] = "Deployment" THEN Found(owner[1]) ELSE Fail
  \/ GetFails("replicaSet") /\ Fail

\* Mutant: no read looks at the request's deadline.
FindRootOwnerForEver ==
  /\ GetCached("root")
  /\ IF owners[ref] = <<>> THEN Found(ref) ELSE GoTo("root", owners[ref][1])

\* Mutant: the same object is looked up again.
FindRootOwnerInPlace ==
  \/ Get("root") /\ IF owners[ref] = <<>> THEN Found(ref) ELSE GoTo("root", ref)
  \/ GetFails("root") /\ Fail

\* Mutant: the last owner counts.
FindLastOwner ==
  \/ Get("root") /\ IF owners[ref] = <<>> THEN Found(ref) ELSE GoTo("root", Last(owners[ref]))
  \/ GetFails("root") /\ Fail

\* The first read of GetPodOwner, and each recursion of findRootOwner.
FindRootOwner ==
  \/ Get("root") /\ IF owners[ref] = <<>> THEN Found(ref) ELSE GoTo("root", owners[ref][1])
  \/ GetFails("root") /\ Fail

\* The API server gives the admission request up (external).
Expire ==
  /\ lookup = "GetPodOwner" /\ pc \notin {"done", "failed"} /\ ~expired
  /\ expired' = TRUE
  /\ UNCHANGED <<cluster, process, edits, faults, history>>

-----------------------------------------------------------------------------
(* main: any owner of the kind wanted counts                               *)

\* The first owner of that kind, if there is one.
FirstOfKind(list, kind) ==
  {list[i] : i \in {j \in DOMAIN list :
                     Kind[list[j]] = kind /\ \A k \in 1 .. j - 1 : Kind[list[k]] # kind}}

\* Mutant: the first owner must be the ReplicaSet.
GetDeploymentOfFirstOwner ==
  /\ lookup = "GetPodDeploymentName" /\ pc = "pod"
  /\ IF pod # <<>> /\ Kind[pod[1]] = "ReplicaSet" THEN GoTo("ownReplicaSet", pod[1]) ELSE Fail
  /\ UNCHANGED <<cluster, expired, edits, faults, history>>

GetPodDeploymentName ==
  /\ lookup = "GetPodDeploymentName" /\ pc = "pod"
  /\ \/ \E n \in FirstOfKind(pod, "ReplicaSet") : GoTo("ownReplicaSet", n)
     \/ FirstOfKind(pod, "ReplicaSet") = {} /\ Fail
  /\ UNCHANGED <<cluster, expired, edits, faults, history>>

GetOwnReplicaSet ==
  \/ /\ Get("ownReplicaSet")
     /\ \/ \E n \in FirstOfKind(owners[ref], "Deployment") :
             pc' = "image" /\ ref' = None /\ answer' = n /\ UNCHANGED env
        \/ FirstOfKind(owners[ref], "Deployment") = {} /\ Fail
  \/ GetFails("ownReplicaSet") /\ Fail

\* What stands before the first slash is the registry; an image without one is
\* refused.
GetPodImageDetails ==
  /\ pc = "image"
  /\ IF image.registry = None THEN Fail
     ELSE pc' = "account" /\ UNCHANGED <<ref, answer, env>>
  /\ UNCHANGED <<cluster, expired, edits, faults, history>>

\* Of the parts between colons the first is the repository and the second, if any,
\* the version.
ImageDetails ==
  <<image.registry, image.parts[1], IF Len(image.parts) > 1 THEN image.parts[2] ELSE "latest">>

GetPodServiceAccount ==
  /\ pc = "account"
  /\ pc' = "environment" /\ UNCHANGED <<ref, answer, env>>
  /\ UNCHANGED <<cluster, expired, edits, faults, history>>

\* The environment is set for the generators, and the manager starts.
StartManager ==
  /\ pc = "environment"
  /\ env' = ImageDetails
  /\ pc' = "done" /\ UNCHANGED <<ref, answer>>
  /\ UNCHANGED <<cluster, expired, edits, faults, history>>

\* The process has exited; the kubelet restarts its container (external).
RestartContainer ==
  /\ lookup = "GetPodDeploymentName" /\ pc = "failed"
  /\ pc' = "pod" /\ ref' = None /\ answer' = None /\ env' = None
  /\ UNCHANGED <<cluster, expired, edits, faults, history>>

-----------------------------------------------------------------------------
(* The world                                                               *)

CallFails ==
  /\ faults < MaxFaults /\ faults' = faults + 1
  /\ pc \notin {"done", "failed"} /\ ~(lookup = "GetPodOwner" /\ pc = "pod")
  /\ Fail
  /\ UNCHANGED <<cluster, expired, edits, history>>

\* An object is created, deleted, adopted or orphaned (external).
Change ==
  /\ edits < MaxEdits /\ edits' = edits + 1
  /\ \E n \in Names, list \in Lists \cup {None} : owners' = [owners EXCEPT ![n] = list]
  /\ edges' = edges \cup FirstOwners(owners')
  /\ tops' = tops \cup Tops(owners')
  /\ UNCHANGED <<pod, image, lookup, process, expired, faults, visited, again>>

Init ==
  /\ owners \in [Names -> Lists \cup {None}] /\ pod \in Lists
  /\ lookup \in Lookups
  /\ image \in IF lookup = "GetPodOwner" THEN {CHOOSE i \in ImageNames : TRUE} ELSE ImageNames
  /\ pc = "pod" /\ ref = None /\ answer = None /\ env = None
  /\ expired = FALSE /\ edits = 0 /\ faults = 0
  /\ edges = FirstOwners(owners) /\ tops = Tops(owners)
  /\ visited = {} /\ again = FALSE

Step ==
  \/ GetPodOwner \/ GetReplicaSet \/ FindRootOwner
  \/ GetPodDeploymentName \/ GetOwnReplicaSet \/ GetPodImageDetails \/ GetPodServiceAccount
  \/ StartManager

Next == Step \/ Expire \/ RestartContainer \/ CallFails \/ Change

\* The process runs, requests have a deadline, exited containers are restarted.
Fairness == WF_vars(Step) /\ WF_vars(Expire) /\ WF_vars(RestartContainer)

Spec == Init /\ [][Next]_vars /\ Fairness

-----------------------------------------------------------------------------
(* Properties                                                              *)

\* Type correctness; a read in progress has an object to read.
TypeOK ==
  /\ owners \in [Names -> Lists \cup {None}] /\ pod \in Lists
  /\ image \in ImageNames /\ lookup \in Lookups
  /\ pc \in {"pod", "replicaSet", "root", "ownReplicaSet", "image", "account",
             "environment", "done", "failed"}
  /\ IF pc \in {"replicaSet", "root", "ownReplicaSet"} THEN ref \in Names ELSE ref = None
  /\ answer \in Names \cup {Self, None} /\ env \in {None, ImageDetails} /\ expired \in BOOLEAN
  /\ edits \in 0 .. MaxEdits /\ faults \in 0 .. MaxFaults

\* Reached from the pod by way of first owners, at any time since the lookup
\* began: in every set that holds the pod's and with each object its own.
Ancestor(n) ==
  /\ pod # <<>>
  /\ \A S \in SUBSET Names :
       pod[1] \in S /\ (\A e \in edges : e[1] \in S => e[2] \in S) => n \in S

\* Objects each of which has another of them as first owner.
Cyclic ==
  \E S \in SUBSET Names : S # {} /\ \A n \in S : \E e \in edges : e[1] = n /\ e[2] \in S

\* The owner named in metrics is one: first owners lead from the pod to it, and it
\* is a Deployment or had itself no owner; whatever changes during the walk, and
\* although the reads see different versions.
AnswerOwnsPod ==
  lookup = "GetPodOwner" /\ answer \in Names =>
    /\ Ancestor(answer)
    /\ Kind[answer] = "Deployment" \/ answer \in tops

\* Without a cycle of owners no object is read twice, so a lookup takes as many reads
\* as the pod has ancestors; with one, only the deadline ends it.
NoObjectTwice == lookup = "GetPodOwner" /\ ~Cyclic => ~again

\* Every lookup for an admission ends, with cycles of owners too: each read is made
\* with the request's context.
LookupEnds == lookup = "GetPodOwner" ~> pc \in {"done", "failed"}

\* A process whose pod belongs to a ReplicaSet of a Deployment and whose image names
\* a registry starts at last, whichever owners are listed first and whatever failed
\* before; and from its environment the generators put its own image together again.
\* (Not so when the image has a tag and a digest, of which half is lost.)
Startable ==
  /\ lookup = "GetPodDeploymentName"
  /\ image.registry # None /\ Len(image.parts) <= 2
  /\ \E n \in FirstOfKind(pod, "ReplicaSet") :
       owners[n] # None /\ FirstOfKind(owners[n], "Deployment") # {}

OwnImage ==
  /\ env # None
  /\ image.registry = env[1]
  /\ IF Len(image.parts) = 1 THEN <<env[2], env[3]>> = image.parts \o <<"latest">>
     ELSE <<env[2], env[3]>> = image.parts

Starts == <>[]Startable => <>(pc = "done" /\ OwnImage)

=============================================================================
