--------------------------- MODULE ClassAdmission ---------------------------
(***************************************************************************)
(* Admission of OvercommitClasses: requests to create, update and delete   *)
(* classes pass the validating webhook (overcommitclass_webhook.go), which *)
(* lists the existing classes from an informer cache that lags behind the  *)
(* API server, and are committed in a later step.                          *)
(*                                                                         *)
(* The store is the sequence of its revisions; the cache is the revision   *)
(* the informer has reached.                                               *)
(***************************************************************************)
EXTENDS Integers, Sequences, FiniteSets

CONSTANTS
  Names,       \* names of classes
  Clients,     \* requests that may be in flight at once
  Specs,       \* specs that clients submit; the CRD schema bounds the ratios
  Unit,        \* ratio 1.0, in steps finer than the webhook's tolerance
  Grain,       \* the fourth decimal, 1/10000 of Unit
  Tolerance,   \* 1e-9: how far a float64 may be from four decimals
  MaxRegexLen, \* 512
  MaxLag,      \* how many revisions the informer may lag behind at a review
  MaxRevision, \* bound on the writes to the store
  ListErrors,  \* may listing the classes fail?
  NoClass

\* A regular expression is its length and whether regexp.Compile accepts it.
Regex == [len : Nat, compiles : BOOLEAN]

ClassSpec == [cpu : Int, memory : Int, isDefault : BOOLEAN, excluded : Regex]

ASSUME UnitAssumption ==
  Unit \in Nat \ {0} /\ Grain \in Nat \ {0} /\ Tolerance \in Nat /\ 2 * Tolerance < Grain

ASSUME BoundsAssumption == MaxLag \in Nat /\ MaxRevision \in Nat

ASSUME SpecsAssumption == Specs \subseteq ClassSpec

ASSUME SentinelAssumption == NoClass \notin ClassSpec

VARIABLES
  history,   \* the revisions of the store, oldest first
  seen,      \* the revision the validator's informer has reached
  requests   \* [Clients -> request in flight]

vars == <<history, seen, requests>>

Store == [Names -> Specs \cup {NoClass}]

store == history[Len(history)]

IsDefault(c) == c # NoClass /\ c.isDefault

Idle == [pc |-> "idle"]

Request ==
  [pc : {"submitted", "approved"}, op : {"create", "update"}, name : Names,
   new : Specs, base : Nat, reviewed : Nat]

-----------------------------------------------------------------------------
(* webhook_validations.go                                                  *)

\* validateSpecOvercommit: the CPU ratio, then the memory ratio.
validateSpecOvercommit(c) ==
  /\ c.cpu > 0 /\ c.cpu <= Unit
  /\ c.memory > 0 /\ c.memory <= Unit

\* math.Round(x*10000) / 10000 of a positive ratio; Truncated is a mutant's.
Rounded(x) == LET y == x + Grain \div 2 IN y - (y % Grain)

Truncated(x) == x - (x % Grain)

Near(x, y) == x - y <= Tolerance /\ y - x <= Tolerance

\* Mutants: the CPU ratio is not checked; ratios are truncated, not rounded, so
\* that a float64 just below its decimal is refused.
checkMemoryDecimals(c) == Near(c.memory, Rounded(c.memory))

checkTruncated(c) ==
  Near(c.cpu, Truncated(c.cpu)) /\ Near(c.memory, Truncated(c.memory))

checkDecimals(c) == Near(c.cpu, Rounded(c.cpu)) /\ Near(c.memory, Rounded(c.memory))

\* isClassDefault: the class wants to be the default and the list has a default,
\* under whatever name.
isClassDefault(c, list) == c.isDefault => \A n \in Names : ~IsDefault(list[n])

checkIsRegexValid(regex) == regex.len <= MaxRegexLen /\ regex.compiles

ValidateCreate(c, list) ==
  /\ isClassDefault(c, list)
  /\ validateSpecOvercommit(c)
  /\ checkDecimals(c)
  /\ checkIsRegexValid(c.excluded)

\* Mutants: an update does not look for other defaults, or always does.
ValidateUpdateAlone(old, c, list) ==
  validateSpecOvercommit(c) /\ checkDecimals(c) /\ checkIsRegexValid(c.excluded)

ValidateUpdateAsCreate(old, c, list) == ValidateCreate(c, list)

\* An update of a class that is the default already is not checked against others.
ValidateUpdate(old, c, list) ==
  /\ ~old.isDefault => isClassDefault(c, list)
  /\ validateSpecOvercommit(c)
  /\ checkDecimals(c)
  /\ checkIsRegexValid(c.excluded)

-----------------------------------------------------------------------------
(* Requests                                                                *)

Submit(r, op, n, c) ==
  requests' = [requests EXCEPT ![r] =
    [pc |-> "submitted", op |-> op, name |-> n, new |-> c,
     base |-> Len(history), reviewed |-> 0]]

\* The API server reads the object a request refers to, and refuses to create an
\* existing class or to update a missing one.
SubmitCreate(r) ==
  /\ requests[r] = Idle /\ Len(history) < MaxRevision
  /\ \E n \in Names, c \in Specs : store[n] = NoClass /\ Submit(r, "create", n, c)
  /\ UNCHANGED <<history, seen>>

SubmitUpdate(r) ==
  /\ requests[r] = Idle /\ Len(history) < MaxRevision
  /\ \E n \in Names, c \in Specs : store[n] # NoClass /\ Submit(r, "update", n, c)
  /\ UNCHANGED <<history, seen>>

\* The webhook lists the classes from its cache and answers. Its answer depends
\* on nothing it reads later, so the review is one step.
Approves(q) ==
  LET list == history[seen] IN
    IF q.op = "create" THEN ValidateCreate(q.new, list)
    ELSE ValidateUpdate(history[q.base][q.name], q.new, list)

\* isClassDefault lists the classes except for an update of a default class.
Lists(q) == q.op = "create" \/ ~IsDefault(history[q.base][q.name])

Review(r) ==
  LET q == requests[r] IN
  /\ q.pc = "submitted"
  /\ Len(history) - seen <= MaxLag
  /\ \/ /\ Approves(q)
        /\ requests' = [requests EXCEPT ![r].pc = "approved", ![r].reviewed = seen]
     \/ /\ ~Approves(q) \/ (ListErrors /\ Lists(q))
        /\ requests' = [requests EXCEPT ![r] = Idle]
  /\ UNCHANGED <<history, seen>>

\* Mutant: the object is written whatever happened since it was read.
Always(q) == TRUE

\* The object is written unless it changed since it was read (a conflict, which
\* ends the request; the client may submit again).
Unchanged(q) ==
  \A i \in q.base .. Len(history) : history[i][q.name] = history[q.base][q.name]

Commit(r) ==
  LET q == requests[r] IN
  /\ q.pc = "approved"
  /\ IF Unchanged(q) /\ Len(history) < MaxRevision
     THEN history' = Append(history, [store EXCEPT ![q.name] = q.new])
     ELSE UNCHANGED history
  /\ requests' = [requests EXCEPT ![r] = Idle]
  /\ UNCHANGED seen

\* ValidateDelete accepts everything, and deletions are not sent to the webhook.
Delete ==
  /\ Len(history) < MaxRevision
  /\ \E n \in Names :
       /\ store[n] # NoClass
       /\ history' = Append(history, [store EXCEPT ![n] = NoClass])
  /\ UNCHANGED <<seen, requests>>

\* The informer receives the next revisions. A restarted validator lists the
\* store first, which only moves it further at once.
Observe ==
  /\ seen < Len(history)
  /\ seen' \in seen + 1 .. Len(history)
  /\ UNCHANGED <<history, requests>>

Init ==
  /\ history = << [n \in Names |-> NoClass] >>
  /\ seen = 1
  /\ requests = [r \in Clients |-> Idle]

ClientStep(r) == SubmitCreate(r) \/ SubmitUpdate(r) \/ Review(r) \/ Commit(r)

Next == Delete \/ Observe \/ \E r \in Clients : ClientStep(r)

Spec == Init /\ [][Next]_vars

-----------------------------------------------------------------------------
(* Properties                                                              *)

\* Type correctness; a request refers to revisions that exist.
TypeOK ==
  /\ history \in Seq(Store) /\ Len(history) >= 1
  /\ seen \in 1 .. Len(history)
  /\ requests \in [Clients -> Request \cup {Idle}]
  /\ \A r \in Clients : LET q == requests[r] IN
       /\ q.pc # "idle" => q.base \in 1 .. Len(history)
       /\ q.pc = "approved" => q.reviewed \in 1 .. Len(history)

\* What a stored class is meant to be, said without the webhook's operators: a
\* ratio is as near to four decimals as a float64 of them is.
ValidRatio(ratio) ==
  ratio > 0 /\ ratio <= Unit /\ \E e \in -Tolerance .. Tolerance : (ratio + e) % Grain = 0

ValidClass(c) ==
  /\ ValidRatio(c.cpu) /\ ValidRatio(c.memory)
  /\ c.excluded.len <= MaxRegexLen /\ c.excluded.compiles

\* Every class that was ever stored has ratios in (0, 1] with at most four
\* decimals and a usable exclusion: no interleaving of reviews, conflicts and
\* commits lets an object in that its review did not see. Pod admission relies
\* on it.
StoredClassesValid ==
  \A i \in 1 .. Len(history), n \in Names :
    history[i][n] # NoClass => ValidClass(history[i][n])

\* A class becomes the default only through a review in which no class was: a
\* default that already exists at the commit must have been invisible to it.
\* This is all that isClassDefault guarantees under concurrency.
NewDefaultUnseen ==
  [][\A n \in Names :
       IsDefault(store'[n]) /\ ~IsDefault(store[n]) =>
         \E r \in Clients :
           /\ requests[r].pc = "approved" /\ requests[r].name = n
           /\ \A m \in Names : ~IsDefault(history[requests[r].reviewed][m])]_vars

\* However two defaults came to be, whatever the cache shows and whether or not it
\* can be listed, the review of an update does not refuse a valid spec of a class
\* that is the default already: both defaults stay editable, so that an operator
\* can end the conflict. Valid is what four decimals are as float64, so a ratio
\* that is a little below its decimal is not refused either.
DefaultsEditable ==
  [][\A r \in Clients : LET q == requests[r] IN
       (/\ q.pc = "submitted" /\ q.op = "update"
        /\ IsDefault(history[q.base][q.name]) /\ ValidClass(q.new)
        /\ requests'[r] # q)
       => requests'[r].pc = "approved"]_vars

\* webhook_validations.go:66, "only one OvercommitClass can be default". It holds
\* for one client and an informer that has caught up at every review.
AtMostOneDefault ==
  \A m, n \in Names : IsDefault(store[m]) /\ IsDefault(store[n]) => m = n

Registry == INSTANCE ClassRegistry WITH
    Valid <- {c \in Specs : ValidClass(c)},
    Defaults <- {c \in Specs : c.isDefault}

\* Requests in flight, reviews from a lagging cache and refused or conflicting
\* commits implement the registry: what readers of the store see follows its rules.
ImplementsRegistry == Registry!Spec
=============================================================================
