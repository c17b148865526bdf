------------------------ MODULE ClassAdmissionProofs ------------------------
(***************************************************************************)
(* Proofs about ClassAdmission for every set of names, clients and specs,  *)
(* every lag and every number of writes.                                   *)
(***************************************************************************)
EXTENDS ClassAdmission, TLAPS

\* Would the request make its class the default, which the object it read in h
\* was not?
Acquires(q, h) ==
  IsDefault(q.new) /\ (q.op = "update" => ~IsDefault(h[q.base][q.name]))

\* What a review means: creations found no object and updates found one; an
\* approved object is valid and was not reviewed long before it was submitted,
\* and an approved new default was reviewed at a revision without one.
ReviewSound(q, h) ==
  /\ q.pc # "idle" => (q.op = "create" <=> h[q.base][q.name] = NoClass)
  /\ q.pc = "approved" => ValidClass(q.new) /\ q.reviewed >= q.base - MaxLag
  /\ q.pc = "approved" /\ Acquires(q, h) => \A m \in Names : ~IsDefault(h[q.reviewed][m])

\* A request in progress, as TypeOK has it.
RequestTyped(q, h) ==
  /\ q \in Request \cup {Idle}
  /\ q.pc # "idle" => q.base \in 1 .. Len(h)
  /\ q.pc = "approved" => q.reviewed \in 1 .. Len(h)

ReviewsSound == \A r \in Clients : ReviewSound(requests[r], history)

Inv == TypeOK /\ ReviewsSound /\ StoredClassesValid

\* Every number is a multiple of the grain and a remainder, and only one.
LEMMA Multiples ==
  ASSUME NEW y \in Int
  PROVE  /\ y % Grain \in 0 .. Grain - 1 /\ y - (y % Grain) \in Int
         /\ (y - (y % Grain)) % Grain = 0
<1> USE UnitAssumption
<1> DEFINE k == y \div Grain
<1>1. y % Grain \in 0 .. Grain - 1
  OBVIOUS
<1>2. k \in Int /\ y = Grain * k + (y % Grain)
  OBVIOUS
<1>3. \A i \in Int : (Grain * i) % Grain = 0
  OBVIOUS
<1> HIDE DEF k
<1>4. y - (y % Grain) = Grain * k
  BY <1>1, <1>2
<1>5. (Grain * k) % Grain = 0
  BY <1>2, <1>3
<1>6. (y - (y % Grain)) % Grain = 0
  BY <1>4, <1>5, Zenon
<1> QED BY <1>1, <1>6

LEMMA Remainder ==
  ASSUME NEW m \in Int, m % Grain = 0, NEW d \in 0 .. Grain - 1
  PROVE  (m + d) % Grain = d
<1> USE UnitAssumption
<1>1. m \div Grain \in Int /\ m = Grain * (m \div Grain)
  OBVIOUS
<1>2. \A k \in Int : (Grain * k + d) % Grain = d
  OBVIOUS
<1> QED BY <1>1, <1>2, Zenon

\* checkDecimals accepts exactly the ratios within the tolerance of four decimals:
\* rounding finds the four decimals a ratio is near to, if there are any.
LEMMA RoundingFindsDecimals ==
  ASSUME NEW x \in Int
  PROVE  Near(x, Rounded(x)) <=> \E e \in -Tolerance .. Tolerance : (x + e) % Grain = 0
<1> DEFINE half == Grain \div 2
           y == x + half
<1>1. half \in Int /\ 2 * half <= Grain /\ Grain <= 2 * half + 1
  BY UnitAssumption
<1> HIDE DEF half
<1>2. Rounded(x) = y - (y % Grain)
  BY DEF Rounded, half
<1>3. y \in Int /\ Rounded(x) \in Int /\ Rounded(x) % Grain = 0
  BY <1>1, <1>2, Multiples
<1>4. ASSUME Near(x, Rounded(x))
      PROVE  \E e \in -Tolerance .. Tolerance : (x + e) % Grain = 0
  <2> DEFINE e == Rounded(x) - x
  <2>1. e \in -Tolerance .. Tolerance
    BY <1>3, <1>4, UnitAssumption DEF Near
  <2>2. x + e = Rounded(x)
    BY <1>3
  <2> HIDE DEF e
  <2>3. (x + e) % Grain = 0
    BY <1>3, <2>2, Zenon
  <2> QED BY <2>1, <2>3
<1>5. ASSUME NEW e \in -Tolerance .. Tolerance, (x + e) % Grain = 0
      PROVE  Near(x, Rounded(x))
  <2> DEFINE d == half - e
  <2>1. d \in 0 .. Grain - 1 /\ x + e \in Int /\ y = (x + e) + d
    BY <1>1, UnitAssumption
  <2> HIDE DEF d, y
  <2>2. y % Grain = d
    BY <2>1, <1>5, Remainder
  <2>3. Rounded(x) = x + e
    BY <1>2, <2>1, <2>2
  <2> QED BY <2>3, UnitAssumption DEF Near
<1> QED BY <1>4, <1>5

\* The ratio, decimal and exclusion checks accept exactly the valid classes.
LEMMA ChecksExact ==
  ASSUME NEW c \in ClassSpec
  PROVE  (validateSpecOvercommit(c) /\ checkDecimals(c) /\ checkIsRegexValid(c.excluded))
           <=> ValidClass(c)
<1>1. c.cpu \in Int /\ c.memory \in Int
  BY DEF ClassSpec
<1>2. \A x \in Int : Near(x, Rounded(x)) <=> \E e \in -Tolerance .. Tolerance : (x + e) % Grain = 0
  BY RoundingFindsDecimals
<1> QED
  BY <1>1, <1>2, Zenon DEF ValidClass, ValidRatio, validateSpecOvercommit, checkDecimals, checkIsRegexValid

\* The last revision, and what a write adds to the revisions before it.
LEMMA StoreTyped ==
  ASSUME TypeOK
  PROVE  /\ Len(history) \in Nat \ {0} /\ store \in Store
         /\ \A i \in 1 .. Len(history) : history[i] \in Store
BY DEF TypeOK, store

LEMMA Write ==
  ASSUME TypeOK, NEW s \in Store, history' = Append(history, s)
  PROVE  /\ history' \in Seq(Store) /\ Len(history') = Len(history) + 1
         /\ store' = s
         /\ \A i \in 1 .. Len(history) : history'[i] = history[i]
BY DEF TypeOK, store

LEMMA SubmitPreservesInv ==
  ASSUME Inv, NEW r \in Clients, SubmitCreate(r) \/ SubmitUpdate(r)
  PROVE  Inv'
<1> USE DEF Inv
<1>1. TypeOK /\ Len(history) \in Nat \ {0} /\ store \in Store
  BY StoreTyped
<1>2. PICK op \in {"create", "update"}, n \in Names, c \in Specs :
        Submit(r, op, n, c) /\ (op = "create" <=> store[n] = NoClass)
  BY DEF SubmitCreate, SubmitUpdate
<1> DEFINE q == [pc |-> "submitted", op |-> op, name |-> n, new |-> c,
                 base |-> Len(history), reviewed |-> 0]
<1>3. q \in Request
  BY <1>1, SpecsAssumption DEF Request
<1>4. requests' = [requests EXCEPT ![r] = q] /\ UNCHANGED <<history, seen>>
  BY <1>2 DEF Submit, SubmitCreate, SubmitUpdate
<1>5. requests'[r] = q /\ \A x \in Clients \ {r} : requests'[x] = requests[x]
  BY <1>1, <1>4 DEF TypeOK
<1>6. TypeOK'
  BY <1>1, <1>3, <1>4, <1>5 DEF TypeOK
<1>7. ReviewSound(q, history)
  <2>1. /\ q.pc = "submitted" /\ q.op = op /\ q.name = n /\ q.base = Len(history)
    OBVIOUS
  <2>2. history[Len(history)][n] = NoClass <=> op = "create"
    BY <1>2 DEF store
  <2> QED BY <2>1, <2>2 DEF ReviewSound
<1>8. ReviewsSound'
  BY <1>4, <1>5, <1>7 DEF ReviewsSound
<1>9. StoredClassesValid'
  BY <1>4 DEF StoredClassesValid
<1> QED BY <1>6, <1>8, <1>9

LEMMA ReviewPreservesInv ==
  ASSUME Inv, NEW r \in Clients, Review(r)
  PROVE  Inv'
<1> USE DEF Inv
<1> DEFINE q == requests[r]
<1>1. /\ q.pc = "submitted" /\ q \in Request /\ q.base \in 1 .. Len(history)
      /\ UNCHANGED <<history, seen>>
  BY DEF Review, TypeOK, Idle
<1>2. CASE requests' = [requests EXCEPT ![r] = Idle]
  <2>1. requests'[r] = Idle /\ \A x \in Clients \ {r} : requests'[x] = requests[x]
    BY <1>2 DEF TypeOK
  <2>2. TypeOK'
    BY <1>1, <1>2, <2>1 DEF TypeOK, Idle
  <2>3. ReviewsSound'
    BY <1>1, <2>1 DEF ReviewsSound, ReviewSound, Idle
  <2> QED BY <1>1, <2>2, <2>3 DEF StoredClassesValid
<1>3. CASE Approves(q) /\ requests' = [requests EXCEPT ![r].pc = "approved", ![r].reviewed = seen]
  <2> DEFINE p == [q EXCEPT !.pc = "approved", !.reviewed = seen]
  <2>1. requests'[r] = p /\ \A x \in Clients \ {r} : requests'[x] = requests[x]
    BY <1>3 DEF TypeOK
  <2>3. seen \in 1 .. Len(history) /\ seen \in Nat
    BY StoreTyped DEF TypeOK
  <2>2. /\ p \in Request /\ p.pc = "approved" /\ p.reviewed = seen
        /\ p.op = q.op /\ p.name = q.name /\ p.new = q.new /\ p.base = q.base
    BY <1>1, <2>3 DEF Request
  <2>4. TypeOK'
    <3>1. requests' \in [Clients -> Request \cup {Idle}]
      BY <1>3, <2>1, <2>2 DEF TypeOK
    <3> QED BY <1>1, <2>1, <2>2, <2>3, <3>1 DEF TypeOK
  <2>5. ValidClass(q.new)
    BY <1>1, <1>3, ChecksExact, SpecsAssumption DEF Approves, ValidateCreate, ValidateUpdate, Request
  <2>6. q.op = "create" <=> history[q.base][q.name] = NoClass
    BY <1>1 DEF ReviewsSound, ReviewSound
  <2>7. Acquires(p, history) => \A m \in Names : ~IsDefault(history[seen][m])
    <3>1. SUFFICES ASSUME Acquires(p, history)
                   PROVE  isClassDefault(q.new, history[seen]) /\ q.new.isDefault
      BY DEF isClassDefault
    <3>2. q.new.isDefault
      BY <3>1, <2>2 DEF Acquires, IsDefault
    <3>3. CASE q.op = "create"
      BY <3>2, <3>3, <1>3 DEF Approves, ValidateCreate
    <3>4. CASE q.op = "update"
      <4>1. ~history[q.base][q.name].isDefault
        BY <3>1, <3>4, <2>2, <2>6 DEF Acquires, IsDefault
      <4> QED BY <4>1, <3>2, <3>4, <1>3 DEF Approves, ValidateUpdate
    <3> QED BY <3>3, <3>4, <1>1 DEF Request
  <2>10. seen >= q.base - MaxLag
    BY <1>1, <2>3, BoundsAssumption, StoreTyped DEF Review
  <2>8. ReviewSound(p, history)
    BY <2>2, <2>5, <2>6, <2>7, <2>10 DEF ReviewSound
  <2>9. ReviewsSound'
    BY <1>1, <2>1, <2>8 DEF ReviewsSound
  <2> QED BY <1>1, <2>4, <2>9 DEF StoredClassesValid
<1> QED BY <1>2, <1>3 DEF Review

\* Requests refer to revisions that a write does not touch.
LEMMA WriteKeepsReviews ==
  ASSUME TypeOK, NEW s \in Store, history' = Append(history, s),
         NEW q, RequestTyped(q, history), ReviewSound(q, history)
  PROVE  RequestTyped(q, history') /\ ReviewSound(q, history')
<1>1. /\ Len(history') = Len(history) + 1 /\ Len(history) \in Nat
      /\ \A i \in 1 .. Len(history) : history'[i] = history[i]
  BY Write, StoreTyped
<1>2. RequestTyped(q, history')
  BY <1>1 DEF RequestTyped
<1>3. ReviewSound(q, history')
  BY <1>1 DEF RequestTyped, ReviewSound, Acquires
<1> QED BY <1>2, <1>3

\* A write of a valid store preserves the invariant, whatever request it ends.
LEMMA WritePreservesInv ==
  ASSUME Inv, NEW s \in Store, history' = Append(history, s), UNCHANGED seen,
         \A n \in Names : s[n] # NoClass => ValidClass(s[n]),
         requests' \in [Clients -> Request \cup {Idle}],
         \A r \in Clients : requests'[r] = requests[r] \/ requests'[r] = Idle
  PROVE  Inv'
<1> USE DEF Inv
<1>1. /\ history' \in Seq(Store) /\ Len(history') = Len(history) + 1
      /\ Len(history) \in Nat \ {0} /\ store' = s
      /\ \A i \in 1 .. Len(history) : history'[i] = history[i]
  BY Write, StoreTyped
<1>2. \A r \in Clients : RequestTyped(requests[r], history) /\ ReviewSound(requests[r], history)
  BY DEF TypeOK, RequestTyped, ReviewsSound
<1>3. RequestTyped(Idle, history') /\ ReviewSound(Idle, history')
  BY DEF RequestTyped, ReviewSound, Idle
<1>4. \A r \in Clients : RequestTyped(requests'[r], history') /\ ReviewSound(requests'[r], history')
  <2>1. \A r \in Clients : RequestTyped(requests[r], history') /\ ReviewSound(requests[r], history')
    BY <1>2, WriteKeepsReviews
  <2> QED BY <2>1, <1>3
<1>5. TypeOK'
  BY <1>1, <1>4 DEF TypeOK, RequestTyped
<1>6. ReviewsSound'
  BY <1>4 DEF ReviewsSound
<1>7. StoredClassesValid'
  <2>1. SUFFICES ASSUME NEW i \in 1 .. Len(history'), NEW n \in Names, history'[i][n] # NoClass
                 PROVE  ValidClass(history'[i][n])
    BY DEF StoredClassesValid
  <2>2. CASE i \in 1 .. Len(history)
    BY <1>1, <2>1, <2>2 DEF StoredClassesValid
  <2>3. CASE i = Len(history) + 1
    <3>1. history'[i] = s
      BY <1>1, <2>3 DEF store
    <3> QED BY <3>1, <2>1
  <2> QED BY <1>1, <2>2, <2>3
<1> QED BY <1>5, <1>6, <1>7

\* The store a commit or a deletion writes is a store of valid classes.
LEMMA StoreValid ==
  ASSUME Inv
  PROVE  \A n \in Names : store[n] # NoClass => ValidClass(store[n])
BY StoreTyped DEF Inv, StoredClassesValid, store

LEMMA CommitPreservesInv ==
  ASSUME Inv, NEW r \in Clients, Commit(r)
  PROVE  Inv'
<1> USE DEF Inv
<1> DEFINE q == requests[r]
<1>1. q.pc = "approved" /\ q \in Request /\ store \in Store
  BY StoreTyped DEF Commit, TypeOK, Idle
<1>2. /\ requests' \in [Clients -> Request \cup {Idle}] /\ UNCHANGED seen
      /\ requests'[r] = Idle /\ \A x \in Clients \ {r} : requests'[x] = requests[x]
  BY DEF Commit, TypeOK
<1>3. CASE UNCHANGED history
  <2>1. TypeOK'
    BY <1>2, <1>3 DEF TypeOK, Idle
  <2>2. ReviewsSound'
    BY <1>2, <1>3 DEF ReviewsSound, ReviewSound, Idle
  <2> QED BY <1>3, <2>1, <2>2 DEF StoredClassesValid
<1>4. CASE history' = Append(history, [store EXCEPT ![q.name] = q.new])
  <2> DEFINE s == [store EXCEPT ![q.name] = q.new]
  <2>1. s \in Store
    BY <1>1 DEF Store, Request
  <2>2. ValidClass(q.new)
    BY <1>1 DEF ReviewsSound, ReviewSound
  <2>3. \A n \in Names : s[n] # NoClass => ValidClass(s[n])
    BY <1>1, <2>2, StoreValid DEF Store
  <2> QED BY <1>2, <1>4, <2>1, <2>3, WritePreservesInv
<1> QED BY <1>3, <1>4 DEF Commit

LEMMA DeletePreservesInv ==
  ASSUME Inv, Delete
  PROVE  Inv'
<1> USE DEF Inv
<1>1. store \in Store /\ UNCHANGED <<seen, requests>>
  BY StoreTyped DEF Delete
<1>2. PICK n \in Names : history' = Append(history, [store EXCEPT ![n] = NoClass])
  BY DEF Delete
<1> DEFINE s == [store EXCEPT ![n] = NoClass]
<1>3. s \in Store
  BY <1>1 DEF Store
<1>4. \A m \in Names : s[m] # NoClass => ValidClass(s[m])
  BY <1>1, StoreValid DEF Store
<1> QED BY <1>1, <1>2, <1>3, <1>4, WritePreservesInv DEF TypeOK

LEMMA NextPreservesInv == Inv /\ [Next]_vars => Inv'
<1> SUFFICES ASSUME Inv, [Next]_vars PROVE Inv'
  OBVIOUS
<1>1. CASE UNCHANGED vars
  BY <1>1 DEF vars, Inv, TypeOK, ReviewsSound, StoredClassesValid
<1>2. CASE Observe
  BY <1>2, StoreTyped DEF Observe, Inv, TypeOK, ReviewsSound, StoredClassesValid
<1>3. ASSUME NEW r \in Clients, ClientStep(r) PROVE Inv'
  BY <1>3, SubmitPreservesInv, ReviewPreservesInv, CommitPreservesInv DEF ClientStep
<1> QED BY <1>1, <1>2, <1>3, DeletePreservesInv DEF Next

THEOREM Invariance == Spec => []Inv
<1>1. Init => Inv
  <2> SUFFICES ASSUME Init PROVE Inv
    OBVIOUS
  <2> DEFINE none == [n \in Names |-> NoClass]
  <2>1. none \in Store /\ history = <<none>> /\ Len(history) = 1 /\ history[1] = none
    BY DEF Init, Store
  <2>2. TypeOK
    BY <2>1 DEF Init, TypeOK, Idle
  <2>3. ReviewsSound
    BY DEF Init, ReviewsSound, ReviewSound, Idle
  <2>4. StoredClassesValid
    BY <2>1 DEF StoredClassesValid
  <2> QED BY <2>2, <2>3, <2>4 DEF Inv
<1>2. Inv /\ [Next]_vars => Inv'
  BY NextPreservesInv
<1> QED BY <1>1, <1>2, PTL DEF Spec

\* Whatever requests interleave and conflict, only classes that pass all four
\* checks of the webhook are ever stored.
THEOREM OnlyValidClassesStored == Spec => []StoredClassesValid
BY Invariance, PTL DEF Inv

\* isClassDefault's guarantee: a new default was reviewed at a revision of the
\* store that had no default at all.
THEOREM NewDefaultsUnseen == Spec => NewDefaultUnseen
<1>1. ASSUME Inv, [Next]_vars, NEW n \in Names, IsDefault(store'[n]), ~IsDefault(store[n])
      PROVE  \E r \in Clients :
               /\ requests[r].pc = "approved" /\ requests[r].name = n
               /\ \A m \in Names : ~IsDefault(history[requests[r].reviewed][m])
  <2> USE <1>1 DEF Inv
  <2>1. store \in Store /\ Len(history) \in Nat \ {0}
    BY StoreTyped
  <2>2. history' # history
    BY DEF store
  <2>3. ~Delete
    <3> SUFFICES ASSUME Delete PROVE FALSE
      OBVIOUS
    <3>1. PICK m \in Names : history' = Append(history, [store EXCEPT ![m] = NoClass])
      BY DEF Delete
    <3>2. [store EXCEPT ![m] = NoClass] \in Store
      BY <2>1 DEF Store
    <3>3. store' = [store EXCEPT ![m] = NoClass]
      BY <3>1, <3>2, Write
    <3> QED BY <2>1, <3>3 DEF Store, IsDefault
  <2>4. PICK r \in Clients : Commit(r)
    BY <2>2, <2>3 DEF Next, vars, Observe, ClientStep, SubmitCreate, SubmitUpdate, Review
  <2> DEFINE q == requests[r]
  <2>5. /\ q.pc = "approved" /\ q \in Request /\ q.base \in 1 .. Len(history)
        /\ Unchanged(q) /\ history' = Append(history, [store EXCEPT ![q.name] = q.new])
    BY <2>2, <2>4 DEF Commit, TypeOK, Idle
  <2>6. [store EXCEPT ![q.name] = q.new] \in Store
    BY <2>1, <2>5 DEF Store, Request
  <2>7. store' = [store EXCEPT ![q.name] = q.new]
    BY <2>5, <2>6, Write
  <2>8. q.name = n /\ IsDefault(q.new)
    BY <2>1, <2>5, <2>7 DEF Store, Request
  <2>9. history[q.base][n] = store[n]
    BY <2>1, <2>5, <2>8 DEF Unchanged, store
  <2>10. Acquires(q, history)
    BY <2>8, <2>9 DEF Acquires
  <2> QED BY <2>5, <2>8, <2>10 DEF ReviewsSound, ReviewSound
<1>2. Inv /\ [Next]_vars =>
        [\A n \in Names : IsDefault(store'[n]) /\ ~IsDefault(store[n]) =>
           \E r \in Clients :
             /\ requests[r].pc = "approved" /\ requests[r].name = n
             /\ \A m \in Names : ~IsDefault(history[requests[r].reviewed][m])]_vars
  BY <1>1
<1> QED BY <1>2, Invariance, PTL DEF Spec, NewDefaultUnseen

\* The review of an update never refuses a valid spec of a class that is the
\* default already, whatever the list shows and whether or not it can be read.
THEOREM DefaultsStayEditable == Spec => DefaultsEditable
<1>1. ASSUME Inv, [Next]_vars, NEW r \in Clients,
             requests[r].pc = "submitted", requests[r].op = "update",
             IsDefault(history[requests[r].base][requests[r].name]),
             ValidClass(requests[r].new), requests'[r] # requests[r]
      PROVE  requests'[r].pc = "approved"
  <2> DEFINE q == requests[r]
  <2>1. q \in Request /\ requests \in [Clients -> Request \cup {Idle}]
    BY <1>1 DEF Inv, TypeOK, Idle
  <2>2. Review(r)
    <3>1. \A x \in Clients : SubmitCreate(x) \/ SubmitUpdate(x) => requests[x] = Idle
      BY DEF SubmitCreate, SubmitUpdate
    <3>2. PICK x \in Clients : ClientStep(x)
      BY <1>1 DEF Next, vars, Delete, Observe
    <3>3. x = r
      BY <1>1, <2>1, <3>2 DEF ClientStep, SubmitCreate, SubmitUpdate, Submit, Review, Commit
    <3> QED BY <1>1, <3>1, <3>2, <3>3 DEF ClientStep, Commit, Idle
  <2>3. ValidateUpdate(history[q.base][q.name], q.new, history[seen])
    BY <1>1, <2>1, ChecksExact, SpecsAssumption DEF ValidateUpdate, Request, IsDefault
  <2>4. Approves(q) /\ ~Lists(q)
    BY <1>1, <2>3 DEF Approves, Lists
  <2>5. requests' = [requests EXCEPT ![r].pc = "approved", ![r].reviewed = seen]
    BY <2>2, <2>4 DEF Review
  <2> QED BY <2>1, <2>5 DEF Request
<1>2. Inv /\ [Next]_vars =>
        [\A r \in Clients : LET q == requests[r] IN
           (/\ q.pc = "submitted" /\ q.op = "update"
            /\ IsDefault(history[q.base][q.name]) /\ ValidClass(q.new)
            /\ requests'[r] # q)
           => requests'[r].pc = "approved"]_vars
  BY <1>1
<1> QED BY <1>2, Invariance, PTL DEF Spec, DefaultsEditable

-----------------------------------------------------------------------------
(* The registry                                                            *)

\* The step of a commit, which writes one class.
LEMMA CommitImplementsWrite ==
  ASSUME Inv, NEW r \in Clients, Commit(r), history' # history
  PROVE  \E n \in Names : Registry!Write(n)
<1> USE DEF Inv
<1> DEFINE q == requests[r]
<1>1. /\ store \in Store /\ Len(history) \in Nat \ {0}
      /\ \A i \in 1 .. Len(history) : history[i] \in Store
  BY StoreTyped
<1>2. /\ q.pc = "approved" /\ q \in Request
      /\ q.base \in 1 .. Len(history) /\ q.reviewed \in 1 .. Len(history)
      /\ Unchanged(q) /\ history' = Append(history, [store EXCEPT ![q.name] = q.new])
  BY DEF Commit, TypeOK, Idle
<1>3. q.name \in Names /\ q.new \in {c \in Specs : ValidClass(c)} /\ q.reviewed >= q.base - MaxLag
  BY <1>2 DEF ReviewsSound, ReviewSound, Request
<1>4. history[q.base][q.name] = store[q.name]
  BY <1>1, <1>2 DEF Unchanged, store
<1>5. ASSUME q.new \in {c \in Specs : c.isDefault},
             store[q.name] \notin {c \in Specs : c.isDefault}
      PROVE  Registry!MayBecomeDefault(q.name)
  <2>1. IsDefault(q.new)
    BY <1>5, SpecsAssumption, SentinelAssumption DEF IsDefault
  <2>2. ~IsDefault(store[q.name])
    BY <1>1, <1>3, <1>5 DEF Store, IsDefault
  <2>3. \A m \in Names : ~IsDefault(history[q.reviewed][m])
    BY <1>2, <1>4, <2>1, <2>2 DEF ReviewsSound, ReviewSound, Acquires
  <2>4. Registry!DefaultFree(q.reviewed)
    BY <2>3, SpecsAssumption, SentinelAssumption DEF Registry!DefaultFree, IsDefault
  <2>5. Registry!Since(q.name, q.base)
    BY <1>2, <1>4 DEF Registry!Since, Registry!Latest, Unchanged, store
  <2> QED BY <1>2, <1>3, <2>4, <2>5 DEF Registry!MayBecomeDefault
<1>6. Registry!Write(q.name)
  BY <1>2, <1>3, <1>5 DEF Registry!Write, Registry!Latest, store
<1> QED BY <1>3, <1>6

\* Whatever requests are in flight and however the cache lags, the revisions of the
\* store are those of a registry that keeps its rules.
THEOREM RegistryImplemented == Spec => ImplementsRegistry
<1>1. Init => Registry!Init
  BY DEF Init, Registry!Init
<1>2. ASSUME Inv, [Next]_vars PROVE [Registry!Next]_history
  <2>1. CASE UNCHANGED history
    BY <2>1
  <2>2. ASSUME history' # history, Delete PROVE Registry!Next
    BY <2>2 DEF Delete, Registry!Next, Registry!Delete, Registry!Latest, store
  <2>3. ASSUME history' # history, NEW r \in Clients, ClientStep(r) PROVE Registry!Next
    <3>1. Commit(r)
      BY <2>3 DEF ClientStep, SubmitCreate, SubmitUpdate, Review
    <3> QED BY <1>2, <2>3, <3>1, CommitImplementsWrite DEF Registry!Next
  <2> QED BY <1>2, <2>1, <2>2, <2>3 DEF Next, Observe, vars
<1> QED BY <1>1, <1>2, Invariance, PTL DEF Spec, ImplementsRegistry, Registry!Spec

-----------------------------------------------------------------------------
(* One client, and an informer that has caught up at every review          *)

\* An approved new default meets no other default in the store: since its review
\* the only writes were deletions.
SerialInv ==
  \A r \in Clients : LET q == requests[r] IN
    q.pc = "approved" /\ Acquires(q, history) => \A m \in Names : ~IsDefault(store[m])

\* Serialised and seeing the latest revision, the webhook keeps the default
\* unique; without the second it is not (run ClassTwoDefaults).
THEOREM SerialDefaultUnique ==
  ASSUME MaxLag = 0, NEW c, Clients = {c}
  PROVE  Spec => []AtMostOneDefault
<1> DEFINE SInv == SerialInv /\ AtMostOneDefault
<1>1. Init => SInv
  <2> SUFFICES ASSUME Init PROVE SInv
    OBVIOUS
  <2>1. \A n \in Names : ~IsDefault(store[n])
    BY DEF Init, store, IsDefault
  <2> QED BY <2>1 DEF Init, SerialInv, AtMostOneDefault, Idle
<1>2. ASSUME Inv, SInv, [Next]_vars PROVE SInv'
  <2> USE <1>2 DEF Inv
  <2>1. store \in Store /\ Len(history) \in Nat \ {0} /\ requests = [x \in {c} |-> requests[c]]
    BY StoreTyped DEF TypeOK
  <2>2. CASE UNCHANGED vars
    BY <2>2 DEF vars, SerialInv, AtMostOneDefault, Acquires, store
  <2>3. CASE Observe
    BY <2>3 DEF Observe, SerialInv, AtMostOneDefault, Acquires, store
  <2>4. CASE Delete
    <3>1. PICK m \in Names : history' = Append(history, [store EXCEPT ![m] = NoClass])
      BY <2>4 DEF Delete
    <3>2. [store EXCEPT ![m] = NoClass] \in Store
      BY <2>1 DEF Store
    <3>3. store' = [store EXCEPT ![m] = NoClass] /\ requests' = requests
          /\ \A i \in 1 .. Len(history) : history'[i] = history[i]
      BY <2>4, <3>1, <3>2, Write DEF Delete
    <3>4. \A n \in Names : IsDefault(store'[n]) => IsDefault(store[n])
      BY <2>1, <3>3 DEF Store, IsDefault
    <3>5. \A r \in Clients : requests[r].pc = "approved" /\ Acquires(requests[r], history') =>
                               Acquires(requests[r], history)
      BY <3>3 DEF Acquires, TypeOK
    <3>6. SerialInv'
      BY <3>3, <3>4, <3>5 DEF SerialInv
    <3> QED BY <3>4, <3>6 DEF AtMostOneDefault
  <2>5. CASE SubmitCreate(c) \/ SubmitUpdate(c)
    <3>1. requests'[c].pc = "submitted" /\ UNCHANGED history
      BY <2>5, <2>1 DEF SubmitCreate, SubmitUpdate, Submit
    <3> QED BY <3>1 DEF SerialInv, AtMostOneDefault, store
  <2>6. CASE Review(c)
    <3>1. UNCHANGED history
      BY <2>6 DEF Review
    <3>2. Inv'
      BY NextPreservesInv
    <3>3. requests'[c].pc = "approved" => requests'[c].reviewed = Len(history)
      <4>1. seen = Len(history)
        BY <2>6, <2>1 DEF Review, TypeOK
      <4>2. requests[c] \in Request
        BY <2>6 DEF Review, TypeOK, Idle
      <4>3. CASE requests' = [requests EXCEPT ![c] = Idle]
        <5>1. requests'[c] = Idle
          BY <4>3, <2>1
        <5> QED BY <5>1 DEF Idle
      <4>4. CASE requests' = [requests EXCEPT ![c].pc = "approved", ![c].reviewed = seen]
        <5>1. requests'[c] = [requests[c] EXCEPT !.pc = "approved", !.reviewed = seen]
          BY <4>4, <2>1
        <5> QED BY <5>1, <4>1, <4>2 DEF Request
      <4> QED BY <2>6, <4>3, <4>4 DEF Review
    <3>4. requests'[c].pc = "approved" /\ Acquires(requests'[c], history) =>
            \A m \in Names : ~IsDefault(store[m])
      BY <3>1, <3>2, <3>3 DEF ReviewsSound, ReviewSound, store
    <3>5. SerialInv'
      BY <3>1, <3>4 DEF SerialInv, store
    <3> QED BY <3>1, <3>5 DEF AtMostOneDefault, store
  <2>7. CASE Commit(c)
    <3> DEFINE q == requests[c]
    <3>1. requests'[c] = Idle /\ q.pc = "approved" /\ q \in Request
          /\ q.base \in 1 .. Len(history)
      BY <2>7, <2>1 DEF Commit, TypeOK, Idle
    <3>2. SerialInv'
      BY <3>1 DEF SerialInv, Idle
    <3>3. CASE UNCHANGED history
      BY <3>2, <3>3 DEF AtMostOneDefault, store
    <3>4. CASE Unchanged(q) /\ history' = Append(history, [store EXCEPT ![q.name] = q.new])
      <4>1. [store EXCEPT ![q.name] = q.new] \in Store
        BY <2>1, <3>1 DEF Store, Request
      <4>2. store' = [store EXCEPT ![q.name] = q.new]
        BY <3>4, <4>1, Write
      <4>3. history[q.base][q.name] = store[q.name]
        BY <2>1, <3>1, <3>4 DEF Unchanged, store
      <4>4. IsDefault(q.new) => \A m \in Names \ {q.name} : ~IsDefault(store[m])
        <5>1. CASE IsDefault(store[q.name])
          BY <5>1, <3>1 DEF AtMostOneDefault, Request
        <5>2. CASE ~IsDefault(store[q.name])
          BY <5>2, <3>1, <4>3 DEF SerialInv, Acquires
        <5> QED BY <5>1, <5>2
      <4>5. \A m \in Names : store'[m] = IF m = q.name THEN q.new ELSE store[m]
        BY <4>2, <2>1, <3>1 DEF Store, Request
      <4>6. AtMostOneDefault'
        BY <4>4, <4>5 DEF AtMostOneDefault
      <4> QED BY <3>2, <4>6
    <3> QED BY <2>7, <3>3, <3>4 DEF Commit
  <2> QED BY <2>2, <2>3, <2>4, <2>5, <2>6, <2>7 DEF Next, ClientStep
<1>3. SInv => AtMostOneDefault
  OBVIOUS
<1> QED BY <1>1, <1>2, <1>3, Invariance, PTL DEF Spec
=============================================================================
