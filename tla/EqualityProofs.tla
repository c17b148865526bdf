--------------------------- MODULE EqualityProofs ---------------------------
(***************************************************************************)
(* The comparisons of Equality decide sameness, for all lists without      *)
(* repetitions and all maps: that an update is skipped means that there is *)
(* nothing to update.                                                      *)
(***************************************************************************)
EXTENDS Equality, FiniteSetTheorems, TLAPS

\* A list without repetitions has as many elements as places.
LEMMA UnrepeatedCount ==
  ASSUME NEW S, NEW n \in Nat, NEW f \in [1 .. n -> S], Unrepeated(f)
  PROVE  IsFiniteSet(Elements(f)) /\ Cardinality(Elements(f)) = n
<1>1. DOMAIN f = 1 .. n
  OBVIOUS
<1>2. f \in [1 .. n -> Elements(f)]
  BY <1>1 DEF Elements
<1>3. f \in Injection(1 .. n, Elements(f))
  BY <1>1, <1>2 DEF Injection, IsInjective, Unrepeated
<1>4. f \in Surjection(1 .. n, Elements(f))
  BY <1>1, <1>2 DEF Surjection, Elements
<1>5. ExistsBijection(1 .. n, Elements(f))
  BY <1>3, <1>4 DEF ExistsBijection, Bijection
<1> QED BY <1>5, FS_NatBijection, FS_CountingElements

\* Any list has at least as many places as elements.
LEMMA PlacesCount ==
  ASSUME NEW S, NEW n \in Nat, NEW f \in [1 .. n -> S]
  PROVE  IsFiniteSet(Elements(f)) /\ Cardinality(Elements(f)) <= n
<1>1. f \in Surjection(1 .. n, Elements(f))
  <2>1. DOMAIN f = 1 .. n /\ f \in [1 .. n -> Elements(f)]
    BY DEF Elements
  <2> QED BY <2>1 DEF Surjection, Elements
<1>2. IsFiniteSet(1 .. n) /\ Cardinality(1 .. n) = n
  BY FS_Interval
<1> QED BY <1>1, <1>2, FS_Surjection

\* Of two finite sets of one size, one cannot have fewer elements than the other:
\* looking in one direction is enough.
LEMMA OneDirection ==
  ASSUME NEW A, NEW B, IsFiniteSet(A), IsFiniteSet(B)
  PROVE  A = B <=> Cardinality(A) = Cardinality(B) /\ A \subseteq B
BY FS_Subset

LEMMA OneDirectionOfLists ==
  ASSUME NEW T, NEW a \in Seq(T), NEW b \in Seq(T), Unrepeated(a), Unrepeated(b)
  PROVE  Elements(a) = Elements(b) <=> Len(a) = Len(b) /\ Elements(a) \subseteq Elements(b)
<1>1. Len(a) \in Nat /\ Len(b) \in Nat /\ a \in [1 .. Len(a) -> T] /\ b \in [1 .. Len(b) -> T]
  OBVIOUS
<1>2. IsFiniteSet(Elements(a)) /\ Cardinality(Elements(a)) = Len(a)
  BY <1>1, UnrepeatedCount
<1>3. IsFiniteSet(Elements(b)) /\ Cardinality(Elements(b)) = Len(b)
  BY <1>1, UnrepeatedCount
<1> QED BY <1>2, <1>3, OneDirection

\* Two maps with the same keys and values are the same.
THEOREM MapsEqualExact ==
  ASSUME NEW A, NEW B, NEW V, IsFiniteSet(A), IsFiniteSet(B),
         NEW a \in [A -> V] \cup {Nil}, NEW b \in [B -> V] \cup {Nil}
  PROVE  mapsEqual(a, b) <=> a = b
<1>1. CASE a = Nil \/ b = Nil
  BY <1>1 DEF mapsEqual
<1>2. CASE a # Nil /\ b # Nil
  <2>1. a = [k \in A |-> a[k]] /\ b = [k \in B |-> b[k]] /\ DOMAIN a = A /\ DOMAIN b = B
    BY <1>2
  <2>2. ASSUME mapsEqual(a, b) PROVE a = b
    <3>1. Cardinality(A) = Cardinality(B) /\ A \subseteq B /\ \A k \in A : a[k] = b[k]
      BY <1>2, <2>1, <2>2 DEF mapsEqual
    <3>2. A = B
      BY <3>1, FS_Subset
    <3> QED BY <2>1, <3>1, <3>2
  <2>3. ASSUME a = b PROVE mapsEqual(a, b)
    BY <1>2, <2>3 DEF mapsEqual
  <2> QED BY <2>2, <2>3
<1> QED BY <1>1, <1>2

\* TolerationsEqual, which looks for each live toleration among the wanted ones,
\* finds every difference of keys unless the live list repeats a key; and it finds
\* nothing else when no list does.
THEOREM TolerationsEqualExact ==
  ASSUME NEW T, NEW a \in Seq(T), NEW b \in Seq(T), a # Nil, b # Nil, KeysOnce(b)
  PROVE  /\ TolerationsEqual(a, b) => TolerationsAgree(a, b)
         /\ KeysOnce(a) => (TolerationsEqual(a, b) <=> TolerationsAgree(a, b))
<1> DEFINE f == [i \in DOMAIN a |-> createTolerationKey(a[i])]
           g == [i \in DOMAIN b |-> createTolerationKey(b[i])]
<1>1. /\ DOMAIN a = 1 .. Len(a) /\ DOMAIN b = 1 .. Len(b)
      /\ Len(a) \in Nat /\ Len(b) \in Nat
  OBVIOUS
<1>2. Elements(f) = TolerationKeys(a) /\ Elements(g) = TolerationKeys(b)
  BY DEF Elements, TolerationKeys
<1>3. Unrepeated(g) /\ (KeysOnce(a) => Unrepeated(f))
  BY DEF KeysOnce
<1> DEFINE S == TolerationKeys(a) \cup TolerationKeys(b)
<1>4. f \in [1 .. Len(a) -> S] /\ g \in [1 .. Len(b) -> S]
  BY <1>1 DEF TolerationKeys
<1> HIDE DEF f, g, S
<1>5. IsFiniteSet(Elements(f)) /\ Cardinality(Elements(f)) \in Nat
      /\ Cardinality(Elements(f)) <= Len(a)
  BY <1>1, <1>4, PlacesCount, FS_CardinalityType
<1>6. IsFiniteSet(Elements(g)) /\ Cardinality(Elements(g)) = Len(b)
  BY <1>1, <1>3, <1>4, UnrepeatedCount
<1>7. ASSUME Len(a) = Len(b), Elements(g) \subseteq Elements(f)
      PROVE  Elements(g) = Elements(f)
  <2>1. Cardinality(Elements(g)) <= Cardinality(Elements(f))
    BY <1>5, <1>7, FS_Subset
  <2> QED BY <1>1, <1>5, <1>6, <1>7, <2>1, OneDirection
<1>8. ASSUME KeysOnce(a), Elements(g) = Elements(f)
      PROVE  Len(a) = Len(b)
  BY <1>1, <1>3, <1>4, <1>6, <1>8, UnrepeatedCount
<1> QED BY <1>2, <1>7, <1>8 DEF TolerationsEqual, TolerationsAgree

\* slicesEqual finds whether two lists without repetitions have the same elements.
THEOREM SlicesEqualExact ==
  ASSUME NEW T, NEW a \in Seq(T), NEW b \in Seq(T), Unrepeated(a), Unrepeated(b)
  PROVE  slicesEqual(a, b) <=> ListsAgree(a, b)
<1>1. Elements(a) = Elements(b) <=> Len(a) = Len(b) /\ Elements(a) \subseteq Elements(b)
  BY OneDirectionOfLists
<1> QED BY <1>1 DEF slicesEqual, ListsAgree

-----------------------------------------------------------------------------
(* Lists of entries with names                                             *)

\* With no name twice, the last entry with an entry's name is that entry.
LEMMA NamedOnce ==
  ASSUME NEW T, NEW l \in Seq(T), NamesOnce(l), NEW i \in DOMAIN l
  PROVE  LastNamed(l, l[i].name) = i
<1>1. \A j \in DOMAIN l : l[j].name = l[i].name => j = i
  BY DEF NamesOnce, Unrepeated
<1>2. DOMAIN l = 1 .. Len(l)
  OBVIOUS
<1>3. i <= i
  BY <1>2
<1> QED BY <1>1, <1>3 DEF LastNamed

\* Comparing by name, in one direction, is comparing the sets of entries.
LEMMA ByName ==
  ASSUME NEW T, NEW a \in Seq(T), NEW b \in Seq(T), NamesOnce(a), NamesOnce(b)
  PROVE  ListsAgree(a, b) <=>
           /\ Len(a) = Len(b)
           /\ \A n \in Names(a) : n \in Names(b) /\ a[LastNamed(a, n)] = b[LastNamed(b, n)]
<1>1. Unrepeated(a) /\ Unrepeated(b)
  BY DEF NamesOnce, Unrepeated
<1>2. Elements(a) = Elements(b) <=> Len(a) = Len(b) /\ Elements(a) \subseteq Elements(b)
  BY <1>1, OneDirectionOfLists
<1>3. ASSUME Elements(a) \subseteq Elements(b), NEW n \in Names(a)
      PROVE  n \in Names(b) /\ a[LastNamed(a, n)] = b[LastNamed(b, n)]
  <2>1. PICK i \in DOMAIN a : a[i].name = n
    BY <1>3 DEF Names
  <2>2. PICK j \in DOMAIN b : b[j] = a[i]
    BY <1>3 DEF Elements
  <2>3. LastNamed(a, n) = i
    BY <2>1, NamedOnce
  <2>4. LastNamed(b, n) = j
    BY <2>1, <2>2, NamedOnce
  <2> QED BY <2>1, <2>2, <2>3, <2>4 DEF Names
<1>4. ASSUME \A n \in Names(a) : n \in Names(b) /\ a[LastNamed(a, n)] = b[LastNamed(b, n)]
      PROVE  Elements(a) \subseteq Elements(b)
  <2>1. SUFFICES ASSUME NEW i \in DOMAIN a PROVE a[i] \in Elements(b)
    BY DEF Elements
  <2>2. a[i].name \in Names(a)
    BY DEF Names
  <2>3. PICK j \in DOMAIN b : b[j].name = a[i].name
    BY <1>4, <2>2 DEF Names
  <2>4. LastNamed(a, a[i].name) = i /\ LastNamed(b, b[j].name) = j
    BY NamedOnce
  <2>5. a[i] = b[j]
    BY <1>4, <2>2, <2>3, <2>4
  <2> QED BY <2>5 DEF Elements
<1> QED BY <1>2, <1>3, <1>4 DEF ListsAgree

\* The entry a name stands for has that name.
LEMMA NameOfLast ==
  ASSUME NEW T, NEW l \in Seq(T), NamesOnce(l), NEW n \in Names(l)
  PROVE  l[LastNamed(l, n)] \in T /\ l[LastNamed(l, n)].name = n
<1>1. PICK i \in DOMAIN l : l[i].name = n
  BY DEF Names
<1>2. LastNamed(l, n) = i
  BY <1>1, NamedOnce
<1> QED BY <1>1, <1>2

\* envVarsEqual finds whether two lists of variables, each name once, are the same.
THEOREM EnvVarsEqualExact ==
  ASSUME NEW N, NEW V, NEW a \in Seq([name : N, value : V]), NEW b \in Seq([name : N, value : V]),
         NamesOnce(a), NamesOnce(b)
  PROVE  envVarsEqual(a, b) <=> ListsAgree(a, b)
<1>0. ASSUME NEW n \in Names(b)
      PROVE  b[LastNamed(b, n)] \in [name : N, value : V] /\ b[LastNamed(b, n)].name = n
  BY NameOfLast
<1>1. ASSUME NEW n \in Names(a), n \in Names(b)
      PROVE  a[LastNamed(a, n)].value = b[LastNamed(b, n)].value
               <=> a[LastNamed(a, n)] = b[LastNamed(b, n)]
  <2> DEFINE p == a[LastNamed(a, n)]
             q == b[LastNamed(b, n)]
  <2>1. p \in [name : N, value : V] /\ p.name = n
    BY NameOfLast
  <2>2. q \in [name : N, value : V] /\ q.name = n
    BY <1>0, <1>1
  <2> HIDE DEF p, q
  <2>3. p.value = q.value <=> p = q
    BY <2>1, <2>2
  <2> QED BY <2>3 DEF p, q
<1>2. ListsAgree(a, b) <=>
        /\ Len(a) = Len(b)
        /\ \A n \in Names(a) : n \in Names(b) /\ a[LastNamed(a, n)] = b[LastNamed(b, n)]
  BY ByName
<1> QED BY <1>1, <1>2 DEF envVarsEqual

\* portsEqual finds whether two lists of ports, each name once, are the same.
THEOREM PortsEqualExact ==
  ASSUME NEW N, NEW V, NEW P, P = [name : N, port : V, target : V, protocol : V],
         NEW a \in Seq(P), NEW b \in Seq(P), NamesOnce(a), NamesOnce(b)
  PROVE  portsEqual(a, b) <=> ListsAgree(a, b)
<1> DEFINE SamePort(p, q) == p.port = q.port /\ p.target = q.target /\ p.protocol = q.protocol
<1>0. ASSUME NEW n \in Names(b)
      PROVE  b[LastNamed(b, n)] \in P /\ b[LastNamed(b, n)].name = n
  BY NameOfLast
<1>1. ASSUME NEW n \in Names(a), n \in Names(b)
      PROVE  SamePort(a[LastNamed(a, n)], b[LastNamed(b, n)])
               <=> a[LastNamed(a, n)] = b[LastNamed(b, n)]
  <2> DEFINE p == a[LastNamed(a, n)]
             q == b[LastNamed(b, n)]
  <2>1. p \in P /\ p.name = n
    BY NameOfLast
  <2>2. q \in P /\ q.name = n
    BY <1>0, <1>1
  <2> HIDE DEF p, q
  <2>3. SamePort(p, q) <=> p = q
    BY <2>1, <2>2
  <2> QED BY <2>3 DEF p, q
<1>2. ListsAgree(a, b) <=>
        /\ Len(a) = Len(b)
        /\ \A n \in Names(a) : n \in Names(b) /\ a[LastNamed(a, n)] = b[LastNamed(b, n)]
  BY ByName
<1> QED BY <1>1, <1>2 DEF portsEqual
=============================================================================
