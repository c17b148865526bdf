------------------------------ MODULE Equality ------------------------------
(***************************************************************************)
(* The comparisons with which the controllers decide whether a live object *)
(* still is what they would generate: TolerationsEqual of comparison.go,   *)
(* and envVarsEqual, mapsEqual, portsEqual and slicesEqual, of which       *)
(* several files have copies.  A Go slice is a sequence, a map a function; *)
(* either may be Nil.  In every call the first argument is the generated   *)
(* one and the second the live one.                                        *)
(***************************************************************************)
EXTENDS Integers, Sequences, FiniteSets

CONSTANT Nil

Elements(list) == {list[i] : i \in DOMAIN list}

\* What a loop over the list leaves in a map by name: the last entry counts.
LastNamed(list, name) ==
  CHOOSE i \in DOMAIN list :
    list[i].name = name /\ \A j \in DOMAIN list : list[j].name = name => j <= i

Names(list) == {list[i].name : i \in DOMAIN list}

\* createTolerationKey joins its parts with dashes, which the parts may contain
\* themselves: a part is the sequence of its words between dashes. Of the
\* seconds only their presence counts.
createTolerationKey(t) ==
  t.key \o t.operator \o t.value \o t.effect \o
    (IF t.seconds = Nil THEN <<"seconds", "nil">> ELSE <<"seconds", "not", "nil">>)

TolerationKeys(list) == {createTolerationKey(list[i]) : i \in DOMAIN list}

\* Mutant: the lists need only be equally long.
TolerationsCounted(a, b) == IF a = Nil \/ b = Nil THEN a = b ELSE Len(a) = Len(b)

\* Every toleration of b has a counterpart in a.
TolerationsEqual(a, b) ==
  IF a = Nil \/ b = Nil THEN a = b
  ELSE Len(a) = Len(b) /\ TolerationKeys(b) \subseteq TolerationKeys(a)

\* Of an environment variable name and value count, not where a value comes from.
envVarsEqual(a, b) ==
  /\ Len(a) = Len(b)
  /\ \A n \in Names(a) :
       n \in Names(b) /\ a[LastNamed(a, n)].value = b[LastNamed(b, n)].value

mapsEqual(a, b) ==
  IF a = Nil \/ b = Nil THEN a = b
  ELSE /\ Cardinality(DOMAIN a) = Cardinality(DOMAIN b)
       /\ \A k \in DOMAIN a : k \in DOMAIN b /\ a[k] = b[k]

portsEqual(a, b) ==
  /\ Len(a) = Len(b)
  /\ \A n \in Names(a) :
       /\ n \in Names(b)
       /\ LET p == a[LastNamed(a, n)] q == b[LastNamed(b, n)] IN
            p.port = q.port /\ p.target = q.target /\ p.protocol = q.protocol

slicesEqual(a, b) == Len(a) = Len(b) /\ Elements(a) \subseteq Elements(b)

-----------------------------------------------------------------------------
(* What the comparisons are for                                            *)

\* Nothing occurs twice: an element, a name, a toleration's key.
Unrepeated(f) == \A i, j \in DOMAIN f : f[i] = f[j] => i = j

NamesOnce(list) == Unrepeated([i \in DOMAIN list |-> list[i].name])

KeysOnce(list) == Unrepeated([i \in DOMAIN list |-> createTolerationKey(list[i])])

\* The same tolerations up to the value of their seconds, in any order.
TolerationsAgree(a, b) == TolerationKeys(a) = TolerationKeys(b)

\* The same entries in any order.
ListsAgree(a, b) == Elements(a) = Elements(b)
=============================================================================
