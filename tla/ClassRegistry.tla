--------------------------- MODULE ClassRegistry ---------------------------
(***************************************************************************)
(* What the validation of OvercommitClasses promises to those who read     *)
(* them, said of the revisions of the store alone: without requests,       *)
(* reviews or caches.  ClassAdmission implements it.                       *)
(***************************************************************************)
EXTENDS Integers, Sequences

CONSTANTS
  Names,    \* names of classes
  Valid,    \* the valid classes
  Defaults, \* the classes that are the default
  MaxLag,   \* how many revisions the validator's cache may lag behind
  NoClass

VARIABLE history \* the revisions of the store, oldest first

Latest == history[Len(history)]

DefaultFree(i) == \A n \in Names : history[i][n] \notin Defaults

\* Has class n been what it is now since revision b?
Since(n, b) == \A i \in b .. Len(history) : history[i][n] = Latest[n]

\* A class may become the default if some revision had no default which a cache
\* could show at a time when the class was already what it is now.
MayBecomeDefault(n) ==
  \E b, i \in 1 .. Len(history) : Since(n, b) /\ i >= b - MaxLag /\ DefaultFree(i)

\* One class at a time is written, a valid one.
Write(n) ==
  \E c \in Valid :
    /\ c \in Defaults /\ Latest[n] \notin Defaults => MayBecomeDefault(n)
    /\ history' = Append(history, [Latest EXCEPT ![n] = c])

Delete(n) ==
  /\ Latest[n] # NoClass
  /\ history' = Append(history, [Latest EXCEPT ![n] = NoClass])

Init == history = << [n \in Names |-> NoClass] >>

Next == \E n \in Names : Write(n) \/ Delete(n)

Spec == Init /\ [][Next]_history
=============================================================================
