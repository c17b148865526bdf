----------------------- MODULE MCOvercommitController -----------------------
(***************************************************************************)
(* Small instances of OvercommitController.                                *)
(***************************************************************************)
EXTENDS OvercommitController, TLC

T(key, effect, seconds) ==
  [key |-> <<key>>, operator |-> <<"Exists">>, value |-> <<"">>, effect |-> <<effect>>,
   seconds |-> seconds]

ShortNotReady == T("unready", "NoExecute", 30)
LongNotReady == T("unready", "NoExecute", 60)
Gpu == T("gpu", "NoSchedule", Nil)

\* Two lists as long as each other: one repeats a key, so that an edit of it to the
\* other is not seen, while an edit of the other to it is.
TwoLists == {<<ShortNotReady, LongNotReady>>, <<ShortNotReady, Gpu>>}

\* A map that the object keeps and the API server drops from a Deployment, which
\* therefore seems to differ at each reconciliation.
EmptyMap == {<<>>}
=============================================================================
