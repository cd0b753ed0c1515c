----------------------------- MODULE MCReconcile -----------------------------
(***************************************************************************)
(* Small instances of Reconcile.  The second version of a file shares no   *)
(* tag with the first: a row that a scan left behind then names tags the   *)
(* item has lost for good.                                                 *)
(***************************************************************************)
EXTENDS Reconcile, TLC

CONSTANTS sd, uhd, en

MCTags == {sd, uhd, en}
MCTagsOf == [v \in 1..MaxVer |-> IF v = 1 THEN {sd, en} ELSE {uhd}]
=============================================================================
