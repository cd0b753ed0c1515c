------------------------------ MODULE MCArrSync ------------------------------
(***************************************************************************)
(* Small instances of ArrSync: two items of one kind and two objects.      *)
(***************************************************************************)
EXTENDS ArrSync, TLC

CONSTANTS i1, i2, o1, o2, hd, uhd, sd, bad

MCItems == {i1, i2}
MCObjs == {o1, o2}
MCTags == {hd, uhd, sd, bad}
MCTagsOf == i1 :> [v \in 1..MaxVer |-> IF v = 1 THEN {sd} ELSE {hd}] @@ i2 :> [v \in 1..MaxVer |-> {uhd, bad}]

TwoInstances == o1 :> "main" @@ o2 :> "uhd"

RefusesBad == [n \in {"main", "uhd"} |-> IF n = "uhd" THEN {bad} ELSE {}]

\* The HD and the 4K copy of one title; two items in one folder.
Copies == [ids |-> o1 :> {i1, i2} @@ o2 :> {i1, i2}, home |-> o1 :> {i1} @@ o2 :> {i2}]
Shared == [ids |-> o1 :> {i1, i2} @@ o2 :> {}, home |-> o1 :> {i1, i2} @@ o2 :> {}]

MCLibraries == {Copies, Shared}
=============================================================================
