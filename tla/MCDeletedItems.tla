--------------------------- MODULE MCDeletedItems ---------------------------
EXTENDS DeletedItems, TLC

CONSTANTS A, B, C, Season, nowhere, o1, o2, o3

\* Items 0 to 3 have rows, 1 to 3 are in the library; 4 may come.  0 was
\* replaced by 3, in the same folder; 1 has an object in each of two instances;
\* 2 has two objects in one.
MCItems == 0..4
MCListed == 1..3
FolderOf == (0 :> A) @@ (1 :> B) @@ (2 :> C) @@ (3 :> A) @@ (4 :> B)
MCItemFolders == [i \in MCItems |-> {FolderOf[i]}]
MCRowFolders == [i \in MCItems |-> IF i = 0 THEN <<Season, A>> ELSE <<FolderOf[i]>>]
MCInstOf == o1 :> "main" @@ o2 :> "main" @@ o3 :> "uhd"
MCPaths == {o1 :> A @@ o2 :> B @@ o3 :> B, o1 :> C @@ o2 :> B @@ o3 :> B, o1 :> B @@ o2 :> B @@ o3 :> A}
=============================================================================
