------------------------- MODULE MCVendoredLibrary --------------------------
(***************************************************************************)
(* Two libraries and four versions, of which the third has lost the        *)
(* library of the user's platform and the last is a prerelease.            *)
(***************************************************************************)
EXTENDS VendoredLibrary

ModelAssets == <<"darwin", "linux">>
ModelCreated == <<"d", "c", "b", "a">>
ModelShipped ==
    [v \in {"a", "b", "c", "d"} |-> IF v = "c" THEN {"darwin"} ELSE {"darwin", "linux"}]
ModelSameSize == {{"a", "b"}}
=============================================================================
