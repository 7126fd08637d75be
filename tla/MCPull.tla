------------------------------- MODULE MCPull -------------------------------
(* Three assets, the third with the name of the generated manifest and the  *)
(* second listed without a hash; two versions of the package, one that   *)
(* is being filled, and none.                                               *)
EXTENDS Pull

CONSTANTS b1, b2    \* two contents

MCIndex == 1 .. 3
MCBytes == {b1, b2}
MCFirst == [assets |-> <<b1, b2, None>>, doc |-> {1, 2}]
MCSecond == [assets |-> <<b2, b2, b1>>, doc |-> {}]
MCGone == [assets |-> <<None, None, None>>, doc |-> {}]
MCUnfinished == [assets |-> <<b1, None, None>>, doc |-> {}]
MCVersions == {MCFirst, MCSecond, MCUnfinished, MCGone}
MCHashless == {2}
MCFilters == {{}, {1}}
MCCoordinates == {{}}
MCDeclarations == {{}, {1, 2}, {1, 2, 3}}
=============================================================================
