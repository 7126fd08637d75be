------------------------------ MODULE MCPublish ------------------------------
(* Three sources: the first goes up alone and the other two side by side.  *)
EXTENDS Publish

CONSTANTS b1, b2    \* two contents

MCIndex == 1 .. 3
MCBytes == {b1, b2}
MCOneContent == {b1}
MCPinned == {1, 2}
MCManifests == {{1, 2, 3}, {1, 3}}
=============================================================================
