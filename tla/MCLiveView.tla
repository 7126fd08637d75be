----------------------------- MODULE MCLiveView -----------------------------
(***************************************************************************)
(* Two assets and the document, in two chunks and in one, or empty.        *)
(***************************************************************************)
EXTENDS LiveView

MCSize == [n \in Name |-> IF n = "a" THEN 2 ELSE IF n = "b" THEN 1 ELSE 0]
=============================================================================
