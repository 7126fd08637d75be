---------------------------- MODULE MCProvenance ----------------------------
(***************************************************************************)
(* Three versions and two ca sources; two levels and five records at most. *)
(***************************************************************************)
EXTENDS Provenance, TLC

Node(id, embedded) ==
  [id |-> id, valid |-> TRUE, untyped |-> {},
   status |-> [s \in Source |-> IF s \in embedded THEN "embedded" ELSE "unset"]]

\* By another tool, or a cob with other limits: deeper than the cap, with a
\* malformed origin of its own or one level down, and too large to be read.
Deep ==
  (<<>> :> Node(11, {"s"})) @@ (<<"s">> :> Node(12, {"s"})) @@ (<<"s", "s">> :> Node(13, {"t"}))
    @@ (<<"s", "s", "t">> :> Node(14, {}))
Bad == (<<>> :> Node(21, {"t"})) @@ (<<"t">> :> [Node(22, {}) EXCEPT !.valid = FALSE])
Large ==
  (<<"s", "s", "t">> :> Node(14, {"s", "t"})) @@ Deep
    @@ (<<"s", "s", "t", "t">> :> Node(15, {})) @@ (<<"s", "s", "t", "s">> :> Node(16, {}))

\* Malformed below an origin without a type, where Validate does not come.
Hidden ==
  (<<>> :> [Node(41, {"s"}) EXCEPT !.untyped = {"s"}])
    @@ (<<"s">> :> [Node(42, {}) EXCEPT !.valid = FALSE])

BadRoot == (<<>> :> [Node(31, {}) EXCEPT !.valid = FALSE])

MCForeignDocs == {Deep, Bad, BadRoot, Hidden, Large}
=============================================================================
