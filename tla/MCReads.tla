------------------------------- MODULE MCReads -------------------------------
(***************************************************************************)
(* The reading commands over a registry of one domain with three           *)
(* repositories and in one of them a package with a version.               *)
(***************************************************************************)
EXTENDS ReadCommand

MCEntry == {
  <<"d">>,
  <<"d", "r">>, <<"d", "s">>, <<"d", "t">>,
  <<"d", "r", "p">>,
  <<"d", "r", "p", "v">> }

MCContainer == <<"d">>

\* One reference of the chain is no repository.
MCMalformed == {<<"d", "t">>}

MCTargets == {<<>>, <<"d">>, <<"d", "r", "p">>}

MCDepths == {2, 4}

S(other, sum, readable, pub, pubsum, rec, origin) ==
  [other |-> other, sum |-> sum, readable |-> readable, pub |-> pub,
   pubsum |-> pubsum, rec |-> rec, origin |-> origin]

\* Not there at all, on one side only, the same, changed in place; a source
\* without a checksum that is as recorded, replaced since, or of an origin
\* that tells nothing, or published as it is though something else is recorded;
\* one that cannot be read.  Then: an origin that is not that of the recorded
\* bytes; no hash on any side, on the left one and in the document, or of what
\* is published only.
MCSituations == {
  S("none", FALSE, FALSE, "none", FALSE, "none", "none"),
  S("x", TRUE, TRUE, "none", FALSE, "none", "none"),
  S("none", FALSE, TRUE, "x", TRUE, "x", "none"),
  S("x", TRUE, TRUE, "x", TRUE, "x", "none"),
  S("y", TRUE, TRUE, "x", TRUE, "x", "none"),
  S("y", TRUE, TRUE, "x", TRUE, "y", "none"),
  S("x", FALSE, TRUE, "x", TRUE, "x", "x"),
  S("y", FALSE, TRUE, "x", TRUE, "x", "x"),
  S("y", FALSE, TRUE, "x", TRUE, "x", "blank"),
  S("x", FALSE, TRUE, "y", TRUE, "x", "x"),
  S("x", FALSE, TRUE, "x", TRUE, "y", "none"),
  S("x", FALSE, FALSE, "x", TRUE, "none", "none"),
  S("y", FALSE, TRUE, "x", TRUE, "x", "y"),
  S("y", FALSE, TRUE, "x", FALSE, "", "none"),
  S("x", FALSE, TRUE, "x", TRUE, "", "none"),
  S("x", TRUE, TRUE, "x", FALSE, "x", "none") }
=============================================================================
