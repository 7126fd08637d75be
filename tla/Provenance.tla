----------------------------- MODULE Provenance -----------------------------
(***************************************************************************)
(* The provenance document as a tree: each ca source of a version brings   *)
(* the document of the version it was copied from, with all that one       *)
(* brought.  A publisher writes documents one after the other, over        *)
(* versions that others publish, with any document, and delete meanwhile.  *)
(*                                                                         *)
(* A document maps paths of ca sources to what is recorded there; <<>> is  *)
(* its own record and <<s, t>> that of the version which source t of       *)
(* source s came from.                                                     *)
(***************************************************************************)
EXTENDS Integers, Sequences, FiniteSets

CONSTANTS
  Version,        \* versions of any package and repository
  Source,         \* the ca sources a manifest may have
  MaxDepth,       \* maxUpstreamDepth
  MaxNodes,       \* maxProvenanceBytes, in records
  ForeignDocs,    \* documents that publishers other than this cob may write
  MaxWrites       \* bound on the documents written by cob

ASSUME BoundsAssumption ==
  /\ Version # {}
  /\ MaxDepth \in Nat \ {0} /\ MaxNodes \in Nat \ {0} /\ MaxWrites \in Nat

VARIABLES
  there,     \* the versions that exist
  store,     \* per version its document, or Nothing
  by,        \* what wrote it: "publish", "promote", or "others"
  job,       \* "idle", "origins", "publish" or "promote"
  target,    \* the version being published
  sources,   \* the version each ca source names, or "none"
  seen,      \* what FetchProvenance returned for it
  prov,      \* the document being built
  writes     \* documents written by cob, for the bound and as their names

vars == <<there, store, by, job, target, sources, seen, prov, writes>>

\* Upstream status of a ca origin, "unset" where there is no such origin.
Status == {"unset", "embedded", "no-cob-provenance", "depth-truncated"}

\* What is recorded at one path: which document said it, whether the origins
\* have the fields of their types, which have no type, and their statuses.
Record == [id : Nat, valid : BOOLEAN, untyped : SUBSET Source, status : [Source -> Status]]

IsDoc(d) == DOMAIN d # {}
Nothing == [p \in {} |-> ""]

\* Nothing is recorded but below a record of the source it came from.
WellFormed(d) ==
  /\ DOMAIN d \subseteq Seq(Source)
  /\ IsDoc(d) => <<>> \in DOMAIN d
  /\ \A p \in DOMAIN d : d[p] \in Record /\ (p # <<>> => SubSeq(p, 1, Len(p) - 1) \in DOMAIN d)

\* An upstream is embedded exactly where the status says so.
Marked(d) ==
  \A p \in DOMAIN d, s \in Source : d[p].status[s] = "embedded" <=> Append(p, s) \in DOMAIN d

\* Whatever else they are, the documents of others say what they embed.
ASSUME ForeignAssumption == \A d \in ForeignDocs : IsDoc(d) /\ WellFormed(d) /\ Marked(d)

\* The sources of a document with an upstream document, and that document.
Upstreams(doc) == {s \in Source : <<s>> \in DOMAIN doc}
Upstream(doc, s) ==
  [q \in {Tail(p) : p \in {r \in DOMAIN doc : r # <<>> /\ Head(r) = s}} |-> doc[<<s>> \o q]]

\* The document with another one below it, at one of its sources without.
Embed(doc, s, up) ==
  [p \in DOMAIN doc \cup {<<s>> \o q : q \in DOMAIN up} |->
     IF p \in DOMAIN doc THEN doc[p] ELSE up[Tail(p)]]

\* What is left of the levels below a document when remaining of them may stay.
Kept(doc, remaining) == {p \in DOMAIN doc : Len(p) =< IF remaining > 0 THEN remaining ELSE 0}

\* Mutant of PruneUpstreamProvenance: the status of what is cut stays.
PruneSilently(doc, remaining) == [p \in Kept(doc, remaining) |-> doc[p]]

\* The upstream documents are dropped from remaining levels on, and the
\* origins they were at say so.  The code recurs over the levels.
PruneUpstreamProvenance(doc, remaining) ==
  LET cut(p, s) == Append(p, s) \in DOMAIN doc \ Kept(doc, remaining)
  IN  [p \in Kept(doc, remaining) |->
         [doc[p] EXCEPT !.status =
            [s \in Source |-> IF cut(p, s) THEN "depth-truncated" ELSE @[s]]]]

\* The records that Validate comes to: an origin without a type passes for one
\* that is not recorded, and what is embedded at it is not looked at.
Visited(doc) ==
  {p \in DOMAIN doc : \A i \in 1..Len(p) : p[i] \notin doc[SubSeq(p, 1, i - 1)].untyped}

\* Every origin visited has the fields of its type.
Validate(doc) == \A p \in Visited(doc) : doc[p].valid

Fits(doc) == Cardinality(DOMAIN doc) <= MaxNodes

\* Mutant of Marshals: the document is not measured.
MarshalsAnySize(doc) == Validate(doc)

Marshals(doc) == Validate(doc) /\ Fits(doc)

\* What cob records itself has a type, and its fields.
NewDoc(id) ==
  [p \in {<<>>} |->
     [id |-> id, valid |-> TRUE, untyped |-> {}, status |-> [s \in Source |-> "unset"]]]

\* The variables of a command that does not run.
NoTarget == CHOOSE v \in Version : TRUE
NoSources == [s \in Source |-> "none"]
Unseen == [s \in Source |-> Nothing]

Init ==
  /\ there = {}
  /\ store = [v \in Version |-> Nothing]
  /\ by = [v \in Version |-> "others"]
  /\ job = "idle" /\ target = NoTarget /\ sources = NoSources /\ seen = Unseen /\ prov = NewDoc(0)
  /\ writes = 0

-----------------------------------------------------------------------------
\* A publish of v, with the uploads done.
BeginPublish(v) ==
  /\ job = "idle" /\ writes < MaxWrites
  /\ v \notin there
  /\ job' = "origins"
  /\ target' = v
  /\ sources' \in [Source -> Version \cup {"none"}]
  /\ prov' = NewDoc(writes + 1)
  /\ writes' = writes + 1
  /\ UNCHANGED <<there, store, by, seen>>

\* A document that is too large is an error, one that is not there is none.
FetchProvenance(v) == {Nothing} \cup (IF Fits(store[v]) THEN {store[v]} ELSE {})

\* Mutant of LevelsBelow: the level that is embedded is counted twice.
LevelsBelowShort == MaxDepth - 2

\* What may stay embedded in the document of a direct source.
LevelsBelow == MaxDepth - 1

\* CASource.Origin: an upstream whose document could not be read, whatever the
\* reason, is taken for one without.
Origin(s) ==
  /\ job = "origins" /\ sources[s] # "none"
  /\ prov[<<>>].status[s] = "unset"
  /\ \E up \in FetchProvenance(sources[s]) :
       LET told == [prov EXCEPT ![<<>>].status[s] =
                      IF IsDoc(up) THEN "embedded" ELSE "no-cob-provenance"]
       IN  /\ seen' = [seen EXCEPT ![s] = up]
           /\ prov' = Embed(told, s, PruneUpstreamProvenance(up, LevelsBelow))
  /\ UNCHANGED <<there, store, by, job, target, sources, writes>>

\* buildPublishProvenance is done with the assets.
Built ==
  /\ job = "origins"
  /\ \A s \in Source : sources[s] # "none" => prov[<<>>].status[s] # "unset"
  /\ job' = "publish"
  /\ UNCHANGED <<there, store, by, target, sources, seen, prov, writes>>

\* promote reads the document of v as it is and writes it, with one more link,
\* for w.  Without one it starts a new one.
BeginPromote(v, w) ==
  /\ job = "idle" /\ writes < MaxWrites
  /\ v \in there /\ w \notin there
  /\ Fits(store[v])
  /\ job' = "promote"
  /\ target' = w
  /\ prov' = IF IsDoc(store[v]) THEN store[v] ELSE NewDoc(0)
  /\ writes' = writes + 1
  /\ UNCHANGED <<there, store, by, sources, seen>>

\* The upload of the finalizer, which may fail.
Upload(doc) ==
  \/ /\ there' = there \cup {target}
     /\ store' = [store EXCEPT ![target] = doc]
     /\ by' = [by EXCEPT ![target] = job]
  \/ UNCHANGED <<there, store, by>>

\* What does not marshal is tried again without upstreams, and then given up.
FinalizeProvenance ==
  /\ job \in {"publish", "promote"}
  /\ LET final == IF Marshals(prov) THEN prov ELSE PruneUpstreamProvenance(prov, 0)
     IN  IF Marshals(final) THEN Upload(final) ELSE UNCHANGED <<there, store, by>>
  /\ job' = "idle" /\ target' = NoTarget /\ sources' = NoSources
  /\ seen' = Unseen /\ prov' = NewDoc(0)
  /\ UNCHANGED writes

\* Others publish, with or without a document, and delete.
OthersPublish(v) ==
  /\ v \notin there
  /\ ~(job # "idle" /\ v = target)
  /\ \E d \in ForeignDocs \cup {Nothing} : store' = [store EXCEPT ![v] = d]
  /\ there' = there \cup {v}
  /\ UNCHANGED <<by, job, target, sources, seen, prov, writes>>

OthersDelete(v) ==
  /\ v \in there
  /\ there' = there \ {v}
  /\ store' = [store EXCEPT ![v] = Nothing]
  /\ by' = [by EXCEPT ![v] = "others"]
  /\ UNCHANGED <<job, target, sources, seen, prov, writes>>

Next ==
  \/ \E v \in Version : BeginPublish(v) \/ OthersPublish(v) \/ OthersDelete(v)
  \/ \E v, w \in Version : BeginPromote(v, w)
  \/ \E s \in Source : Origin(s)
  \/ Built \/ FinalizeProvenance

Spec == Init /\ [][Next]_vars

-----------------------------------------------------------------------------
TypeOK ==
  /\ there \subseteq Version
  /\ \A v \in Version \ there : store[v] = Nothing /\ by[v] = "others"
  /\ by \in [Version -> {"others", "publish", "promote"}]
  /\ job \in {"idle", "origins", "publish", "promote"}
  /\ target \in Version
  /\ sources \in [Source -> Version \cup {"none"}]
  /\ writes \in 0 .. MaxWrites
  /\ DOMAIN store = Version /\ \A v \in Version : WellFormed(store[v])
  /\ DOMAIN seen = Source /\ \A s \in Source : WellFormed(seen[s])
  /\ IsDoc(prov) /\ WellFormed(prov)

\* No version of cob publishes a document that the next one would refuse to
\* read, or with an origin that is malformed at any level that a reader comes
\* to over origins with a type: what others embedded at an origin without one
\* is published as it is, except that a publish, whose own origins all have
\* types, has checked what its sources said.  However deep upstreams nest, a
\* publish embeds MaxDepth levels of them (Marshal, Origin.Validate,
\* FetchProvenance, CASource.Origin).
ReadersAccept ==
  \A v \in Version : by[v] # "others" =>
    /\ Fits(store[v])
    /\ \A p \in Visited(store[v]) : store[v][p].valid
    /\ by[v] = "publish" => \A p \in DOMAIN store[v] :
         /\ Len(p) <= MaxDepth
         /\ Len(p) <= 1 => store[v][p].valid

\* A reader sees at each origin whether the history below it is there: through
\* cuts of cuts, by any sequence of publishes and promotes, an upstream is
\* embedded exactly where its status says so (PruneUpstreamProvenance).
CutIsMarked == \A v \in Version : by[v] # "others" => Marked(store[v])

\* What a publish embeds is what each upstream said when it was read, down to
\* the cap, and is left out only where the whole could not have been written
\* (FinalizeProvenance).
UpstreamIsAsRead ==
  [][\A v \in Version : by'[v] = "publish" /\ store'[v] # store[v] =>
       \A s \in Source :
         LET now == store'[v] IN
         \/ /\ s \in Upstreams(now)
            /\ IsDoc(seen[s])
            /\ DOMAIN Upstream(now, s) = {q \in DOMAIN seen[s] : Len(q) < MaxDepth}
            /\ \A q \in DOMAIN Upstream(now, s) : Upstream(now, s)[q].id = seen[s][q].id
         \/ /\ s \notin Upstreams(now)
            /\ IsDoc(seen[s]) => ~(Fits(prov) /\ Validate(prov))]_vars
=============================================================================
