-------------------------- MODULE ProvenanceProofs --------------------------
(***************************************************************************)
(* What holds of the documents cob writes, for any versions and sources,   *)
(* any cap on levels and on size, and whatever others publish.             *)
(***************************************************************************)
EXTENDS Provenance, SequenceTheorems, TLAPS

-----------------------------------------------------------------------------
(* Paths                                                                   *)

Paths == Seq(Source)

\* The path q of the document that source s of another one brought.
Below(s, q) == <<s>> \o q

Front(p) == SubSeq(p, 1, Len(p) - 1)

LEMMA BelowIs ==
  ASSUME NEW s \in Source, NEW q \in Paths
  PROVE  /\ Below(s, q) \in Paths /\ Below(s, q) # <<>>
         /\ Len(Below(s, q)) = Len(q) + 1
         /\ Head(Below(s, q)) = s /\ Tail(Below(s, q)) = q
<1> DEFINE p == Below(s, q)
<1>1. <<s>> \in Paths /\ Len(<<s>>) = 1 /\ <<s>>[1] = s
  BY DEF Paths
<1>2. /\ p \in Paths /\ Len(p) = Len(q) + 1 /\ Len(q) \in Nat
      /\ \A i \in 1 .. Len(q) + 1 : p[i] = IF i <= 1 THEN s ELSE q[i - 1]
  BY <1>1, ConcatProperties, LenProperties DEF Paths, Below
<1>3. p # <<>> /\ p[1] = s
  BY <1>2, EmptySeq
<1>4. Head(p) = s
  BY <1>3 DEF Head
<1> HIDE DEF p
<1>5. /\ Tail(p) \in Paths /\ Len(Tail(p)) = Len(q)
      /\ \A i \in 1 .. Len(q) : Tail(p)[i] = q[i]
  <2>1. /\ Tail(p) \in Paths /\ Len(Tail(p)) = Len(p) - 1
        /\ \A i \in 1 .. Len(Tail(p)) : Tail(p)[i] = p[i + 1]
    BY <1>2, <1>3, HeadTailProperties DEF Paths
  <2> QED
    BY <1>2, <2>1
<1>6. Tail(p) = q
  BY <1>5, SeqEqual DEF Paths
<1> QED
  BY <1>2, <1>3, <1>4, <1>6 DEF p

\* Every other path than that of the document itself is below a source.
LEMMA PathIs ==
  ASSUME NEW p \in Paths, p # <<>>
  PROVE  Head(p) \in Source /\ Tail(p) \in Paths /\ p = Below(Head(p), Tail(p))
<1>1. /\ Head(p) \in Source /\ Tail(p) \in Paths /\ Len(p) \in Nat /\ Len(Tail(p)) = Len(p) - 1
      /\ \A i \in 1 .. Len(Tail(p)) : Tail(p)[i] = p[i + 1]
  BY HeadTailProperties, LenProperties DEF Paths
<1> DEFINE r == Below(Head(p), Tail(p))
<1>2. /\ r \in Paths /\ Len(r) = Len(p)
      /\ \A i \in 1 .. Len(p) : r[i] = IF i <= 1 THEN Head(p) ELSE Tail(p)[i - 1]
  <2>1. <<Head(p)>> \in Paths /\ Len(<<Head(p)>>) = 1 /\ <<Head(p)>>[1] = Head(p)
    BY <1>1 DEF Paths
  <2> QED
    BY <1>1, <2>1, ConcatProperties DEF Paths, Below
<1>3. Head(p) = p[1]
  BY DEF Head
<1>4. \A i \in 1 .. Len(p) : r[i] = p[i]
  BY <1>1, <1>2, <1>3
<1>5. r = p
  <2> HIDE DEF r
  <2> QED
    BY <1>2, <1>4, SeqEqual DEF Paths
<1> QED
  BY <1>1, <1>5

LEMMA BelowAppend ==
  ASSUME NEW s \in Source, NEW q \in Paths, NEW t \in Source
  PROVE  Append(Below(s, q), t) = Below(s, Append(q, t)) /\ Append(q, t) \in Paths
<1>1. <<s>> \in Paths /\ <<t>> \in Paths
  BY DEF Paths
<1>2. /\ Append(q, t) = q \o <<t>> /\ Append(q, t) \in Paths
      /\ Append(Below(s, q), t) = Below(s, q) \o <<t>>
  BY BelowIs, AppendIsConcat, AppendProperties DEF Paths
<1>3. (<<s>> \o q) \o <<t>> = <<s>> \o (q \o <<t>>)
  BY <1>1, ConcatAssociative DEF Paths
<1> QED
  BY <1>2, <1>3 DEF Below

LEMMA BelowFront ==
  ASSUME NEW s \in Source, NEW q \in Paths
  PROVE  Front(Below(s, q)) = IF q = <<>> THEN <<>> ELSE Below(s, Front(q))
<1>1. CASE q = <<>>
  <2>1. Len(Below(s, q)) - 1 = 0
    <3>1. Len(q) = 0
      BY <1>1, EmptySeq
    <3>2. Len(Below(s, q)) = Len(q) + 1
      BY BelowIs
    <3> QED
      BY <3>1, <3>2
  <2>2. SubSeq(Below(s, q), 1, 0) = <<>>
    BY SubSeqEmpty
  <2> QED
    BY <1>1, <2>1, <2>2 DEF Front
<1>2. CASE q # <<>>
  <2>1. PICK r \in Paths, t \in Source : q = Append(r, t)
    BY <1>2, SequenceEmptyOrAppend DEF Paths
  <2>2. \A x \in Paths, y \in Source : Front(Append(x, y)) = x
    <3> SUFFICES ASSUME NEW x \in Paths, NEW y \in Source PROVE Front(Append(x, y)) = x
      OBVIOUS
    <3>1. /\ Len(x) \in Nat /\ Len(Append(x, y)) = Len(x) + 1
          /\ \A i \in 1 .. Len(x) : Append(x, y)[i] = x[i] /\ x[i] \in Source
      BY LenProperties, AppendProperties, ElementOfSeq DEF Paths
    <3>2. /\ Front(Append(x, y)) \in Paths /\ Len(Front(Append(x, y))) = Len(x)
          /\ \A i \in 1 .. Len(x) : Front(Append(x, y))[i] = x[i]
      <4>1. Front(Append(x, y)) = SubSeq(Append(x, y), 1, Len(x))
        BY <3>1 DEF Front
      <4>2. /\ SubSeq(Append(x, y), 1, Len(x)) \in Seq(Source)
            /\ Len(SubSeq(Append(x, y), 1, Len(x))) = IF 1 <= Len(x) THEN Len(x) - 1 + 1 ELSE 0
            /\ \A i \in 1 .. Len(x) - 1 + 1 :
                 SubSeq(Append(x, y), 1, Len(x))[i] = Append(x, y)[1 + i - 1]
        BY <3>1, SubSeqProperties
      <4> QED
        BY <3>1, <4>1, <4>2 DEF Paths
    <3> QED
      BY <3>2, SeqEqual DEF Paths
  <2>3. Below(s, q) = Append(Below(s, r), t) /\ Below(s, r) \in Paths
    BY <2>1, BelowAppend, BelowIs
  <2>4. Front(Below(s, q)) = Below(s, r) /\ Front(q) = r
    BY <2>1, <2>2, <2>3
  <2> QED
    BY <1>2, <2>4
<1> QED
  BY <1>1, <1>2

LEMMA ShortPaths ==
  /\ <<>> \in Paths /\ Len(<<>>) = 0
  /\ \A s \in Source : Append(<<>>, s) = Below(s, <<>>) /\ <<s>> = Below(s, <<>>)
  /\ \A p \in Paths : Len(p) \in Nat /\ (p # <<>> => Len(p) > 0)
<1>1. <<>> \in Paths /\ Len(<<>>) = 0
  BY EmptySeq DEF Paths
<1>2. ASSUME NEW s \in Source PROVE Append(<<>>, s) = Below(s, <<>>) /\ <<s>> = Below(s, <<>>)
  <2>1. <<s>> \in Paths
    BY DEF Paths
  <2>2. Append(<<>>, s) = <<>> \o <<s>>
    BY <1>1, AppendIsConcat DEF Paths
  <2>3. <<>> \o <<s>> = <<s>> /\ <<s>> \o <<>> = <<s>>
    BY <2>1, ConcatEmptySeq DEF Paths
  <2> QED
    BY <2>2, <2>3 DEF Below
<1>3. ASSUME NEW p \in Paths PROVE Len(p) \in Nat /\ (p # <<>> => Len(p) > 0)
  BY EmptySeq, LenProperties DEF Paths
<1> QED
  BY <1>1, <1>2, <1>3

-----------------------------------------------------------------------------
(* Documents                                                               *)

Fine(d) == WellFormed(d) /\ Marked(d)

LEMMA NothingIsFine == Fine(Nothing) /\ ~ IsDoc(Nothing)
<1>1. DOMAIN Nothing = {}
  BY DEF Nothing
<1> QED
  BY <1>1 DEF Fine, WellFormed, Marked, IsDoc

LEMMA NewDocIs ==
  ASSUME NEW id \in Nat
  PROVE  /\ Fine(NewDoc(id)) /\ IsDoc(NewDoc(id)) /\ DOMAIN NewDoc(id) = {<<>>}
         /\ \A s \in Source : NewDoc(id)[<<>>].status[s] = "unset"
         /\ NewDoc(id)[<<>>].untyped = {}
<1>1. /\ DOMAIN NewDoc(id) = {<<>>}
      /\ NewDoc(id)[<<>>] =
           [id |-> id, valid |-> TRUE, untyped |-> {}, status |-> [s \in Source |-> "unset"]]
  BY DEF NewDoc
<1>2. /\ NewDoc(id)[<<>>] \in Record /\ \A s \in Source : NewDoc(id)[<<>>].status[s] = "unset"
      /\ NewDoc(id)[<<>>].untyped = {}
  BY <1>1 DEF Record, Status
<1>3. WellFormed(NewDoc(id)) /\ IsDoc(NewDoc(id))
  BY <1>1, <1>2, ShortPaths DEF WellFormed, IsDoc, Paths
<1>4. \A s \in Source : Append(<<>>, s) # <<>>
  BY ShortPaths, BelowIs
<1>5. Marked(NewDoc(id))
  BY <1>1, <1>2, <1>4 DEF Marked
<1> QED
  BY <1>1, <1>2, <1>3, <1>5 DEF Fine

\* What is left of a pruned document, and what it says of what is cut.
LEMMA PruneIs ==
  ASSUME NEW doc, WellFormed(doc), NEW remaining \in Int
  PROVE  /\ DOMAIN PruneUpstreamProvenance(doc, remaining) = Kept(doc, remaining)
         /\ \A p \in Kept(doc, remaining) :
              LET r == PruneUpstreamProvenance(doc, remaining)[p] IN
              /\ p \in DOMAIN doc
              /\ r \in Record /\ r.id = doc[p].id /\ r.untyped = doc[p].untyped
              /\ \A s \in Source :
                   r.status[s] = IF Append(p, s) \in DOMAIN doc \ Kept(doc, remaining)
                                   THEN "depth-truncated" ELSE doc[p].status[s]
<1> DEFINE new == PruneUpstreamProvenance(doc, remaining)
           st(p) == [s \in Source |-> IF Append(p, s) \in DOMAIN doc \ Kept(doc, remaining)
                                        THEN "depth-truncated" ELSE doc[p].status[s]]
<1>1. DOMAIN new = Kept(doc, remaining)
  BY DEF PruneUpstreamProvenance
<1>2. ASSUME NEW p \in Kept(doc, remaining)
      PROVE  /\ p \in DOMAIN doc
             /\ new[p] \in Record /\ new[p].id = doc[p].id /\ new[p].untyped = doc[p].untyped
             /\ new[p].status = st(p)
  <2>1. p \in DOMAIN doc /\ doc[p] \in Record
    BY DEF Kept, WellFormed
  <2>2. new[p] = [doc[p] EXCEPT !.status = st(p)]
    BY DEF PruneUpstreamProvenance
  <2>3. st(p) \in [Source -> Status]
    BY <2>1 DEF Record, Status
  <2> HIDE DEF st, new
  <2> QED
    BY <2>1, <2>2, <2>3 DEF Record
<1> QED
  BY <1>1, <1>2

\* Pruning leaves a document, and says at each origin what it has cut.
LEMMA PruneKeeps ==
  ASSUME NEW doc, Fine(doc), NEW remaining \in Int
  PROVE  /\ Fine(PruneUpstreamProvenance(doc, remaining))
         /\ IsDoc(doc) <=> IsDoc(PruneUpstreamProvenance(doc, remaining))
<1> DEFINE new == PruneUpstreamProvenance(doc, remaining)
           left == IF remaining > 0 THEN remaining ELSE 0
<1>1. left \in Nat /\ Kept(doc, remaining) = {p \in DOMAIN doc : Len(p) =< left}
  BY DEF Kept
<1>2. /\ DOMAIN doc \subseteq Paths
      /\ IsDoc(doc) => <<>> \in DOMAIN doc
      /\ \A p \in DOMAIN doc : p # <<>> => Front(p) \in DOMAIN doc
  BY DEF Fine, WellFormed, Paths, Front
<1>3. /\ DOMAIN new = Kept(doc, remaining)
      /\ \A p \in DOMAIN new :
           /\ p \in DOMAIN doc /\ new[p] \in Record
           /\ \A s \in Source :
                new[p].status[s] = IF Append(p, s) \in DOMAIN doc \ DOMAIN new
                                     THEN "depth-truncated" ELSE doc[p].status[s]
  BY PruneIs DEF Fine
<1> HIDE DEF new, left
<1>4. IsDoc(doc) <=> IsDoc(new)
  BY <1>1, <1>2, <1>3, ShortPaths DEF IsDoc
<1>5. \A p \in DOMAIN new : p # <<>> => Front(p) \in DOMAIN new
  <2> SUFFICES ASSUME NEW p \in DOMAIN new, p # <<>> PROVE Front(p) \in DOMAIN new
    OBVIOUS
  <2>1. p \in Paths /\ Front(p) \in DOMAIN doc /\ Len(p) \in Nat /\ Len(p) =< left
    BY <1>1, <1>2, <1>3, ShortPaths
  <2>2. Len(Front(p)) \in Nat /\ Len(Front(p)) =< Len(p)
    <3>1. Len(p) - 1 \in Nat /\ Len(p) - 1 < Len(p)
      BY <2>1, ShortPaths
    <3>2. \A i \in 1 .. Len(p) - 1 : p[i] \in Source
      BY <2>1, <3>1, ElementOfSeq DEF Paths
    <3>3. Len(Front(p)) = IF 1 <= Len(p) - 1 THEN Len(p) - 1 - 1 + 1 ELSE 0
      BY <2>1, <3>1, <3>2, SubSeqProperties DEF Front
    <3> QED
      BY <2>1, <3>1, <3>3
  <2> QED
    BY <1>1, <1>3, <2>1, <2>2
<1>6. WellFormed(new)
  BY <1>1, <1>2, <1>3, <1>4, <1>5 DEF WellFormed, Paths, Front, IsDoc
<1>7. Marked(new)
  BY <1>3 DEF Marked, Fine
<1> QED
  BY <1>4, <1>6, <1>7 DEF Fine, new

\* The document with the status of one of its own origins.
Told(doc, s, st) == [doc EXCEPT ![<<>>].status[s] = st]

\* A document and an upstream that goes below a source with none so far.
LEMMA EmbedKeeps ==
  ASSUME NEW doc, Fine(doc), IsDoc(doc), NEW s \in Source,
         \A q \in Paths : Below(s, q) \notin DOMAIN doc,
         NEW up, Fine(up),
         NEW st \in Status, st = "embedded" <=> IsDoc(up),
         NEW told, told = Told(doc, s, st),
         NEW new, new = Embed(told, s, up)
  PROVE  /\ Fine(new) /\ IsDoc(new)
         /\ \A t \in Source : new[<<>>].status[t] = IF t = s THEN st ELSE doc[<<>>].status[t]
         /\ new[<<>>].untyped = doc[<<>>].untyped
         /\ \A t \in Source, q \in Paths :
              /\ Below(t, q) \in DOMAIN new
                   <=> IF t = s THEN q \in DOMAIN up ELSE Below(t, q) \in DOMAIN doc
              /\ Below(t, q) \in DOMAIN new =>
                   new[Below(t, q)] = IF t = s THEN up[q] ELSE doc[Below(t, q)]
<1>1. /\ DOMAIN doc \subseteq Paths /\ DOMAIN up \subseteq Paths
      /\ <<>> \in DOMAIN doc /\ (IsDoc(up) => <<>> \in DOMAIN up)
      /\ \A p \in DOMAIN doc : doc[p] \in Record
      /\ \A p \in DOMAIN doc : p # <<>> => Front(p) \in DOMAIN doc
      /\ \A p \in DOMAIN up : up[p] \in Record
      /\ \A p \in DOMAIN up : p # <<>> => Front(p) \in DOMAIN up
  BY DEF Fine, WellFormed, Paths, Front
<1>2. /\ DOMAIN told = DOMAIN doc
      /\ \A p \in DOMAIN doc : /\ told[p] \in Record
                               /\ p # <<>> => told[p] = doc[p]
      /\ \A t \in Source : told[<<>>].status[t] = IF t = s THEN st ELSE doc[<<>>].status[t]
      /\ told[<<>>].untyped = doc[<<>>].untyped
  <2> DEFINE root == [doc[<<>>] EXCEPT !.status[s] = st]
  <2>1. doc[<<>>] \in Record
    BY <1>1
  <2>2. /\ root \in Record /\ root.untyped = doc[<<>>].untyped
        /\ \A t \in Source : root.status[t] = IF t = s THEN st ELSE doc[<<>>].status[t]
    BY <2>1 DEF Record
  <2>3. told = [doc EXCEPT ![<<>>] = root]
    BY DEF Told
  <2> HIDE DEF root
  <2> QED
    BY <1>1, <2>2, <2>3
<1>3. DOMAIN new = DOMAIN doc \cup {Below(s, q) : q \in DOMAIN up}
  BY <1>2 DEF Embed, Below
<1>4. \A p \in DOMAIN doc : new[p] = told[p]
  BY <1>2 DEF Embed, Below
<1>5. \A q \in DOMAIN up : new[Below(s, q)] = up[q]
  <2> SUFFICES ASSUME NEW q \in DOMAIN up PROVE new[Below(s, q)] = up[q]
    OBVIOUS
  <2>1. Below(s, q) \notin DOMAIN told /\ Tail(Below(s, q)) = q
    BY <1>1, <1>2, BelowIs
  <2>2. <<s>> \o q = Below(s, q)
    BY DEF Below
  <2> QED
    BY <2>1, <2>2 DEF Embed
<1>6. \A t \in Source, q \in Paths :
        Below(t, q) \in DOMAIN new
          <=> IF t = s THEN q \in DOMAIN up ELSE Below(t, q) \in DOMAIN doc
  <2> SUFFICES ASSUME NEW t \in Source, NEW q \in Paths
               PROVE  Below(t, q) \in DOMAIN new
                        <=> IF t = s THEN q \in DOMAIN up ELSE Below(t, q) \in DOMAIN doc
    OBVIOUS
  <2>1. ASSUME NEW r \in DOMAIN up, Below(t, q) = Below(s, r) PROVE t = s /\ q = r
    <3>1. r \in Paths
      BY <1>1
    <3>2. Head(Below(t, q)) = t /\ Tail(Below(t, q)) = q
      BY BelowIs
    <3>3. Head(Below(s, r)) = s /\ Tail(Below(s, r)) = r
      BY <3>1, BelowIs
    <3> QED
      BY <2>1, <3>2, <3>3
  <2> QED
    BY <1>3, <2>1
<1>7. \A t \in Source, q \in Paths : Below(t, q) \in DOMAIN new =>
        new[Below(t, q)] = IF t = s THEN up[q] ELSE doc[Below(t, q)]
  <2> SUFFICES ASSUME NEW t \in Source, NEW q \in Paths, Below(t, q) \in DOMAIN new
               PROVE  new[Below(t, q)] = IF t = s THEN up[q] ELSE doc[Below(t, q)]
    OBVIOUS
  <2>1. Below(t, q) # <<>>
    BY BelowIs
  <2> QED
    BY <1>2, <1>4, <1>5, <1>6, <2>1
<1> HIDE DEF Embed
<1>8. <<>> \in DOMAIN new /\ new[<<>>] = told[<<>>]
  BY <1>1, <1>3, <1>4
<1>9. WellFormed(new)
  <2>1. DOMAIN new \subseteq Paths
    BY <1>1, <1>3, BelowIs
  <2>2. ASSUME NEW p \in DOMAIN new PROVE new[p] \in Record /\ (p # <<>> => Front(p) \in DOMAIN new)
    <3>1. CASE p \in DOMAIN doc
      BY <1>1, <1>2, <1>3, <1>4, <3>1
    <3>2. CASE p \notin DOMAIN doc
      <4>1. PICK q \in DOMAIN up : p = Below(s, q)
        BY <1>3, <2>2, <3>2
      <4>2. Front(p) = IF q = <<>> THEN <<>> ELSE Below(s, Front(q))
        BY <1>1, <4>1, BelowFront
      <4> QED
        BY <1>1, <1>3, <1>5, <4>1, <4>2
    <3> QED
      BY <3>1, <3>2
  <2> QED
    BY <1>8, <2>1, <2>2 DEF WellFormed, Paths, Front
<1>10. Marked(new)
  <2> SUFFICES ASSUME NEW p \in DOMAIN new, NEW t \in Source
               PROVE  new[p].status[t] = "embedded" <=> Append(p, t) \in DOMAIN new
    BY DEF Marked
  <2>1. CASE p = <<>>
    <3>1. Append(p, t) = Below(t, <<>>) /\ <<>> \in Paths
      BY <2>1, ShortPaths
    <3>2. CASE t = s
      <4>1. <<>> \in DOMAIN up <=> IsDoc(up)
        BY <1>1 DEF IsDoc
      <4>2. new[p].status[t] = st
        BY <1>2, <1>8, <2>1, <3>2
      <4>3. Append(p, t) \in DOMAIN new <=> <<>> \in DOMAIN up
        BY <1>6, <3>1, <3>2
      <4> QED
        BY <4>1, <4>2, <4>3
    <3>3. CASE t # s
      <4>1. doc[<<>>].status[t] = "embedded" <=> Append(<<>>, t) \in DOMAIN doc
        BY <1>1 DEF Fine, Marked
      <4>2. new[p].status[t] = doc[<<>>].status[t]
        BY <1>2, <1>8, <2>1, <3>3
      <4>3. Append(p, t) \in DOMAIN new <=> Below(t, <<>>) \in DOMAIN doc
        BY <1>6, <3>1, <3>3
      <4>4. Append(<<>>, t) = Below(t, <<>>)
        BY ShortPaths
      <4> QED
        BY <4>1, <4>2, <4>3, <4>4
    <3> QED
      BY <3>2, <3>3
  <2>2. CASE p # <<>>
    <3>1. p \in Paths
      BY <1>9 DEF WellFormed, Paths
    <3>2. PICK u \in Source, q \in Paths : p = Below(u, q)
      BY <2>2, <3>1, PathIs
    <3>3. Append(p, t) = Below(u, Append(q, t)) /\ Append(q, t) \in Paths
      BY <3>2, BelowAppend
    <3>4. CASE u = s
      <4>1. q \in DOMAIN up /\ new[p] = up[q]
        BY <1>6, <1>7, <3>2, <3>4
      <4>2. up[q].status[t] = "embedded" <=> Append(q, t) \in DOMAIN up
        BY <4>1 DEF Fine, Marked
      <4> QED
        BY <1>6, <3>3, <3>4, <4>1, <4>2
    <3>5. CASE u # s
      <4>1. p \in DOMAIN doc /\ new[p] = doc[p]
        BY <1>6, <1>7, <3>2, <3>5
      <4>2. doc[p].status[t] = "embedded" <=> Append(p, t) \in DOMAIN doc
        BY <4>1 DEF Fine, Marked
      <4> QED
        BY <1>6, <3>3, <3>5, <4>1, <4>2
    <3> QED
      BY <3>4, <3>5
  <2> QED
    BY <2>1, <2>2
<1>11. IsDoc(new)
  BY <1>8 DEF IsDoc
<1> QED
  BY <1>2, <1>6, <1>7, <1>8, <1>9, <1>10, <1>11 DEF Fine

\* The upstream document below a source, read by its own paths.
LEMMA UpstreamIs ==
  ASSUME NEW doc, DOMAIN doc \subseteq Paths, NEW s \in Source
  PROVE  /\ DOMAIN Upstream(doc, s) = {q \in Paths : Below(s, q) \in DOMAIN doc}
         /\ \A q \in DOMAIN Upstream(doc, s) : Upstream(doc, s)[q] = doc[Below(s, q)]
         /\ s \in Upstreams(doc) <=> <<>> \in DOMAIN Upstream(doc, s)
<1> DEFINE D == {Tail(p) : p \in {r \in DOMAIN doc : r # <<>> /\ Head(r) = s}}
<1>1. DOMAIN Upstream(doc, s) = D
  BY DEF Upstream
<1>2. ASSUME NEW q \in D PROVE q \in Paths /\ Below(s, q) \in DOMAIN doc
  <2>1. PICK p \in DOMAIN doc : p # <<>> /\ Head(p) = s /\ q = Tail(p)
    OBVIOUS
  <2>2. p \in Paths
    OBVIOUS
  <2>3. Tail(p) \in Paths /\ p = Below(Head(p), Tail(p))
    BY <2>1, <2>2, PathIs
  <2> QED
    BY <2>1, <2>3
<1>3. ASSUME NEW q \in Paths, Below(s, q) \in DOMAIN doc PROVE q \in D
  <2>1. Below(s, q) # <<>> /\ Head(Below(s, q)) = s /\ Tail(Below(s, q)) = q
    BY BelowIs
  <2> QED
    BY <1>3, <2>1
<1>4. DOMAIN Upstream(doc, s) = {q \in Paths : Below(s, q) \in DOMAIN doc}
  BY <1>1, <1>2, <1>3
<1>5. \A q \in DOMAIN Upstream(doc, s) : Upstream(doc, s)[q] = doc[Below(s, q)]
  BY DEF Upstream, Below
<1>6. <<s>> \in DOMAIN doc <=> Below(s, <<>>) \in DOMAIN doc
  BY ShortPaths
<1>7. s \in Upstreams(doc) <=> <<>> \in DOMAIN Upstream(doc, s)
  BY <1>4, <1>6, ShortPaths DEF Upstreams
<1> QED
  BY <1>4, <1>5, <1>7

-----------------------------------------------------------------------------
(* The invariant                                                           *)

\* What a publish has put below each source is what that source said, down to
\* the cap.
AsRead ==
  \A s \in Source :
    /\ prov[<<>>].status[s] = "unset" => seen[s] = Nothing
    /\ DOMAIN Upstream(prov, s) = {q \in DOMAIN seen[s] : Len(q) < MaxDepth}
    /\ \A q \in DOMAIN Upstream(prov, s) : Upstream(prov, s)[q].id = seen[s][q].id

JobInv ==
  /\ Marked(prov) /\ \A s \in Source : Marked(seen[s])
  /\ job = "idle" => seen = Unseen
  /\ job \in {"origins", "publish"} => AsRead /\ prov[<<>>].untyped = {}

StoreInv == ReadersAccept /\ \A v \in Version : Marked(store[v])

IInv == TypeOK /\ JobInv /\ StoreInv

LEMMA TypesAre ==
  TypeOK <=>
    /\ there \subseteq Version
    /\ \A v \in Version \ there : store[v] = Nothing /\ by[v] = "others"
    /\ by \in [Version -> {"others", "publish", "promote"}]
    /\ job \in {"idle", "origins", "publish", "promote"}
    /\ target \in Version
    /\ sources \in [Source -> Version \cup {"none"}]
    /\ writes \in 0 .. MaxWrites
    /\ DOMAIN store = Version /\ \A v \in Version : WellFormed(store[v])
    /\ DOMAIN seen = Source /\ \A s \in Source : WellFormed(seen[s])
    /\ IsDoc(prov) /\ WellFormed(prov)
BY DEF TypeOK

LEMMA UnseenIs == DOMAIN Unseen = Source /\ \A s \in Source : Unseen[s] = Nothing /\ Fine(Unseen[s])
BY NothingIsFine DEF Unseen

\* A document that has just been started has read nothing.
LEMMA NothingRead ==
  ASSUME NEW id \in Nat, NEW s \in Source
  PROVE  DOMAIN Upstream(NewDoc(id), s) = {} /\ {q \in DOMAIN Nothing : Len(q) < MaxDepth} = {}
<1>1. DOMAIN NewDoc(id) = {<<>>} /\ DOMAIN NewDoc(id) \subseteq Paths
  BY NewDocIs, ShortPaths
<1>2. \A q \in Paths : Below(s, q) # <<>>
  BY BelowIs
<1>3. DOMAIN Upstream(NewDoc(id), s) = {q \in Paths : Below(s, q) \in DOMAIN NewDoc(id)}
  BY <1>1, UpstreamIs
<1>4. DOMAIN Nothing = {}
  BY DEF Nothing
<1> QED
  BY <1>1, <1>2, <1>3, <1>4

LEMMA InitHolds == Init => IInv
<1> SUFFICES ASSUME Init PROVE IInv
  OBVIOUS
<1>1. NoTarget \in Version
  BY BoundsAssumption DEF NoTarget
<1>2. Fine(NewDoc(0)) /\ IsDoc(NewDoc(0))
  BY NewDocIs
<1>3. TypeOK
  BY <1>1, <1>2, NothingIsFine, UnseenIs, BoundsAssumption DEF Init, TypeOK, NoSources, Fine
<1>4. JobInv
  BY <1>2, UnseenIs DEF Init, JobInv, Fine
<1>5. StoreInv
  BY NothingIsFine DEF Init, StoreInv, ReadersAccept, Fine
<1> QED
  BY <1>3, <1>4, <1>5 DEF IInv

-----------------------------------------------------------------------------
(* The steps                                                               *)

LEMMA BeginPublishKeeps ==
  ASSUME IInv, NEW v \in Version, BeginPublish(v) PROVE IInv'
<1> DEFINE new == NewDoc(writes + 1)
<1>1. /\ writes \in Nat /\ writes + 1 \in 0 .. MaxWrites /\ writes + 1 \in Nat
      /\ job = "idle" /\ seen = Unseen
  BY BoundsAssumption DEF IInv, TypeOK, JobInv, BeginPublish
<1>2. /\ job' = "origins" /\ target' = v /\ prov' = new /\ writes' = writes + 1
      /\ sources' \in [Source -> Version \cup {"none"}]
      /\ there' = there /\ store' = store /\ by' = by /\ seen' = seen
  BY DEF BeginPublish
<1>3. /\ Fine(new) /\ IsDoc(new) /\ \A s \in Source : new[<<>>].status[s] = "unset"
      /\ new[<<>>].untyped = {}
      /\ \A s \in Source : /\ DOMAIN Upstream(new, s) = {}
                         /\ {q \in DOMAIN Nothing : Len(q) < MaxDepth} = {}
  BY <1>1, NewDocIs, NothingRead
<1> HIDE DEF new
<1>4. TypeOK'
  BY <1>1, <1>2, <1>3 DEF IInv, TypeOK, Fine
<1>5. AsRead'
  BY <1>1, <1>2, <1>3, UnseenIs DEF AsRead
<1>6. JobInv'
  BY <1>1, <1>2, <1>3, <1>5 DEF IInv, JobInv, Fine
<1>7. StoreInv'
  BY <1>2 DEF IInv, StoreInv, ReadersAccept
<1> QED
  BY <1>4, <1>6, <1>7 DEF IInv

LEMMA OriginKeeps ==
  ASSUME IInv, NEW s \in Source, Origin(s) PROVE IInv'
<1> DEFINE cut(up) == PruneUpstreamProvenance(up, LevelsBelow)
           status(up) == IF IsDoc(up) THEN "embedded" ELSE "no-cob-provenance"
           told(up) == [prov EXCEPT ![<<>>].status[s] = status(up)]
<1>1. PICK up \in FetchProvenance(sources[s]) :
        seen' = [seen EXCEPT ![s] = up] /\ prov' = Embed(told(up), s, cut(up))
  BY DEF Origin
<1>2. /\ job = "origins" /\ sources[s] \in Version /\ prov[<<>>].status[s] = "unset"
      /\ there' = there /\ store' = store /\ by' = by /\ job' = job /\ target' = target
      /\ sources' = sources /\ writes' = writes
  BY DEF Origin, IInv, TypeOK
<1>3. Fine(up)
  BY <1>2, NothingIsFine DEF FetchProvenance, IInv, TypeOK, StoreInv, Fine
<1>4. LevelsBelow \in Int /\ LevelsBelow = MaxDepth - 1 /\ MaxDepth \in Nat /\ MaxDepth > 0
  BY BoundsAssumption DEF LevelsBelow
<1>5. Fine(cut(up)) /\ (IsDoc(up) <=> IsDoc(cut(up)))
  BY <1>3, <1>4, PruneKeeps
<1>6. /\ DOMAIN cut(up) = {q \in DOMAIN up : Len(q) < MaxDepth}
      /\ \A q \in DOMAIN cut(up) : cut(up)[q].id = up[q].id
  <2>1. /\ DOMAIN cut(up) = Kept(up, LevelsBelow)
        /\ \A q \in Kept(up, LevelsBelow) : cut(up)[q].id = up[q].id
    BY <1>3, <1>4, PruneIs DEF Fine
  <2>2. \A q \in DOMAIN up : Len(q) \in Nat
    BY <1>3, ShortPaths DEF Fine, WellFormed, Paths
  <2>3. Kept(up, LevelsBelow) = {q \in DOMAIN up : Len(q) < MaxDepth}
    BY <1>4, <2>2 DEF Kept
  <2> QED
    BY <2>1, <2>3
<1>7. /\ Fine(prov) /\ IsDoc(prov) /\ DOMAIN prov \subseteq Paths /\ AsRead
      /\ DOMAIN seen = Source /\ prov[<<>>].untyped = {}
  BY <1>2 DEF IInv, TypeOK, JobInv, Fine, WellFormed, Paths
<1>8. \A q \in Paths : Below(s, q) \notin DOMAIN prov
  <2>1. seen[s] = Nothing
    BY <1>2, <1>7 DEF AsRead
  <2>2. DOMAIN Upstream(prov, s) = {}
    BY <1>7, <2>1 DEF AsRead, Nothing
  <2> QED
    BY <1>7, <2>2, UpstreamIs
<1>9. status(up) \in Status /\ (status(up) = "embedded" <=> IsDoc(cut(up))) /\ status(up) # "unset"
  BY <1>5 DEF Status
<1> HIDE DEF cut, status, told
<1>10. told(up) = Told(prov, s, status(up))
  BY DEF told, Told
<1>11. /\ Fine(prov') /\ IsDoc(prov')
       /\ \A t \in Source :
            prov'[<<>>].status[t] = IF t = s THEN status(up) ELSE prov[<<>>].status[t]
       /\ prov'[<<>>].untyped = prov[<<>>].untyped
       /\ \A t \in Source, q \in Paths :
            /\ Below(t, q) \in DOMAIN prov'
                 <=> IF t = s THEN q \in DOMAIN cut(up) ELSE Below(t, q) \in DOMAIN prov
            /\ Below(t, q) \in DOMAIN prov' =>
                 prov'[Below(t, q)] = IF t = s THEN cut(up)[q] ELSE prov[Below(t, q)]
  BY <1>1, <1>5, <1>7, <1>8, <1>9, <1>10, EmbedKeeps
<1>12. DOMAIN prov' \subseteq Paths /\ DOMAIN up \subseteq Paths
  BY <1>3, <1>11 DEF Fine, WellFormed, Paths
<1>13. ASSUME NEW t \in Source
       PROVE  /\ prov'[<<>>].status[t] = "unset" => seen'[t] = Nothing
              /\ DOMAIN Upstream(prov', t) = {q \in DOMAIN seen'[t] : Len(q) < MaxDepth}
              /\ \A q \in DOMAIN Upstream(prov', t) : Upstream(prov', t)[q].id = seen'[t][q].id
  <2>1. /\ DOMAIN Upstream(prov', t) = {q \in Paths : Below(t, q) \in DOMAIN prov'}
        /\ \A q \in DOMAIN Upstream(prov', t) : Upstream(prov', t)[q] = prov'[Below(t, q)]
    BY <1>12, UpstreamIs
  <2>2. CASE t = s
    <3>1. seen'[t] = up /\ prov'[<<>>].status[t] # "unset"
      BY <1>1, <1>7, <1>9, <1>11, <2>2
    <3>2. DOMAIN Upstream(prov', t) = DOMAIN cut(up)
      BY <1>6, <1>11, <1>12, <2>1, <2>2
    <3>3. \A q \in DOMAIN Upstream(prov', t) : Upstream(prov', t)[q] = cut(up)[q]
      BY <1>11, <2>1, <2>2
    <3> QED
      BY <1>6, <3>1, <3>2, <3>3
  <2>3. CASE t # s
    <3>1. seen'[t] = seen[t] /\ prov'[<<>>].status[t] = prov[<<>>].status[t]
      BY <1>1, <1>7, <1>11, <2>3
    <3>2. /\ DOMAIN Upstream(prov, t) = {q \in Paths : Below(t, q) \in DOMAIN prov}
          /\ \A q \in DOMAIN Upstream(prov, t) : Upstream(prov, t)[q] = prov[Below(t, q)]
      BY <1>7, UpstreamIs
    <3>3. DOMAIN Upstream(prov', t) = DOMAIN Upstream(prov, t)
      BY <1>11, <2>1, <2>3, <3>2
    <3>4. \A q \in DOMAIN Upstream(prov', t) : Upstream(prov', t)[q] = Upstream(prov, t)[q]
      BY <1>11, <2>1, <2>3, <3>2, <3>3
    <3>5. /\ prov[<<>>].status[t] = "unset" => seen[t] = Nothing
          /\ DOMAIN Upstream(prov, t) = {q \in DOMAIN seen[t] : Len(q) < MaxDepth}
          /\ \A q \in DOMAIN Upstream(prov, t) : Upstream(prov, t)[q].id = seen[t][q].id
      BY <1>7 DEF AsRead
    <3> QED
      BY <3>1, <3>3, <3>4, <3>5
  <2> QED
    BY <2>2, <2>3
<1>14. \A t \in Source : Fine(seen'[t])
  BY <1>1, <1>3, <1>7 DEF IInv, TypeOK, JobInv, Fine
<1>15. TypeOK'
  <2>1. DOMAIN seen' = Source
    BY <1>1, <1>7
  <2> QED
    BY <1>2, <1>11, <1>14, <2>1 DEF IInv, TypeOK, Fine
<1>16. AsRead'
  BY <1>13 DEF AsRead
<1>17. JobInv'
  BY <1>2, <1>7, <1>11, <1>14, <1>16 DEF JobInv, Fine
<1>18. StoreInv'
  BY <1>2 DEF IInv, StoreInv, ReadersAccept
<1> QED
  BY <1>15, <1>17, <1>18 DEF IInv

LEMMA BuiltKeeps ==
  ASSUME IInv, Built PROVE IInv'
<1>1. /\ job = "origins" /\ job' = "publish"
      /\ there' = there /\ store' = store /\ by' = by /\ target' = target /\ sources' = sources
      /\ seen' = seen /\ prov' = prov /\ writes' = writes
  BY DEF Built
<1>2. AsRead' <=> AsRead
  BY <1>1 DEF AsRead
<1>3. TypeOK' /\ JobInv' /\ StoreInv'
  BY <1>1, <1>2 DEF IInv, TypeOK, JobInv, StoreInv, ReadersAccept
<1> QED
  BY <1>3 DEF IInv

LEMMA BeginPromoteKeeps ==
  ASSUME IInv, NEW v \in Version, NEW w \in Version, BeginPromote(v, w) PROVE IInv'
<1>1. /\ job = "idle" /\ writes < MaxWrites
      /\ job' = "promote" /\ target' = w /\ writes' = writes + 1
      /\ prov' = IF IsDoc(store[v]) THEN store[v] ELSE NewDoc(0)
      /\ there' = there /\ store' = store /\ by' = by /\ sources' = sources /\ seen' = seen
  BY DEF BeginPromote
<1>2. Fine(store[v])
  BY DEF IInv, TypeOK, StoreInv, Fine
<1>3. Fine(prov') /\ IsDoc(prov')
  BY <1>1, <1>2, NewDocIs
<1>4. writes' \in 0 .. MaxWrites
  BY <1>1, BoundsAssumption DEF IInv, TypeOK
<1>5. TypeOK' /\ JobInv' /\ StoreInv'
  BY <1>1, <1>3, <1>4 DEF IInv, TypeOK, JobInv, StoreInv, ReadersAccept, Fine
<1> QED
  BY <1>5 DEF IInv

\* What FinalizeProvenance uploads, if it uploads anything.
Final == IF Marshals(prov) THEN prov ELSE PruneUpstreamProvenance(prov, 0)

LEMMA FinalIs ==
  ASSUME IInv, job \in {"publish", "promote"}
  PROVE  /\ Fine(Final) /\ IsDoc(Final)
         /\ job = "publish" =>
              /\ \A p \in DOMAIN Final : Len(p) <= MaxDepth
              /\ Final[<<>>].untyped = {}
<1>1. Fine(prov) /\ IsDoc(prov) /\ DOMAIN prov \subseteq Paths
  BY DEF IInv, TypeOK, JobInv, Fine, WellFormed, Paths
<1>2. MaxDepth \in Nat /\ MaxDepth > 0
  BY BoundsAssumption
<1>3. CASE Marshals(prov)
  <2>1. Final = prov
    BY <1>3 DEF Final
  <2>2. ASSUME job = "publish", NEW p \in DOMAIN prov PROVE Len(p) <= MaxDepth
    <3>1. CASE p = <<>>
      BY <1>2, <3>1, ShortPaths
    <3>2. CASE p # <<>>
      <4>1. PICK s \in Source, q \in Paths : p = Below(s, q)
        BY <1>1, <3>2, PathIs
      <4>2. q \in DOMAIN Upstream(prov, s)
        BY <1>1, <2>2, <4>1, UpstreamIs
      <4>3. Len(q) < MaxDepth
        BY <2>2, <4>2 DEF IInv, JobInv, AsRead
      <4>4. Len(p) = Len(q) + 1 /\ Len(q) \in Nat
        BY <4>1, BelowIs, ShortPaths
      <4> QED
        BY <1>2, <4>3, <4>4
    <3> QED
      BY <3>1, <3>2
  <2>3. job = "publish" => prov[<<>>].untyped = {}
    BY DEF IInv, JobInv
  <2> QED
    BY <1>1, <2>1, <2>2, <2>3
<1>4. CASE ~ Marshals(prov)
  <2>1. Final = PruneUpstreamProvenance(prov, 0)
    BY <1>4 DEF Final
  <2>2. Fine(Final) /\ IsDoc(Final)
    BY <1>1, <2>1, PruneKeeps
  <2>3. DOMAIN Final = {p \in DOMAIN prov : Len(p) =< 0}
    <3>1. DOMAIN PruneUpstreamProvenance(prov, 0) = Kept(prov, 0)
      BY <1>1, PruneIs DEF Fine
    <3> QED
      BY <2>1, <3>1 DEF Kept
  <2>4. \A p \in DOMAIN Final : Len(p) <= MaxDepth
    BY <1>1, <1>2, <2>3, ShortPaths
  <2>5. <<>> \in Kept(prov, 0)
    BY <1>1, ShortPaths DEF Fine, WellFormed, Kept
  <2>6. Final[<<>>].untyped = prov[<<>>].untyped
    BY <1>1, <2>1, <2>5, PruneIs DEF Fine
  <2>7. job = "publish" => prov[<<>>].untyped = {}
    BY DEF IInv, JobInv
  <2> QED
    BY <2>2, <2>4, <2>6, <2>7
<1> QED
  BY <1>3, <1>4

\* Validate comes to the document itself, and to what is directly below it
\* when all its own origins have types.
LEMMA NearIsVisited ==
  ASSUME NEW doc, WellFormed(doc), NEW p \in DOMAIN doc,
         doc[<<>>].untyped = {}, Len(p) <= 1
  PROVE  p \in Visited(doc)
<1>1. p \in Paths /\ Len(p) \in Nat
  BY ShortPaths DEF WellFormed, Paths
<1>2. ASSUME NEW i \in 1 .. Len(p) PROVE p[i] \notin doc[SubSeq(p, 1, i - 1)].untyped
  <2>1. i - 1 = 0
    BY <1>1
  <2>2. SubSeq(p, 1, 0) = <<>>
    BY SubSeqEmpty
  <2>3. doc[SubSeq(p, 1, i - 1)].untyped = {}
    BY <2>1, <2>2
  <2> QED
    BY <2>3
<1> QED
  BY <1>2 DEF Visited

\* What the finalizer does to the versions.
LEMMA FinalizeIs ==
  ASSUME IInv, FinalizeProvenance
  PROVE  /\ job \in {"publish", "promote"}
         /\ job' = "idle" /\ target' = NoTarget /\ sources' = NoSources
         /\ seen' = Unseen /\ prov' = NewDoc(0) /\ writes' = writes
         /\ \/ there' = there /\ store' = store /\ by' = by
            \/ /\ Marshals(Final)
               /\ there' = there \cup {target}
               /\ store' = [store EXCEPT ![target] = Final]
               /\ by' = [by EXCEPT ![target] = job]
<1>1. /\ job \in {"publish", "promote"}
      /\ job' = "idle" /\ target' = NoTarget /\ sources' = NoSources
      /\ seen' = Unseen /\ prov' = NewDoc(0) /\ writes' = writes
  BY DEF FinalizeProvenance
<1>2. IF Marshals(Final) THEN Upload(Final) ELSE UNCHANGED <<there, store, by>>
  BY DEF FinalizeProvenance, Final
<1> QED
  BY <1>1, <1>2 DEF Upload

LEMMA FinalizeKeeps ==
  ASSUME IInv, FinalizeProvenance PROVE IInv'
<1>1. /\ job \in {"publish", "promote"}
      /\ job' = "idle" /\ target' = NoTarget /\ sources' = NoSources
      /\ seen' = Unseen /\ prov' = NewDoc(0) /\ writes' = writes
  BY FinalizeIs
<1>2. /\ Fine(Final) /\ IsDoc(Final)
      /\ job = "publish" =>
           /\ \A p \in DOMAIN Final : Len(p) <= MaxDepth
           /\ Final[<<>>].untyped = {}
  BY <1>1, FinalIs
<1>3. /\ Fine(prov') /\ IsDoc(prov') /\ target' \in Version
      /\ DOMAIN seen' = Source /\ \A s \in Source : Fine(seen'[s])
      /\ sources' \in [Source -> Version \cup {"none"}]
  BY <1>1, NewDocIs, UnseenIs, BoundsAssumption DEF NoTarget, NoSources
<1>4. JobInv'
  BY <1>1, <1>3 DEF JobInv, Fine
<1>5. CASE there' = there /\ store' = store /\ by' = by
  <2>1. TypeOK' /\ StoreInv'
    BY <1>1, <1>3, <1>5 DEF IInv, TypeOK, StoreInv, ReadersAccept, Fine
  <2> QED
    BY <1>4, <2>1 DEF IInv
<1>6. CASE /\ Marshals(Final)
           /\ there' = there \cup {target}
           /\ store' = [store EXCEPT ![target] = Final]
           /\ by' = [by EXCEPT ![target] = job]
  <2>1. /\ target \in Version /\ DOMAIN store = Version
        /\ by \in [Version -> {"others", "publish", "promote"}]
    BY DEF IInv, TypeOK
  <2>2. /\ DOMAIN store' = Version /\ by' \in [Version -> {"others", "publish", "promote"}]
        /\ \A v \in Version : /\ store'[v] = IF v = target THEN Final ELSE store[v]
                              /\ by'[v] = IF v = target THEN job ELSE by[v]
    BY <1>1, <1>6, <2>1
  <2>3. there' \subseteq Version /\ \A v \in Version \ there' : v # target /\ v \notin there
    BY <1>6, <2>1 DEF IInv, TypeOK
  <2>4. \A v \in Version : Fine(store'[v])
    BY <1>2, <2>2 DEF IInv, TypeOK, StoreInv, Fine
  <2>5. TypeOK'
    BY <1>1, <1>3, <2>2, <2>3, <2>4 DEF IInv, TypeOK, Fine
  <2>6. Fits(Final) /\ \A p \in Visited(Final) : Final[p].valid
    BY <1>6 DEF Marshals, Validate
  <2>7. job = "publish" => \A p \in DOMAIN Final : Len(p) <= 1 => Final[p].valid
    BY <1>2, <2>6, NearIsVisited DEF Fine
  <2>8. StoreInv'
    BY <1>2, <2>2, <2>4, <2>6, <2>7 DEF IInv, StoreInv, ReadersAccept, Fine
  <2> QED
    BY <1>4, <2>5, <2>8 DEF IInv
<1> QED
  BY <1>5, <1>6, FinalizeIs

LEMMA OthersPublishKeeps ==
  ASSUME IInv, NEW v \in Version, OthersPublish(v) PROVE IInv'
<1>1. /\ v \notin there /\ there' = there \cup {v}
      /\ by' = by /\ job' = job /\ target' = target /\ sources' = sources /\ seen' = seen
      /\ prov' = prov /\ writes' = writes
  BY DEF OthersPublish
<1>2. PICK d \in ForeignDocs \cup {Nothing} : store' = [store EXCEPT ![v] = d]
  BY DEF OthersPublish
<1>3. Fine(d)
  BY <1>2, ForeignAssumption, NothingIsFine DEF Fine
<1>4. DOMAIN store = Version /\ by[v] = "others"
  BY <1>1 DEF IInv, TypeOK
<1>5. DOMAIN store' = Version /\ \A w \in Version : store'[w] = IF w = v THEN d ELSE store[w]
  BY <1>2, <1>4
<1>6. AsRead' <=> AsRead
  BY <1>1 DEF AsRead
<1>7. there' \subseteq Version /\ \A w \in Version \ there' : w # v /\ w \notin there
  BY <1>1 DEF IInv, TypeOK
<1>8. TypeOK'
  BY <1>1, <1>3, <1>5, <1>7 DEF IInv, TypeOK, Fine
<1>9. JobInv'
  BY <1>1, <1>6 DEF IInv, JobInv
<1>10. StoreInv'
  BY <1>1, <1>3, <1>4, <1>5 DEF IInv, StoreInv, ReadersAccept, Fine
<1> QED
  BY <1>8, <1>9, <1>10 DEF IInv

LEMMA OthersDeleteKeeps ==
  ASSUME IInv, NEW v \in Version, OthersDelete(v) PROVE IInv'
<1>1. /\ there' = there \ {v}
      /\ store' = [store EXCEPT ![v] = Nothing] /\ by' = [by EXCEPT ![v] = "others"]
      /\ job' = job /\ target' = target /\ sources' = sources /\ seen' = seen
      /\ prov' = prov /\ writes' = writes
  BY DEF OthersDelete
<1>2. DOMAIN store = Version /\ by \in [Version -> {"others", "publish", "promote"}]
  BY DEF IInv, TypeOK
<1>3. /\ DOMAIN store' = Version /\ by' \in [Version -> {"others", "publish", "promote"}]
      /\ \A w \in Version : /\ store'[w] = IF w = v THEN Nothing ELSE store[w]
                            /\ by'[w] = IF w = v THEN "others" ELSE by[w]
  BY <1>1, <1>2
<1>4. AsRead' <=> AsRead
  BY <1>1 DEF AsRead
<1>5. there' \subseteq Version /\ \A w \in Version \ there' : w = v \/ w \notin there
  BY <1>1 DEF IInv, TypeOK
<1>6. TypeOK'
  BY <1>1, <1>3, <1>5, NothingIsFine DEF IInv, TypeOK, Fine
<1>7. JobInv'
  BY <1>1, <1>4 DEF IInv, JobInv
<1>8. StoreInv'
  BY <1>3, NothingIsFine DEF IInv, StoreInv, ReadersAccept, Fine
<1> QED
  BY <1>6, <1>7, <1>8 DEF IInv

LEMMA NextKeeps == IInv /\ [Next]_vars => IInv'
<1> SUFFICES ASSUME IInv, [Next]_vars PROVE IInv'
  OBVIOUS
<1>1. CASE UNCHANGED vars
  <2>1. /\ there' = there /\ store' = store /\ by' = by /\ job' = job /\ target' = target
        /\ sources' = sources /\ seen' = seen /\ prov' = prov /\ writes' = writes
    BY <1>1 DEF vars
  <2>2. (AsRead' <=> AsRead)
    BY <2>1 DEF AsRead
  <2> QED
    BY <2>1, <2>2 DEF IInv, TypeOK, JobInv, StoreInv, ReadersAccept
<1>2. CASE \E v \in Version : BeginPublish(v) \/ OthersPublish(v) \/ OthersDelete(v)
  BY <1>2, BeginPublishKeeps, OthersPublishKeeps, OthersDeleteKeeps
<1>3. CASE \E v, w \in Version : BeginPromote(v, w)
  BY <1>3, BeginPromoteKeeps
<1>4. CASE \E s \in Source : Origin(s)
  BY <1>4, OriginKeeps
<1>5. CASE Built \/ FinalizeProvenance
  BY <1>5, BuiltKeeps, FinalizeKeeps
<1> QED
  BY <1>1, <1>2, <1>3, <1>4, <1>5 DEF Next

-----------------------------------------------------------------------------
(* The theorems                                                            *)

\* The invariant holds in every reachable state.
THEOREM InvariantHolds == Spec => []IInv
<1>1. Init => IInv
  BY InitHolds
<1>2. IInv /\ [Next]_vars => IInv'
  BY NextKeeps
<1> QED
  BY <1>1, <1>2, PTL DEF Spec

\* Every document of a version, read or being built is a tree of records, and
\* a version that is not there has none.
THEOREM TypeCorrect == Spec => []TypeOK
<1>1. IInv => TypeOK
  BY DEF IInv
<1> QED
  BY <1>1, InvariantHolds, PTL

\* What cob publishes, the next cob reads, whatever documents others publish:
\* every origin that is come to over origins with a type has the fields of its
\* own, as have those of a publish and of its direct sources, and a publish
\* embeds no more levels than the cap (Marshal, Origin.Validate,
\* FetchProvenance, CASource.Origin).
THEOREM NextReaderAccepts == Spec => []ReadersAccept
<1>1. IInv => ReadersAccept
  BY DEF IInv, StoreInv
<1> QED
  BY <1>1, InvariantHolds, PTL

\* Through cuts of cuts an upstream of a published document is embedded exactly
\* where its origin says so (PruneUpstreamProvenance).
THEOREM CutsAreMarked == Spec => []CutIsMarked
<1>1. IInv => CutIsMarked
  BY DEF IInv, StoreInv, CutIsMarked
<1> QED
  BY <1>1, InvariantHolds, PTL

LEMMA PublishedIsAsRead ==
  ASSUME IInv, FinalizeProvenance, job = "publish",
         store' = [store EXCEPT ![target] = Final], NEW s \in Source
  PROVE  LET now == store'[target] IN
         \/ /\ s \in Upstreams(now)
            /\ IsDoc(seen[s])
            /\ DOMAIN Upstream(now, s) = {q \in DOMAIN seen[s] : Len(q) < MaxDepth}
            /\ \A q \in DOMAIN Upstream(now, s) : Upstream(now, s)[q].id = seen[s][q].id
         \/ /\ s \notin Upstreams(now)
            /\ IsDoc(seen[s]) => ~(Fits(prov) /\ Validate(prov))
<1>1. store'[target] = Final
  BY DEF IInv, TypeOK
<1>2. /\ Fine(prov) /\ DOMAIN prov \subseteq Paths
      /\ DOMAIN Upstream(prov, s) = {q \in DOMAIN seen[s] : Len(q) < MaxDepth}
      /\ \A q \in DOMAIN Upstream(prov, s) : Upstream(prov, s)[q].id = seen[s][q].id
      /\ WellFormed(seen[s])
  BY DEF IInv, TypeOK, JobInv, AsRead, Fine, WellFormed, Paths
<1>3. CASE Marshals(prov)
  <2>1. Final = prov
    BY <1>3 DEF Final
  <2>2. <<>> \in DOMAIN seen[s] <=> IsDoc(seen[s])
    BY <1>2 DEF WellFormed, IsDoc
  <2>3. s \in Upstreams(prov) <=> <<>> \in DOMAIN Upstream(prov, s)
    BY <1>2, UpstreamIs
  <2>4. s \in Upstreams(prov) <=> IsDoc(seen[s])
    BY <1>2, <2>2, <2>3, ShortPaths, BoundsAssumption
  <2> QED
    BY <1>1, <1>2, <2>1, <2>4
<1>4. CASE ~ Marshals(prov)
  <2>1. DOMAIN Final = Kept(prov, 0)
    <3>1. Final = PruneUpstreamProvenance(prov, 0)
      BY <1>4 DEF Final
    <3> QED
      BY <1>2, <3>1, PruneIs DEF Fine
  <2>2. Len(<<s>>) = 1
    OBVIOUS
  <2>3. s \notin Upstreams(Final)
    BY <2>1, <2>2 DEF Upstreams, Kept
  <2>4. ~(Fits(prov) /\ Validate(prov))
    BY <1>4 DEF Marshals
  <2> QED
    BY <1>1, <2>3, <2>4
<1> QED
  BY <1>3, <1>4

\* A publish embeds below each source what that source said when it was read,
\* down to the cap, and leaves it out only where the whole could not have been
\* written, whatever happens to the source meanwhile (FinalizeProvenance).
THEOREM EmbedsWhatItRead == Spec => UpstreamIsAsRead
<1> DEFINE Said(v) ==
             \A s \in Source :
               LET now == store'[v] IN
               \/ /\ s \in Upstreams(now)
                  /\ IsDoc(seen[s])
                  /\ DOMAIN Upstream(now, s) = {q \in DOMAIN seen[s] : Len(q) < MaxDepth}
                  /\ \A q \in DOMAIN Upstream(now, s) : Upstream(now, s)[q].id = seen[s][q].id
               \/ /\ s \notin Upstreams(now)
                  /\ IsDoc(seen[s]) => ~(Fits(prov) /\ Validate(prov))
           Step == \A v \in Version : by'[v] = "publish" /\ store'[v] # store[v] => Said(v)
<1>1. IInv /\ [Next]_vars => [Step]_vars
  <2> SUFFICES ASSUME IInv, Next PROVE Step
    OBVIOUS
  <2> SUFFICES ASSUME NEW v \in Version, by'[v] = "publish", store'[v] # store[v] PROVE Said(v)
    OBVIOUS
  <2> HIDE DEF Said
  <2>1. DOMAIN store = Version /\ by \in [Version -> {"others", "publish", "promote"}]
    BY DEF IInv, TypeOK
  <2>2. CASE FinalizeProvenance
    <3>1. /\ job \in {"publish", "promote"}
          /\ store' = [store EXCEPT ![target] = Final]
          /\ by' = [by EXCEPT ![target] = job]
      BY <2>2, FinalizeIs
    <3>2. v = target /\ job = "publish"
      BY <2>1, <3>1
    <3> QED
      BY <2>2, <3>1, <3>2, PublishedIsAsRead DEF Said
  <2>3. ASSUME NEW w \in Version, OthersPublish(w) PROVE FALSE
    <3>1. /\ w \notin there /\ by' = by
          /\ \E d \in ForeignDocs \cup {Nothing} : store' = [store EXCEPT ![w] = d]
      BY <2>3 DEF OthersPublish
    <3>2. v = w
      BY <2>1, <3>1
    <3>3. by[w] = "others"
      BY <3>1 DEF IInv, TypeOK
    <3> QED
      BY <3>1, <3>2, <3>3
  <2>4. ASSUME NEW w \in Version, OthersDelete(w) PROVE FALSE
    BY <2>1, <2>4 DEF OthersDelete
  <2>5. ASSUME store' = store PROVE FALSE
    BY <2>5
  <2>6. \A w \in Version : BeginPublish(w) => store' = store
    BY DEF BeginPublish
  <2>7. \A w, u \in Version : BeginPromote(w, u) => store' = store
    BY DEF BeginPromote
  <2>8. \A s \in Source : Origin(s) => store' = store
    BY DEF Origin
  <2>9. Built => store' = store
    BY DEF Built
  <2> QED
    BY <2>2, <2>3, <2>4, <2>5, <2>6, <2>7, <2>8, <2>9 DEF Next
<1> HIDE DEF Step
<1>2. [][Step]_vars => UpstreamIsAsRead
  BY DEF Step, UpstreamIsAsRead
<1> QED
  BY <1>1, <1>2, InvariantHolds, PTL DEF Spec

\* The closed form of the cut is what the code's recursion over the levels
\* computes: with no level to stay there is only the document itself, and
\* with some each upstream document is cut with one level less
\* (PruneUpstreamProvenance).  What is at each path follows from these.
THEOREM CutByLevels ==
  ASSUME NEW doc, WellFormed(doc), IsDoc(doc), NEW remaining \in Int
  PROVE  LET new == PruneUpstreamProvenance(doc, remaining) IN
         /\ remaining <= 0 =>
              /\ DOMAIN new = {<<>>}
              /\ new[<<>>] = [doc[<<>>] EXCEPT !.status =
                                [s \in Source |-> IF s \in Upstreams(doc)
                                                    THEN "depth-truncated" ELSE @[s]]]
         /\ remaining > 0 => /\ new[<<>>] = doc[<<>>]
                             /\ \A s \in Source :
                                  Upstream(new, s)
                                    = PruneUpstreamProvenance(Upstream(doc, s), remaining - 1)
<1> DEFINE new == PruneUpstreamProvenance(doc, remaining)
           kept == Kept(doc, remaining)
           mark(d, k, p) == [s \in Source |-> IF Append(p, s) \in DOMAIN d \ k
                                                THEN "depth-truncated" ELSE d[p].status[s]]
<1>1. /\ DOMAIN doc \subseteq Paths /\ <<>> \in DOMAIN doc
      /\ \A p \in DOMAIN doc : doc[p] \in Record
  BY DEF WellFormed, IsDoc, Paths
<1>2. /\ DOMAIN new = kept
      /\ \A p \in kept : new[p] = [doc[p] EXCEPT !.status = mark(doc, kept, p)]
  BY DEF PruneUpstreamProvenance
<1>3. \A p \in DOMAIN doc : Len(p) \in Nat /\ (p # <<>> => Len(p) > 0)
  BY <1>1, ShortPaths
<1>4. ASSUME remaining <= 0
      PROVE  /\ DOMAIN new = {<<>>}
             /\ new[<<>>] = [doc[<<>>] EXCEPT !.status =
                               [s \in Source |-> IF s \in Upstreams(doc)
                                                   THEN "depth-truncated" ELSE @[s]]]
  <2>1. kept = {p \in DOMAIN doc : Len(p) =< 0}
    BY <1>4 DEF Kept
  <2>2. kept = {<<>>}
    BY <1>1, <1>3, <2>1, ShortPaths
  <2>3. ASSUME NEW s \in Source
        PROVE  Append(<<>>, s) \in DOMAIN doc \ kept <=> s \in Upstreams(doc)
    <3>1. Append(<<>>, s) = <<s>> /\ <<s>> # <<>>
      BY ShortPaths, BelowIs
    <3> HIDE DEF kept
    <3> QED
      BY <2>2, <3>1 DEF Upstreams
  <2>4. mark(doc, kept, <<>>) = [s \in Source |-> IF s \in Upstreams(doc)
                                  THEN "depth-truncated" ELSE doc[<<>>].status[s]]
    <3> HIDE DEF kept
    <3> QED
      BY <2>3
  <2>5. DOMAIN new = {<<>>}
    <3> HIDE DEF new, kept
    <3> QED
      BY <1>2, <2>2
  <2>6. new[<<>>] = [doc[<<>>] EXCEPT !.status = mark(doc, kept, <<>>)]
    <3> HIDE DEF new, kept, mark
    <3> QED
      BY <1>2, <2>2
  <2> HIDE DEF new, kept, mark
  <2> QED
    BY <2>4, <2>5, <2>6
<1>5. ASSUME remaining > 0, NEW s \in Source
      PROVE  Upstream(new, s) = PruneUpstreamProvenance(Upstream(doc, s), remaining - 1)
  <2> DEFINE up == Upstream(doc, s)
             less == Kept(up, remaining - 1)
  <2>1. kept = {p \in DOMAIN doc : Len(p) =< remaining} /\ kept \subseteq Paths
    BY <1>1, <1>5 DEF Kept
  <2>2. /\ DOMAIN up = {q \in Paths : Below(s, q) \in DOMAIN doc}
        /\ \A q \in DOMAIN up : up[q] = doc[Below(s, q)]
    BY <1>1, UpstreamIs
  <2>3. /\ DOMAIN Upstream(new, s) = {q \in Paths : Below(s, q) \in kept}
        /\ \A q \in DOMAIN Upstream(new, s) : Upstream(new, s)[q] = new[Below(s, q)]
    <3>1. DOMAIN new = kept /\ DOMAIN new \subseteq Paths
      BY <1>2, <2>1
    <3> HIDE DEF new, kept
    <3> QED
      BY <3>1, UpstreamIs
  <2>4. less = {q \in DOMAIN up : Len(q) =< remaining - 1}
    <3>1. (IF remaining - 1 > 0 THEN remaining - 1 ELSE 0) = remaining - 1
      BY <1>5
    <3> QED
      BY <3>1 DEF Kept
  <2>5. \A q \in Paths : Len(q) \in Nat /\ Len(Below(s, q)) = Len(q) + 1
    BY ShortPaths, BelowIs
  <2>6. \A q \in Paths : q \in less <=> Below(s, q) \in kept
    <3> SUFFICES ASSUME NEW q \in Paths PROVE q \in less <=> Below(s, q) \in kept
      OBVIOUS
    <3>1. Len(q) \in Nat /\ Len(Below(s, q)) = Len(q) + 1
      BY <2>5
    <3>2. Len(q) =< remaining - 1 <=> Len(Below(s, q)) =< remaining
      BY <3>1
    <3>3. q \in DOMAIN up <=> Below(s, q) \in DOMAIN doc
      BY <2>2
    <3> HIDE DEF less, kept, up
    <3> QED
      BY <2>1, <2>4, <3>2, <3>3
  <2>7. DOMAIN Upstream(new, s) = less
    <3>1. less \subseteq Paths
      BY <2>2, <2>4
    <3> HIDE DEF less, kept, up, new
    <3> QED
      BY <2>3, <2>6, <3>1
  <2>8. ASSUME NEW q \in less
        PROVE  Upstream(new, s)[q] = [up[q] EXCEPT !.status = mark(up, less, q)]
    <3>1. q \in Paths /\ Below(s, q) \in kept /\ up[q] = doc[Below(s, q)]
      <4> HIDE DEF kept, up
      <4> QED
        BY <2>2, <2>4, <2>6, <2>8
    <3>2. Upstream(new, s)[q] = [doc[Below(s, q)] EXCEPT !.status = mark(doc, kept, Below(s, q))]
      <4> HIDE DEF kept, mark, new, less
      <4> QED
        BY <1>2, <2>3, <2>7, <2>8, <3>1
    <3>3. mark(doc, kept, Below(s, q)) = mark(up, less, q)
      <4>1. ASSUME NEW t \in Source
            PROVE  Append(Below(s, q), t) \in DOMAIN doc \ kept
                     <=> Append(q, t) \in DOMAIN up \ less
        <5>1. Append(Below(s, q), t) = Below(s, Append(q, t)) /\ Append(q, t) \in Paths
          BY <3>1, BelowAppend
        <5> HIDE DEF kept, up, less
        <5> QED
          BY <2>2, <2>6, <5>1
      <4> HIDE DEF kept, up, less
      <4> QED
        BY <3>1, <4>1
    <3> HIDE DEF kept, up, less, mark, new
    <3> QED
      BY <3>1, <3>2, <3>3
  <2>9. /\ Upstream(new, s) = [q \in less |-> Upstream(new, s)[q]]
    <3>1. Upstream(new, s) = [q \in DOMAIN Upstream(new, s) |-> Upstream(new, s)[q]]
      BY DEF Upstream
    <3> HIDE DEF new, less
    <3> QED
      BY <2>7, <3>1
  <2>10. PruneUpstreamProvenance(up, remaining - 1)
           = [q \in less |-> [up[q] EXCEPT !.status = mark(up, less, q)]]
    BY DEF PruneUpstreamProvenance
  <2> HIDE DEF new, less, up, mark
  <2>11. Upstream(new, s) = PruneUpstreamProvenance(up, remaining - 1)
    BY <2>8, <2>9, <2>10
  <2> QED
    BY <2>11 DEF up
<1>6. ASSUME remaining > 0 PROVE new[<<>>] = doc[<<>>]
  <2>1. kept = {p \in DOMAIN doc : Len(p) =< remaining} /\ <<>> \in kept
    BY <1>1, <1>6, ShortPaths DEF Kept
  <2>2. ASSUME NEW s \in Source PROVE Append(<<>>, s) \notin DOMAIN doc \ kept
    <3>1. Append(<<>>, s) = Below(s, <<>>) /\ Len(Below(s, <<>>)) = Len(<<>>) + 1 /\ Len(<<>>) = 0
      BY ShortPaths, BelowIs
    <3>2. Len(Append(<<>>, s)) =< remaining
      BY <1>6, <3>1
    <3> QED
      BY <2>1, <3>2
  <2>3. mark(doc, kept, <<>>) = doc[<<>>].status
    <3>1. doc[<<>>].status \in [Source -> Status]
      BY <1>1 DEF Record
    <3> HIDE DEF kept
    <3> QED
      BY <2>2, <3>1
  <2>4. doc[<<>>] = [doc[<<>>] EXCEPT !.status = doc[<<>>].status]
    BY <1>1 DEF Record
  <2> HIDE DEF kept, mark, new
  <2> QED
    BY <1>2, <2>1, <2>3, <2>4
<1> QED
  BY <1>4, <1>5, <1>6
=============================================================================
