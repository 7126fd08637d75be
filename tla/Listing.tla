------------------------------- MODULE Listing -------------------------------
(***************************************************************************)
(* cob ls and cob log --check-references: a listing read page by page, or  *)
(* the references found in a document, and for most kinds one more lookup  *)
(* per item, fanned out by ForEach.  Items are the entries of one level    *)
(* below a container: the packages of a repository, the versions of a      *)
(* package, the repositories that may hold a version.                      *)
(***************************************************************************)
EXTENDS ReadContext

CONSTANTS
  Container,   \* what the listing is of
  MaxPages,    \* maxPaginationIterations
  Malformed    \* references that are no "domain/repo"

\* What is printed for an item; a slot that was never written is none of it.
Answers == {"listed", "latest", "filled", "zero", "present", "-", "?", "(?)", "(deleted)"}

ASSUME ListingAssumption ==
  /\ Hole \notin Answers
  /\ Container \in Entry \cup {<<>>}
  /\ MaxPages \in Nat \ {0}
  /\ Malformed \subseteq Children(Container)

VARIABLES
  kind,    \* what is listed
  stage,   \* "start" | "page" | "lookup" | "done"
  got,     \* the items so far
  pages,   \* pages that came with a token
  rows     \* what is printed for each item

listing == <<kind, stage, got, pages, rows>>

-----------------------------------------------------------------------------
Item == Children(Container)

Kinds == {"domains", "repos", "packages", "versions", "assets", "promotion", "references"}

\* The kinds whose paging takes NotFound for an empty listing.
EmptyIfGone == {"versions", "assets"}

\* The kinds without a lookup per item.
Flat == {"domains", "repos", "assets"}

\* What the pages hold: for the promotion table all the repositories, which
\* stay, and for the others what is there.
Pageable == IF kind = "promotion" THEN Item ELSE there \cap Item
MustPage == IF kind = "promotion" THEN Item ELSE stable \cap Item

ListInit ==
  /\ kind \in Kinds
  /\ stage = IF kind = "references" THEN "start" ELSE "page"
  /\ got = {}
  /\ pages = 0
  /\ rows = <<>>

\* The command ends with rows and a code.
EndWith(r, code) ==
  /\ stage' = "done"
  /\ rows' = r
  /\ exit' = code
  /\ UNCHANGED <<kind, got, pages, cmd, cancelled, world>>

NoRows == [i \in {} |-> Hole]

\* A page cannot be had.
PageFails == stage = "page" /\ EndWith(NoRows, "Error") /\ UNCHANGED fanOut

\* The package or the version is not there (any more): nil, whatever the
\* pages before held.
PageNotFound ==
  /\ stage = "page"
  /\ kind \in EmptyIfGone
  /\ there \cap Item = {}
  /\ EndWith(NoRows, "NotFound")
  /\ UNCHANGED fanOut

\* Mutant of PageWithToken: the pages are counted but never too many.
PageWithTokenUncapped ==
  /\ stage = "page"
  /\ \E S \in SUBSET (Pageable \ got) : got' = got \cup S
  /\ pages' = IF pages + 1 < MaxPages THEN pages + 1 ELSE 0
  /\ UNCHANGED <<kind, stage, rows, cmd, cancelled, exit, world, fanOut>>

\* A page with a token, empty or not; one too many is an error.
PageWithToken ==
  /\ stage = "page"
  /\ IF pages + 1 >= MaxPages
       THEN EndWith(NoRows, "Error")
       ELSE /\ \E S \in SUBSET (Pageable \ got) : got' = got \cup S
            /\ pages' = pages + 1
            /\ UNCHANGED <<kind, stage, rows, cmd, cancelled, exit, world>>
  /\ UNCHANGED fanOut

\* The last page: flat listings end, the others look every item up.
LastPage ==
  /\ stage = "page"
  /\ \E S \in SUBSET (Pageable \ got) :
       /\ MustPage \subseteq got \cup S
       /\ got' = got \cup S
       /\ IF kind \in Flat
            THEN /\ stage' = "done"
                 /\ exit' = IF got' = {} THEN "NotFound" ELSE "OK"
                 /\ rows' = [i \in got' |-> "listed"]
                 /\ UNCHANGED fanOut
            ELSE /\ stage' = "lookup"
                 /\ Begin(got')
                 /\ UNCHANGED <<rows, exit>>
  /\ UNCHANGED <<kind, pages, cmd, cancelled, world>>

\* cob log: the document cannot be read, there is none, or it is printed
\* without a look at the references.
NoProbe ==
  /\ stage = "start"
  /\ \E code \in {"Error", "OK"} : EndWith(NoRows, code)
  /\ UNCHANGED fanOut

\* cob log --check-references: the references of the chain, once each.
ProbeChainReferences ==
  /\ stage = "start"
  /\ \E refs \in SUBSET Item :
       /\ got' = refs
       /\ Begin(refs)
  /\ stage' = "lookup"
  /\ UNCHANGED <<kind, pages, rows, cmd, cancelled, exit, world>>

\* The loop of ForEach.
LookupCheck ==
  /\ stage = "lookup"
  /\ CheckContext(cancelled)
  /\ UNCHANGED <<listing, cmd, cancelled, exit, world>>

LookupAcquire ==
  /\ stage = "lookup"
  /\ \E i \in todo : Acquire(i)
  /\ UNCHANGED <<listing, cmd, cancelled, exit, world>>

\* Mutant of Answer: a lookup that failed is taken for one that found nothing.
AnswerOrAbsent(i, failed) ==
  CASE kind = "packages"   -> IF failed THEN "?" ELSE IF i \in there THEN "latest" ELSE "-"
    [] kind = "versions"   -> IF failed \/ i \notin there THEN "zero" ELSE "filled"
    [] kind = "promotion"  -> IF failed \/ i \notin there THEN "-" ELSE "present"
    [] kind = "references" -> IF i \in Malformed THEN "(?)"
                              ELSE IF failed \/ i \notin there THEN "(deleted)" ELSE "present"

\* What the lookup of i leaves in its slot.
Answer(i, failed) ==
  CASE kind = "packages"   -> IF failed THEN "?" ELSE IF i \in there THEN "latest" ELSE "-"
    [] kind = "versions"   -> IF failed \/ i \notin there THEN "zero" ELSE "filled"
    [] kind = "promotion"  -> IF failed THEN "?" ELSE IF i \in there THEN "present" ELSE "-"
    [] kind = "references" -> IF i \in Malformed \/ failed THEN "(?)"
                              ELSE IF i \in there THEN "present" ELSE "(deleted)"

\* One lookup.  The listings' own lookups look at the context first.
Lookup ==
  /\ stage = "lookup"
  /\ \E i \in busy, failed \in BOOLEAN :
       /\ (cancelled /\ kind \in {"packages", "versions"}) => failed
       /\ Finish(i, Answer(i, failed))
  /\ UNCHANGED <<listing, cmd, cancelled, exit, world>>

\* Mutant of LookupsExit: a cancelled context is not reported.
LookupsExitBlind ==
  IF got = {} /\ kind \in {"packages", "versions"} THEN "NotFound" ELSE "OK"

\* How a listing with lookups ends: populatePackageMeta and
\* populateVersionMeta return ctx.Err(), the probes do not.
LookupsExit ==
  IF kind \in {"packages", "versions"}
    THEN IF cancelled THEN "Error" ELSE IF got = {} THEN "NotFound" ELSE "OK"
    ELSE "OK"

\* wg.Wait returns and the rows are printed.
LookupsReturned ==
  /\ stage = "lookup"
  /\ Drained
  /\ EndWith(IF LookupsExit = "OK" THEN slot ELSE NoRows, LookupsExit)
  /\ Done

ListStep ==
  /\ cmd = "list"
  /\ exit = "running"
  /\ \/ PageFails \/ PageNotFound \/ PageWithToken \/ LastPage
     \/ NoProbe \/ ProbeChainReferences
     \/ LookupCheck \/ LookupAcquire \/ Lookup \/ LookupsReturned

-----------------------------------------------------------------------------
ListingTypeOK ==
  /\ kind \in Kinds
  /\ stage \in {"start", "page", "lookup", "done"}
  /\ got \subseteq Item
  /\ pages \in 0 .. MaxPages
  /\ DOMAIN rows \subseteq got

\* A listing that ends with OK shows everything that was there throughout,
\* in a row of its own, and nothing that never was: pages, lookups that
\* fail, cancellation and what others add and delete meanwhile cost at most
\* the columns of a row, or the exit code.  For the promotion table and the
\* references, which do not report a cancelled context, only while it was not.
ListingIsWhole ==
  (cmd = "list" /\ exit = "OK" /\ rows # NoRows) =>
    /\ kind \notin {"promotion", "references"} =>
         /\ stable \cap Item \subseteq DOMAIN rows
         /\ DOMAIN rows \subseteq ever
    /\ (kind \in {"packages", "versions"} \/ ~ cancelled) => \A i \in DOMAIN rows : rows[i] # Hole

\* Absence is never made up: "-" in a table, "(deleted)" in a chain and exit
\* code 2 mean that a lookup found the item gone, and neither that one
\* failed nor that it was never made.
AbsenceIsReal ==
  (cmd = "list" /\ exit # "running") =>
    /\ \A i \in DOMAIN rows : rows[i] \in {"-", "(deleted)"} => i \notin stable
    /\ exit = "NotFound" => stable \cap Item = {}
=============================================================================
