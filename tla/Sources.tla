------------------------------ MODULE Sources ------------------------------
(***************************************************************************)
(* One collection by a source adapter: the pages it walks, the items it    *)
(* yields and what ends it (src/app/sources: HtmlSource.collect,           *)
(* ApiSource.collect, CsvSource.collect).                                  *)
(*                                                                         *)
(* Pages are numbers, page 1 the configured one, and the site does not     *)
(* change.  An item is <<page, position>>, whether it is yielded as a      *)
(* record or as a RecordError.  A csv file is a site of one page.          *)
(***************************************************************************)
EXTENDS Integers, Sequences, SequencesExt

CONSTANTS NPages, MaxPerPage,  \* size of a site
          MaxItems             \* largest max_items

ASSUME SiteAssumption ==
    NPages \in Nat \ {0} /\ MaxPerPage \in Nat /\ MaxItems \in Nat

Pages == 1..NPages
NoPage == 0

\* max_items = 0: no limit.
Options == [kind : {"html", "api", "csv"}, paging : {"link", "param", "none"},
            max_pages : 0..NPages, max_items : 0..MaxItems]

\* What each adapter can be configured to do.
Configured(o) ==
    CASE o.kind = "html" -> o.paging # "param"
      [] o.kind = "api" -> o.max_items = 0
      [] OTHER -> o.paging = "none" /\ o.max_pages = 1 /\ o.max_items = 0

Sites == [Pages -> [items : 0..MaxPerPage, next : Pages \cup {NoPage}]]

VARIABLES
    options, site,
    pc,        \* "page" (head of the page loop), "loading", "items", "detail",
               \* "ended" (collect has returned) or "failed" (it has raised)
    url, seen, \* page to load next, or being read; pages loaded
    left,      \* turns the page loop has left
    position,  \* items of the page that were yielded
    yielded    \* items yielded

vars == <<options, site, pc, url, seen, left, position, yielded>>

Init ==
    /\ options \in {o \in Options : Configured(o)}
    /\ site \in {s \in Sites : options.paging = "link" \/ \A p \in Pages : s[p].next = NoPage}
    /\ pc = "page"
    /\ url = 1
    /\ seen = {}
    /\ left = options.max_pages
    /\ position = 0
    /\ yielded = <<>>

\* _next_url: the next link, or the next number while pages are not empty.  A
\* source with both options follows links; page 1 is then its url with the
\* parameter.
NextUrl(p) ==
    CASE options.paging = "link" -> site[p].next
      [] options.paging = "param" -> IF site[p].items > 0 THEN p + 1 ELSE NoPage
      [] OTHER -> NoPage

TurnEndless ==                   \* mutated: a page may come again, as often as it likes
    /\ pc = "page"
    /\ IF url = NoPage \/ left = 0
       THEN pc' = "ended" /\ UNCHANGED <<seen, left, position>>
       ELSE /\ pc' = "loading"
            /\ seen' = seen \cup {url}
            /\ left' = IF url \in seen THEN left ELSE left - 1
            /\ position' = 0
    /\ UNCHANGED <<options, site, url, yielded>>

\* Head of the page loop.
Turn ==
    /\ pc = "page"
    /\ IF left = 0 \/ url = NoPage \/ url \in seen
       THEN pc' = "ended" /\ UNCHANGED <<seen, left, position>>
       ELSE /\ pc' = "loading"
            /\ seen' = seen \cup {url}
            /\ left' = left - 1
            /\ position' = 0
    /\ UNCHANGED <<options, site, url, yielded>>

Load ==
    /\ pc = "loading"
    /\ pc' = "items"
    /\ UNCHANGED <<options, site, url, seen, left, position, yielded>>

\* The page cannot be fetched, or what it answers is no list of items; the csv
\* file is missing or lacks a column.
LoadFails ==
    /\ pc = "loading"
    /\ pc' = "failed"
    /\ UNCHANGED <<options, site, url, seen, left, position, yielded>>

YieldOneMore ==                  \* mutated: one item more than max_items
    /\ yielded' = Append(yielded, <<url, position + 1>>)
    /\ position' = position + 1
    /\ pc' = IF options.max_items # 0 /\ Len(yielded) >= options.max_items
             THEN "ended" ELSE "items"

\* An item is yielded; a limit on items ends the collection.
Yield ==
    /\ yielded' = Append(yielded, <<url, position + 1>>)
    /\ position' = position + 1
    /\ pc' = IF options.max_items # 0 /\ Len(yielded') >= options.max_items
             THEN "ended" ELSE "items"

\* An item without a detail page.
Item ==
    /\ pc = "items" /\ position < site[url].items
    /\ Yield
    /\ UNCHANGED <<options, site, url, seen, left>>

AskDetail ==
    /\ pc = "items" /\ position < site[url].items
    /\ options.kind = "html"
    /\ pc' = "detail"
    /\ UNCHANGED <<options, site, url, seen, left, position, yielded>>

\* Whether it could be loaded or not, the item is yielded.
Detail ==
    /\ pc = "detail"
    /\ Yield
    /\ UNCHANGED <<options, site, url, seen, left>>

PageRead ==
    /\ pc = "items" /\ position = site[url].items
    /\ pc' = "page"
    /\ url' = NextUrl(url)
    /\ UNCHANGED <<options, site, seen, left, position, yielded>>

Next == Turn \/ Load \/ LoadFails \/ Item \/ AskDetail \/ Detail \/ PageRead

\* The consumer asks for the next item until there is none; every get ends.
Spec == Init /\ [][Next]_vars /\ WF_vars(Next)

-----------------------------------------------------------------------------
TypeOK ==
    /\ options \in Options /\ site \in Sites
    /\ pc \in {"page", "loading", "items", "detail", "ended", "failed"}
    /\ url \in 0..NPages + 1 /\ seen \subseteq Pages
    /\ left \in 0..NPages /\ position \in 0..MaxPerPage
    /\ yielded \in Seq(Pages \X (1..MaxPerPage))

\* The pages of a listing, by its links alone: from the first on, up to
\* max_pages, none of them twice.
Listing ==
    LET walk[n \in 0..options.max_pages] ==
            IF n = 0 THEN <<>>
            ELSE LET before == walk[n - 1]
                     p == IF n = 1 THEN 1
                          ELSE IF Len(before) < n - 1 THEN NoPage ELSE NextUrl(Last(before))
                 IN  IF p = NoPage \/ Contains(before, p) THEN before ELSE Append(before, p)
    IN  walk[options.max_pages]

ItemsOf(p) == [i \in 1..site[p].items |-> <<p, i>>]

Limited(items) ==
    IF options.max_items = 0 \/ Len(items) <= options.max_items
    THEN items ELSE SubSeq(items, 1, options.max_items)

\* "Hard stop; also guards against pagination loops", "Stop after this many
\* records" (docs/configuration.md:81,97): a collection yields the items of the
\* listing in their order, each once, up to the limits; when it ends without an
\* error none of them is missing, and when a page cannot be loaded none was made up.
CollectsListing ==
    LET wanted == Limited(FlattenSeq([i \in 1..Len(Listing) |-> ItemsOf(Listing[i])]))
    IN  /\ IsPrefix(yielded, wanted)
        /\ pc = "ended" => yielded = wanted

\* However a site links its pages, a collection ends.
CollectionEnds == <>(pc \in {"ended", "failed"})
=============================================================================
