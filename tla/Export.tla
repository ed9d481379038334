------------------------------- MODULE Export -------------------------------
(***************************************************************************)
(* Reading a table page by page while it changes: the export and listing   *)
(* of leads, one lead by its id, and the listing of jobs                   *)
(* (src/app/repositories/leads.py, src/app/repositories/jobs.py,           *)
(* src/app/exports, src/app/api/routes.py, src/app/cli.py).                *)
(*                                                                         *)
(* "rows" is the table that is read.  Every statement of a reader sees     *)
(* what is committed when it runs (READ COMMITTED), also within the one    *)
(* session of an export.  Ids come from a sequence when a row is inserted, *)
(* so that rows become visible in another order than that of their ids,    *)
(* and a rollback leaves a gap.  Readers do not touch what others read:    *)
(* one reader is enough.                                                   *)
(***************************************************************************)
EXTENDS Integers, Sequences, FiniteSets

CONSTANTS
    Names,               \* source names
    Places,              \* values of a filtered column: country, city, status
    None,                \* no value, and no limit on it
    Writers,             \* transactions that insert rows
    MaxId,               \* bound: ids given out
    MaxChanges,          \* bound: rows rebuilt or deleted
    Samples,             \* bound: the contents that rows are given
    Filters,             \* bound: the filters that are asked for
    Limits,              \* bound: values of the query parameter "limit", or None
    Cursors,             \* bound: cursors of earlier listings that are followed
    DEFAULT_PAGE_SIZE, MAX_PAGE_SIZE,
    BATCH_SIZE           \* rows an export fetches at once, 500

ASSUME NoneAssumption == None \notin Names \cup Places \cup Writers \cup Nat
ASSUME SizesAssumption == /\ MaxId \in Nat /\ MaxChanges \in Nat
                          /\ DEFAULT_PAGE_SIZE \in Nat \ {0} /\ MAX_PAGE_SIZE \in Nat \ {0}
                          /\ BATCH_SIZE \in Nat \ {0}

Ids == 1..MaxId
Contents == [place : Places \cup {None}, sources : SUBSET Names]
Filter == [place : Places \cup {None}, source : Names \cup {None}]

ASSUME RequestsAssumption == /\ Samples \subseteq Contents
                             /\ Filters \subseteq Filter
                             /\ Limits \subseteq Nat \cup {None}
                             /\ Cursors \subseteq Ids

VARIABLES
    rows,       \* rows[i]: state, the transaction that inserted it, and its contents
    lastId,     \* the sequence
    changes,    \* rows rebuilt or deleted so far
    pc,         \* "idle", "counting", "paging", "yielding", "done", "missing" or "broken"
    query,      \* what the reader asked for
    cursor,     \* after_id, or before_id: the last row given
    batch,      \* rows fetched and not yet given
    full,       \* the last page had as many rows as were asked for
    out,        \* what the reader was given
    total,      \* the count of the command line
    \* History of the read in progress:
    stays,      \* ids that were asked for, visible and matching ever since it began
    versions,   \* every committed version of a row since it began
    quiet       \* nothing was committed since it began

table == <<rows, lastId, changes>>
reader == <<pc, query, cursor, batch, full, out, total>>
history == <<stays, versions, quiet>>
vars == <<table, reader, history>>

Nothing == [place |-> None, sources |-> {}]
Row == [state : {"free", "open", "live", "gone"}, writer : Writers \cup {None}, data : Contents]
Query == [kind : {"export", "cli", "leads", "jobs", "detail"}, filter : Filter,
          limit : Nat \ {0}, start : 0..(MaxId + 1)]
Given == [id : Ids, data : Contents]

NoFilter == [place |-> None, source |-> None]
NoQuery == [kind |-> "leads", filter |-> NoFilter, limit |-> 1, start |-> 0]

TypeOK ==
    /\ rows \in [Ids -> Row]
    /\ lastId \in 0..MaxId
    /\ changes \in 0..MaxChanges
    /\ pc \in {"idle", "counting", "paging", "yielding", "done", "missing", "broken"}
    /\ query \in Query
    /\ cursor \in 0..(MaxId + 1)
    /\ batch \in SUBSET Given
    /\ full \in BOOLEAN
    /\ out \in Seq(Given)
    /\ total \in Nat
    /\ stays \in SUBSET Ids
    /\ versions \in SUBSET Given
    /\ quiet \in BOOLEAN

-----------------------------------------------------------------------------
(***************************************************************************)
(* Statements.                                                             *)
(***************************************************************************)
\* _conditions: a filter that is not given excludes nothing.
Matches(filter, data) ==
    /\ filter.place # None => data.place = filter.place
    /\ filter.source # None => filter.source \in data.sources

HitsOfAnySource(filter) ==           \* mutated: the filter on the source is forgotten
    {i \in Ids : rows[i].state = "live" /\ Matches([filter EXCEPT !.source = None], rows[i].data)}

\* The rows a query would show, were it not for cursors and limits.
Hits(filter) == {i \in Ids : rows[i].state = "live" /\ Matches(filter, rows[i].data)}

\* Leads are listed upwards, jobs downwards from the newest.
Before(kind, i, j) == IF kind = "jobs" THEN i > j ELSE i < j

\* ORDER BY id LIMIT n.
FirstOf(S, kind, n) ==
    {B \in SUBSET S : /\ Cardinality(B) <= n
                      /\ Cardinality(B) < n => B = S
                      /\ \A i \in B, j \in S \ B : Before(kind, i, j)}

\* The cursor that excludes nothing: after_id 0, or no before_id.
Start(kind) == IF kind = "jobs" THEN MaxId + 1 ELSE 0

PageSizeUnchecked(limit) ==          \* mutated: a limit of 0 is let through
    IF limit = None THEN DEFAULT_PAGE_SIZE
    ELSE IF limit < MAX_PAGE_SIZE THEN limit ELSE MAX_PAGE_SIZE

\* page_size: None if it answers 422.
PageSize(limit) ==
    IF limit = None THEN DEFAULT_PAGE_SIZE
    ELSE IF limit < 1 THEN None
    ELSE IF limit < MAX_PAGE_SIZE THEN limit ELSE MAX_PAGE_SIZE

-----------------------------------------------------------------------------
(***************************************************************************)
(* The table.  A collection inserts leads and commits them at its end; what *)
(* it rebuilds is seen row by row here, which allows more than the code.   *)
(***************************************************************************)
\* What a commit of new rows does to the history of a read.
Committed ==
    /\ quiet' = FALSE
    /\ versions' = versions \cup
           {[id |-> i, data |-> rows'[i].data] : i \in {j \in Ids : rows'[j].state = "live"}}
    /\ stays' = {i \in stays : rows'[i].state = "live" /\ Matches(query.filter, rows'[i].data)}

\* create: the flush takes the id, nobody else sees the row.
Insert(w) ==
    /\ lastId < MaxId
    /\ lastId' = lastId + 1
    /\ \E data \in Samples :
           rows' = [rows EXCEPT ![lastId + 1] = [state |-> "open", writer |-> w, data |-> data]]
    /\ UNCHANGED <<changes, reader, history>>

Settle(w, state) ==
    rows' = [i \in Ids |-> IF rows[i].state = "open" /\ rows[i].writer = w
                           THEN [rows[i] EXCEPT !.state = state, !.writer = None] ELSE rows[i]]

Writes(w) == \E i \in Ids : rows[i].state = "open" /\ rows[i].writer = w

Commit(w) ==
    /\ Writes(w)
    /\ Settle(w, "live")
    /\ Committed
    /\ UNCHANGED <<lastId, changes, reader>>

Rollback(w) ==
    /\ Writes(w)
    /\ Settle(w, "gone")
    /\ UNCHANGED <<lastId, changes, reader, history>>

\* A lead is rebuilt, or loses or gains a record; a job changes its status.
Rebuild(i) ==
    /\ rows[i].state = "live"
    /\ changes < MaxChanges
    /\ changes' = changes + 1
    /\ \E data \in Samples \ {rows[i].data} : rows' = [rows EXCEPT ![i].data = data]
    /\ Committed
    /\ UNCHANGED <<lastId, reader>>

\* delete_lead, purge.
Delete(i) ==
    /\ rows[i].state = "live"
    /\ changes < MaxChanges
    /\ changes' = changes + 1
    /\ rows' = [rows EXCEPT ![i] = [state |-> "gone", writer |-> None, data |-> Nothing]]
    /\ Committed
    /\ UNCHANGED <<lastId, reader>>

-----------------------------------------------------------------------------
(***************************************************************************)
(* The reader.                                                             *)
(***************************************************************************)
Begin(kind, filter, limit, start) ==
    /\ pc = "idle"
    /\ pc' = IF kind = "cli" THEN "counting" ELSE "paging"
    /\ query' = [kind |-> kind, filter |-> filter, limit |-> limit, start |-> start]
    /\ cursor' = start
    /\ stays' = {i \in Hits(filter) : Before(kind, start, i) /\ (kind = "detail" => i = start + 1)}
    /\ versions' = {[id |-> i, data |-> rows[i].data] : i \in {j \in Ids : rows[j].state = "live"}}
    /\ quiet' = TRUE
    /\ UNCHANGED <<table, batch, full, out, total>>

\* GET /api/leads with the cursor of any earlier listing, /api/jobs likewise.
ListLeads ==
    \E filter \in Filters, limit \in Limits, start \in Cursors \cup {Start("leads")} :
        /\ PageSize(limit) # None
        /\ Begin("leads", filter, PageSize(limit), start)

ListJobs ==
    \E filter \in Filters, limit \in Limits, start \in Cursors \cup {Start("jobs")} :
        /\ PageSize(limit) # None
        /\ Begin("jobs", filter, PageSize(limit), start)

\* GET /api/export, in a session of its own.
StreamExport == \E filter \in Filters : Begin("export", filter, BATCH_SIZE, Start("export"))

\* leadpipe export: counts first.
CliExport == \E filter \in Filters : Begin("cli", filter, BATCH_SIZE, Start("cli"))

\* GET /api/leads/{id}: the page of one row after the id before.
GetLead == \E i \in Ids : Begin("detail", NoFilter, 1, i - 1)

CountAll ==                          \* mutated: the filter is forgotten
    /\ pc = "counting"
    /\ pc' = "paging"
    /\ total' = Cardinality(Hits(NoFilter))
    /\ UNCHANGED <<table, query, cursor, batch, full, out, history>>

Count ==
    /\ pc = "counting"
    /\ pc' = "paging"
    /\ total' = Cardinality(Hits(query.filter))
    /\ UNCHANGED <<table, query, cursor, batch, full, out, history>>

Fetched(B) == {[id |-> i, data |-> rows[i].data] : i \in B}

Fetch ==
    /\ pc = "paging"
    /\ \E B \in FirstOf({i \in Hits(query.filter) : Before(query.kind, cursor, i)},
                        query.kind, query.limit) :
           /\ batch' = Fetched(B)
           /\ full' = (Cardinality(B) = query.limit)
           /\ pc' = IF query.kind = "detail" /\ query.start + 1 \notin B THEN "missing"
                    ELSE IF B = {} THEN "done" ELSE "yielding"
    /\ UNCHANGED <<table, query, cursor, out, total, history>>

AfterRowOnePage(rest) ==             \* mutated: a full page is taken for the last
    IF rest # {} THEN "yielding" ELSE "done"

\* iter_export after a row: the next row of the page, another page if this one
\* was full, or the end.
AfterRow(rest) ==
    IF rest # {} THEN "yielding"
    ELSE IF full /\ query.kind # "detail" THEN "paging"
    ELSE "done"

YieldKeepsCursor ==                  \* mutated: the cursor stays where the page began
    /\ pc = "yielding"
    /\ \E row \in batch :
           /\ \A other \in batch \ {row} : Before(query.kind, row.id, other.id)
           /\ out' = Append(out, row)
           /\ batch' = batch \ {row}
           /\ pc' = AfterRow(batch \ {row})
    /\ UNCHANGED <<table, query, cursor, full, total, history>>

\* A row goes into the text, or into the answer.
Yield ==
    /\ pc = "yielding"
    /\ \E row \in batch :
           /\ \A other \in batch \ {row} : Before(query.kind, row.id, other.id)
           /\ out' = Append(out, row)
           /\ cursor' = row.id
           /\ batch' = batch \ {row}
           /\ pc' = AfterRow(batch \ {row})
    /\ UNCHANGED <<table, query, full, total, history>>

\* The client goes away, or a statement fails in the middle of the stream.
Break ==
    /\ pc \in {"counting", "paging", "yielding"}
    /\ pc' = "broken"
    /\ UNCHANGED <<table, query, cursor, batch, full, out, total, history>>

-----------------------------------------------------------------------------
Init ==
    /\ rows = [i \in Ids |-> [state |-> "free", writer |-> None, data |-> Nothing]]
    /\ lastId = 0
    /\ changes = 0
    /\ pc = "idle"
    /\ query = NoQuery
    /\ cursor = 0
    /\ batch = {}
    /\ full = FALSE
    /\ out = <<>>
    /\ total = 0
    /\ stays = {}
    /\ versions = {}
    /\ quiet = FALSE

Write ==
    \/ \E w \in Writers : Insert(w) \/ Commit(w) \/ Rollback(w)
    \/ \E i \in Ids : Rebuild(i) \/ Delete(i)

Read == ListLeads \/ ListJobs \/ StreamExport \/ CliExport \/ GetLead
            \/ Count \/ Fetch \/ Yield \/ Break

\* Bound: the table is left alone once the read is over, since no property
\* looks at it any more.
Next == (pc \notin {"done", "missing", "broken"} /\ Write) \/ Read

Spec == Init /\ [][Next]_vars

-----------------------------------------------------------------------------
(***************************************************************************)
(* Properties.                                                             *)
(***************************************************************************)
\* A row is given at most once and in the order of the listing, whatever is
\* inserted, committed late, rebuilt or deleted between two pages.
GivenInOrder ==
    \A j, k \in 1..Len(out) : j < k => Before(query.kind, out[j].id, out[k].id)

\* A read that came to its end has given every row that was there to be found
\* from the beginning to the end of it, over all pages, with gaps between ids,
\* with rows that appear behind the cursor and with others that vanish.
NothingMissed ==
    /\ pc = "done" => stays \subseteq {out[k].id : k \in 1..Len(out)}
    /\ pc = "missing" => query.start + 1 \notin stays

\* What was deleted before a read began, or was never committed, is not in it;
\* and each row is given as one commit left it, matching the filter.
OnlyWhatWasThere ==
    \A k \in 1..Len(out) : out[k] \in versions /\ Matches(query.filter, out[k].data)

\* "Wrote N leads": the number counted before the first page is the number of
\* rows written, as long as nobody commits in between.
CountExact == pc = "done" /\ query.kind = "cli" /\ quiet => total = Len(out)
=============================================================================
