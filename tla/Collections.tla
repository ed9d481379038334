---------------------------- MODULE Collections ----------------------------
(***************************************************************************)
(* Several collections at once, and a request that deletes a lead: the     *)
(* statements of run_collection and _ingest (src/app/pipeline/runner.py)   *)
(* and of delete_lead (src/app/api/routes.py), each in the transaction of  *)
(* its session at READ COMMITTED.                                          *)
(*                                                                         *)
(* The tables are those of LeadStore, whose operators describe here what a *)
(* session reads and computes.  What a session has written and not         *)
(* committed is kept apart, and a row that a session has written is locked *)
(* until the session ends.                                                 *)
(***************************************************************************)
EXTENDS Deduplication, Relation

CONSTANTS
    Sources, NoSource, Priority, Keys, SourceOf, Offers, OptOuts, Limit, MaxLeads, MaxTime,
    Collectors,    \* sessions that run collections
    API,           \* the session of a DELETE request
    NoKey,
    TooLong        \* values that no column of leads can hold

Sessions == Collectors \cup {API}

ASSUME SessionsAssumption == API \notin Collectors /\ NoKey \notin Keys
ASSUME TooLongAssumption == TooLong \subseteq Placeholders
ASSUME KeysAssumption == SourceOf \in [Keys -> Sources] /\ Priority \in [Sources -> Int]
ASSUME OffersAssumption == Offers \subseteq Keys \X Content
ASSUME OptOutsAssumption == OptOuts \subseteq {"email", "domain"} \X Values
ASSUME LimitAssumption == Limit \in Nat /\ MaxLeads \in Nat /\ MaxTime \in Nat

VARIABLES
    record, lead, link, suppressed,  \* committed rows, as in LeadStore
    issued,       \* sequences of ids; they survive a rollback
    now,          \* collections begun so far
    past, built,  \* history, as in LeadStore
    run,          \* run[s]: what the collection of session s is doing
    request,      \* the DELETE request
    dirty         \* dirty[s]: rows that s has written, by table

tables == <<record, lead, link, suppressed, past, built>>
vars == <<record, lead, link, suppressed, issued, now, past, built, run, request, dirty>>

LeadIds == 1..MaxLeads

-----------------------------------------------------------------------------
(***************************************************************************)
(* What a session sees: its own rows before those committed.               *)
(***************************************************************************)
\* The rows of table f over those of table g.
Over(f, g) == [x \in DOMAIN f \cup DOMAIN g |-> IF x \in DOMAIN f THEN f[x] ELSE g[x]]

\* The table with one row written.
Written(table, row, value) == Over([x \in {row} |-> value], table)

Overlaid(s) ==
    [record |-> Over(dirty[s].record, record),
     lead   |-> Over(dirty[s].lead, lead),
     link   |-> [l \in LeadIds |-> [k \in Keys |->
                    IF <<l, k>> \in DOMAIN dirty[s].link THEN dirty[s].link[<<l, k>>]
                    ELSE link[l][k]]],
     built  |-> Over(dirty[s].built, built)]

\* LeadStore on committed rows.
Committed == INSTANCE LeadStore WITH collecting <- NoSource

\* LeadStore on what collection s sees, with the suppressions it began with.
\* The record in progress has the lead_id that was loaded with it.
Loaded(s) ==
    [k \in Keys |-> IF k = run[s].item.key
                    THEN [Overlaid(s).record[k] EXCEPT !.lead = run[s].item.own]
                    ELSE Overlaid(s).record[k]]

Seen(s) == INSTANCE LeadStore WITH
    record <- Loaded(s), lead <- Overlaid(s).lead, link <- Overlaid(s).link,
    suppressed <- run[s].listed, now <- run[s].stamp, collecting <- run[s].source

NoRecord == Committed!NoRecord
NoRow == Committed!NoRow
NoLead == 0

Clean == [record |-> <<>>, lead |-> <<>>, link |-> <<>>, built |-> <<>>]

NoContent == NoRow.content

\* The local variables of _ingest; id is that of the row by_key found, 0 if none.
\* behind is history: the leads that were behind too many others in the lookup.
NoItem == [key |-> NoKey, content |-> NoContent, id |-> 0, own |-> NoLead,
           target |-> NoLead, loaded |-> NoRow, merged |-> NoRow, from |-> {}, review |-> NoLead,
           behind |-> {}]

NoRun == [pc |-> "idle", source |-> NoSource, stamp |-> 0, listed |-> {}, done |-> {},
          item |-> NoItem]

NoRequest == [pc |-> "idle", lead |-> NoLead, contacts |-> {}]

Init ==
    /\ Committed!Init
    /\ run = [s \in Collectors |-> NoRun]
    /\ request = NoRequest
    /\ dirty = [s \in Sessions |-> Clean]

Put(s, table, row, value) == dirty' = [dirty EXCEPT ![s][table] = Written(@, row, value)]

-----------------------------------------------------------------------------
(***************************************************************************)
(* Row locks.                                                              *)
(***************************************************************************)
Holders(s, table, row) == {t \in Sessions \ {s} : row \in DOMAIN dirty[t][table]}

\* Sessions whose inserted links or claims refer to lead l, which keeps it
\* from being deleted (FOR KEY SHARE), and sessions that have deleted it.
Referrers(s, l) ==
    {t \in Sessions \ {s} : \E k \in Keys :
        \/ k \in DOMAIN dirty[t].record /\ dirty[t].record[k].lead = l /\ record[k].lead # l
        \/ <<l, k>> \in DOMAIN dirty[t].link /\ link[l][k] = "none"}

Deleters(s, l) == {t \in Holders(s, "lead", l) : dirty[t].lead[l] = NoRow}

\* _apply changes a column of the lead that was loaded; otherwise the flush
\* has nothing to write.
Changes(item) == item.merged # item.loaded

\* Records that ON DELETE CASCADE still has to delete.
Orphans == {k \in Keys : record[k].lead = request.lead} \ DOMAIN dirty[API].record

\* The sessions that the next statement of s has to wait for.
Blockers(s) ==
    IF s = API
    THEN CASE request.pc = "deleting" ->
                  Holders(s, "lead", request.lead) \cup Referrers(s, request.lead)
           [] request.pc = "cascading" ->
                  UNION ({Holders(s, "record", k) : k \in Orphans}
                             \cup {Holders(s, "link", <<request.lead, k>>) : k \in Keys})
           [] OTHER -> {}
    ELSE LET item == run[s].item IN
         CASE run[s].pc = "storing" -> Holders(s, "record", item.key)
           [] run[s].pc = "applying" ->
                  IF Changes(item) THEN Holders(s, "lead", item.target) ELSE {}
           [] run[s].pc = "linking" -> Deleters(s, item.target)
           [] run[s].pc = "flagging" ->
                  Deleters(s, item.review) \cup Holders(s, "link", <<item.review, item.key>>)
           [] OTHER -> {}

Waits == [s, t \in Sessions |-> t \in Blockers(s)]

InDeadlock(s) == Blockers(s) # {} /\ TransitiveClosure(Waits, Sessions)[s, s]

-----------------------------------------------------------------------------
(***************************************************************************)
(* The end of a transaction.                                               *)
(***************************************************************************)
PublishKeepsLinks(s) ==          \* mutated: no ON DELETE CASCADE on source_record_id
    LET rows == Overlaid(s) IN
    /\ record' = rows.record
    /\ lead' = rows.lead
    /\ link' = [l \in LeadIds |-> [k \in Keys |->
                   IF lead'[l] = NoRow THEN "none" ELSE rows.link[l][k]]]
    /\ past' = [k \in Keys |-> IF record'[k] = NoRecord THEN {}
                               ELSE past[k] \cup ({record[k].lead} \ {NoLead, record'[k].lead})]
    /\ built' = [l \in LeadIds |-> IF lead'[l] = NoRow THEN {} ELSE rows.built[l]]
    /\ dirty' = [dirty EXCEPT ![s] = Clean]

\* COMMIT, with the links that a deletion cascades to.
Publish(s) ==
    LET rows == Overlaid(s) IN
    /\ record' = rows.record
    /\ lead' = rows.lead
    /\ link' = [l \in LeadIds |-> [k \in Keys |->
                   IF lead'[l] = NoRow \/ record'[k] = NoRecord THEN "none"
                   ELSE rows.link[l][k]]]
    /\ past' = [k \in Keys |-> IF record'[k] = NoRecord THEN {}
                               ELSE past[k] \cup ({record[k].lead} \ {NoLead, record'[k].lead})]
    /\ built' = [l \in LeadIds |-> IF lead'[l] = NoRow THEN {}
                                   ELSE {k \in rows.built[l] : record'[k] # NoRecord}]
    /\ dirty' = [dirty EXCEPT ![s] = Clean]

Rollback(s) == dirty' = [dirty EXCEPT ![s] = Clean] /\ UNCHANGED tables

\* A flush or a statement fails: the server rolls back, and the session
\* refuses everything until its owner does, too.
Break(s) ==
    /\ Rollback(s)
    /\ run' = [run EXCEPT ![s].pc = "broken", ![s].item = NoItem]
    /\ UNCHANGED <<issued, now, request>>

-----------------------------------------------------------------------------
(***************************************************************************)
(* A collection.                                                           *)
(***************************************************************************)
\* run_collection up to the first record: the suppressions are loaded once.
Begin(s, source) ==
    /\ run[s].pc = "idle"
    /\ now < MaxTime
    /\ now' = now + 1
    /\ run' = [run EXCEPT ![s] = [NoRun EXCEPT !.pc = "open", !.source = source,
                                               !.stamp = now', !.listed = suppressed]]
    /\ UNCHANGED <<tables, issued, request, dirty>>

\* Bound: a lead id is left for every record in progress.
Room == issued.lead + Cardinality({s \in Collectors : run[s].item # NoItem}) < MaxLeads

\* One record is delivered and not suppressed; by_key looks for it.
\* Bound: a collection delivers a key once.
Look(s, k, c) ==
    /\ run[s].pc = "open"
    /\ Room
    /\ SourceOf[k] = run[s].source /\ k \notin run[s].done
    /\ <<k, c>> \in Offers
    /\ ~Seen(s)!Blocks(c)
    /\ run' = [run EXCEPT ![s].pc = "storing",
                          ![s].done = @ \cup {k},
                          ![s].item = [NoItem EXCEPT !.key = k, !.content = c,
                                                     !.id = Overlaid(s).record[k].id,
                                                     !.own = Seen(s)!Own(k)]]
    /\ UNCHANGED <<tables, issued, now, request, dirty>>

Step(s, from, to) ==
    /\ run[s].pc = from
    /\ run' = [run EXCEPT ![s].pc = to]
    /\ UNCHANGED <<tables, now, request>>

\* The flush of upsert: an INSERT, which the unique key of the table may
\* refuse, or an UPDATE by id, which has to find its row.
Store(s) ==
    LET k == run[s].item.key
        row == Seen(s)!Upserted(k, run[s].item.content, Overlaid(s).record[k].lead)[k]
    IN
    /\ Step(s, "storing", "matching")
    /\ Blockers(s) = {}
    /\ run[s].item.id = Overlaid(s).record[k].id
    /\ Put(s, "record", k, row)
    /\ Seen(s)!Issue(k, 0)

StoreBreaks(s) ==
    /\ run[s].pc = "storing"
    /\ Blockers(s) = {}
    /\ run[s].item.id # Overlaid(s).record[run[s].item.key].id
    /\ Break(s)

MatchCommitted(s) ==             \* mutated: the lookup has a session of its own
    LET item == run[s].item
        best == Committed!BestMatch(item.key, item.content) \ {item.own}
        auto == {l \in best : Seen(s)!IsAuto(l, item.content)}
        own  == {l \in LeadIds : l = item.own /\ Seen(s)!Live(l)}
        to   == IF auto # {} THEN auto ELSE own
    IN
    /\ run[s].pc = "matching"
    /\ \E target \in IF to = {} THEN {NoLead} ELSE to :
          run' = [run EXCEPT ![s].pc = IF target = NoLead THEN "creating" ELSE "gathering",
                             ![s].item = [item EXCEPT
                                 !.target = target,
                                 !.loaded = IF target = NoLead THEN NoRow
                                            ELSE Overlaid(s).lead[target],
                                 !.behind = Seen(s)!Behind(item.content)]]
    /\ UNCHANGED <<tables, issued, now, request, dirty>>

\* leads.get, _best_match, and the branch of _ingest that they lead to.
Match(s) ==
    LET item == run[s].item
        best == Seen(s)!BestMatch(item.key, item.content)
        auto == {l \in best : Seen(s)!IsAuto(l, item.content)}
        own  == {l \in LeadIds : l = item.own /\ Seen(s)!Live(l)}
        to   == IF auto # {} THEN auto ELSE own
    IN
    /\ run[s].pc = "matching"
    /\ \E target \in IF to = {} THEN {NoLead} ELSE to :
       \E review \in IF best \ auto = {} THEN {NoLead} ELSE best \ auto :
          run' = [run EXCEPT ![s].pc = IF target = NoLead THEN "creating" ELSE "gathering",
                             ![s].item = [item EXCEPT
                                 !.target = target, !.review = review,
                                 !.loaded = IF target = NoLead THEN NoRow
                                            ELSE Overlaid(s).lead[target],
                                 !.behind = IF target = NoLead THEN Seen(s)!Behind(item.content)
                                            ELSE {}]]
    /\ UNCHANGED <<tables, issued, now, request, dirty>>

GatherOwnSource(s) ==            \* mutated: other sources are not merged
    LET item == run[s].item
        from == {j \in Seen(s)!Built(item.target, item.key) : SourceOf[j] = SourceOf[item.key]}
        C == {x \in Seen(s)!Sightings(item.target, item.key, item.content) :
                 \E j \in from : x.id = Seen(s)!RecordId(j)}
    IN
    /\ run[s].pc = "gathering"
    /\ run' = [run EXCEPT ![s].pc = "applying",
                          ![s].item.merged = Seen(s)!Applied(C, item.loaded.firstSeen),
                          ![s].item.from = from]
    /\ UNCHANGED <<tables, issued, now, request, dirty>>

\* candidates_for and merge.
Gather(s) ==
    LET item == run[s].item
        C == Seen(s)!Sightings(item.target, item.key, item.content)
    IN
    /\ run[s].pc = "gathering"
    /\ run' = [run EXCEPT ![s].pc = "applying",
                          ![s].item.merged = Seen(s)!Applied(C, item.loaded.firstSeen),
                          ![s].item.from = Seen(s)!Built(item.target, item.key)]
    /\ UNCHANGED <<tables, issued, now, request, dirty>>

\* Where _ingest goes once it has rebuilt or created the lead.
AfterMerge(item) ==
    IF item.target # item.own THEN "linking"
    ELSE IF item.review # NoLead THEN "flagging" ELSE "open"

\* The local variables of _ingest are gone when it returns.
Continue(s, item, pc) ==
    /\ run' = [run EXCEPT ![s].pc = pc, ![s].item = IF pc = "open" THEN NoItem ELSE item]
    /\ UNCHANGED <<tables, now, request>>

Fits(row) == \A f \in Fields : row.content[f] \notin TooLong

\* The UPDATE of the lead sets the columns that differ from those loaded.
Patched(row, item) ==
    [content |-> [f \in Fields |-> IF item.merged.content[f] # item.loaded.content[f]
                                   THEN item.merged.content[f] ELSE row.content[f]],
     firstSeen |-> row.firstSeen,
     lastSeen |-> IF item.merged.lastSeen # item.loaded.lastSeen
                  THEN item.merged.lastSeen ELSE row.lastSeen]

Apply(s) ==
    LET item == run[s].item
        row == Overlaid(s).lead[item.target]
    IN
    /\ run[s].pc = "applying"
    /\ Changes(item)
    /\ Blockers(s) = {}
    /\ row # NoRow /\ Fits(item.merged)
    /\ dirty' = [dirty EXCEPT ![s].lead = Written(@, item.target, Patched(row, item)),
                              ![s].built = Written(@, item.target, item.from)]
    /\ Continue(s, item, AfterMerge(item))
    /\ UNCHANGED issued

ApplyNothing(s) ==
    LET item == run[s].item IN
    /\ run[s].pc = "applying"
    /\ ~Changes(item)
    /\ Put(s, "built", item.target, Overlaid(s).built[item.target] \cup {item.key})
    /\ Continue(s, item, AfterMerge(item))
    /\ UNCHANGED issued

ApplyBreaks(s) ==
    LET item == run[s].item IN
    /\ run[s].pc = "applying"
    /\ Changes(item)
    /\ Blockers(s) = {}
    /\ Overlaid(s).lead[item.target] = NoRow \/ ~Fits(item.merged)
    /\ Break(s)

\* The row of the lead that only the record in progress makes.
Initial(s) ==
    LET item == run[s].item
        row == Overlaid(s).record[item.key]
    IN  Seen(s)!Applied({Seen(s)!Candidate(item.key, row.id, item.content, row.collected)},
                        row.collected)

Create(s) ==
    LET l == issued.lead + 1
        item == [run[s].item EXCEPT !.target = l]
    IN
    /\ run[s].pc = "creating"
    /\ l \in LeadIds        \* bound: there is always one, by Room
    /\ Fits(Initial(s))
    /\ dirty' = [dirty EXCEPT ![s].lead = Written(@, l, Initial(s)),
                              ![s].built = Written(@, l, {item.key})]
    /\ issued' = [issued EXCEPT !.lead = l]
    /\ Continue(s, item, "linking")

CreateBreaks(s) ==
    /\ run[s].pc = "creating"
    /\ ~Fits(Initial(s))
    /\ Break(s)

\* link: the record is claimed unless the pair is linked already.
Link(s) ==
    LET item == run[s].item
        k == item.key
        l == item.target
        claimed == [Overlaid(s).record[k] EXCEPT !.lead = l]
    IN
    /\ run[s].pc = "linking"
    /\ Blockers(s) = {}
    /\ Seen(s)!Live(l)
    /\ dirty' = [dirty EXCEPT ![s].link = Written(@, <<l, k>>, "merged"),
                              ![s].record = IF Seen(s)!LinkClaims(l, k)
                                            THEN Written(@, k, claimed) ELSE @]
    /\ Continue(s, item, IF item.review # NoLead THEN "flagging" ELSE "open")
    /\ UNCHANGED issued

\* link with claim=False, for review.
Flag(s) ==
    LET item == run[s].item IN
    /\ run[s].pc = "flagging"
    /\ Blockers(s) = {}
    /\ Seen(s)!Live(item.review)
    /\ Put(s, "link", <<item.review, item.key>>, "review")
    /\ Continue(s, item, "open")
    /\ UNCHANGED issued

\* The lead is gone: a foreign key is violated, or an UPDATE finds no row.
LinkBreaks(s) ==
    LET item == run[s].item IN
    /\ \/ run[s].pc = "linking" /\ ~Seen(s)!Live(item.target)
       \/ run[s].pc = "flagging" /\ ~Seen(s)!Live(item.review)
    /\ Blockers(s) = {}
    /\ Break(s)

\* save_results, mark_finished and COMMIT.
Finish(s) ==
    /\ run[s].pc = "open"
    /\ Publish(s)
    /\ run' = [run EXCEPT ![s] = NoRun]
    /\ UNCHANGED <<suppressed, issued, now, request>>

FailLoops(s) == run[s].pc = "broken" /\ UNCHANGED vars  \* mutated: results are saved again

\* save_results raises on a broken session.
Fail(s) ==
    /\ run[s].pc = "broken"
    /\ run' = [run EXCEPT ![s] = NoRun]
    /\ UNCHANGED <<tables, issued, now, request, dirty>>

\* SourceError between two records, or the worker is gone.
Abort(s) ==
    /\ run[s].pc \notin {"idle", "broken"}
    /\ Rollback(s)
    /\ run' = [run EXCEPT ![s] = NoRun]
    /\ UNCHANGED <<issued, now, request>>

-----------------------------------------------------------------------------
(***************************************************************************)
(* Requests.                                                               *)
(***************************************************************************)
\* delete_lead, suppress=true: leads.get, and the contacts it will suppress.
Request(l) ==
    /\ request.pc = "idle"
    /\ Committed!Live(l)
    /\ request' = [pc |-> "deleting", lead |-> l, contacts |-> Committed!Contacts(l)]
    /\ UNCHANGED <<tables, issued, now, run, dirty>>

\* leads.get finds nothing.
NotFound(l) == request.pc = "idle" /\ ~Committed!Live(l) /\ UNCHANGED vars

\* DELETE FROM leads.
Delete ==
    /\ request.pc = "deleting"
    /\ Blockers(API) = {}
    /\ IF Committed!Live(request.lead)
       THEN Put(API, "lead", request.lead, NoRow)
       ELSE UNCHANGED dirty
    /\ request' = [request EXCEPT !.pc = "cascading"]
    /\ UNCHANGED <<tables, issued, now, run>>

CascadeToNull(k) ==              \* mutated: ON DELETE SET NULL
    /\ request.pc = "cascading"
    /\ k \in Orphans
    /\ Holders(API, "record", k) = {}
    /\ Put(API, "record", k, [record[k] EXCEPT !.lead = NoLead])
    /\ UNCHANGED <<tables, issued, now, run, request>>

\* ON DELETE CASCADE reaches the record k.
Cascade(k) ==
    /\ request.pc = "cascading"
    /\ k \in Orphans
    /\ Holders(API, "record", k) = {}
    /\ Put(API, "record", k, NoRecord)
    /\ UNCHANGED <<tables, issued, now, run, request>>

CommitDelete ==
    /\ request.pc = "cascading"
    /\ Orphans = {}
    /\ Blockers(API) = {}
    /\ Publish(API)
    /\ suppressed' = Committed!Suppressing(request.contacts)
    /\ request' = NoRequest
    /\ UNCHANGED <<issued, now, run>>

Suppress(e) ==
    /\ ~Committed!Listed(e)
    /\ suppressed' = Committed!Suppressing({e})
    /\ UNCHANGED <<record, lead, link, issued, now, past, built, run, request, dirty>>

\* PostgreSQL ends a deadlock by aborting one of its sessions.
Victim(s) ==
    /\ InDeadlock(s)
    /\ IF s = API
       THEN Rollback(API) /\ request' = NoRequest /\ UNCHANGED <<issued, now, run>>
       ELSE Break(s)

Ingest(s) ==
    \/ Store(s) \/ StoreBreaks(s) \/ Match(s) \/ Gather(s)
    \/ Apply(s) \/ ApplyNothing(s) \/ ApplyBreaks(s) \/ Create(s) \/ CreateBreaks(s)
    \/ Link(s) \/ Flag(s) \/ LinkBreaks(s)

Erase == Delete \/ (\E k \in Keys : Cascade(k)) \/ CommitDelete

Next ==
    \/ \E s \in Collectors :
          \/ \E source \in Sources : Begin(s, source)
          \/ \E o \in Offers : Look(s, o[1], o[2])
          \/ Ingest(s) \/ Finish(s) \/ Fail(s) \/ Abort(s)
    \/ \E l \in LeadIds : Request(l) \/ NotFound(l)
    \/ Erase
    \/ \E e \in OptOuts : Suppress(e)
    \/ \E s \in Sessions : Victim(s)

Spec == Init /\ [][Next]_vars

\* Statements end, and so do sources; deadlocks are noticed; and a row that is
\* released goes to the session that has waited longest, so that requests that
\* keep coming do not starve a collection.
Fairness ==
    /\ \A s \in Collectors : SF_vars(Ingest(s) \/ Finish(s) \/ Fail(s))
    /\ WF_vars(Erase)
    /\ \A s \in Sessions : WF_vars(Victim(s))

FairSpec == Spec /\ Fairness

-----------------------------------------------------------------------------
Item == [key : Keys \cup {NoKey}, content : Content, id : Nat,
         own : LeadIds \cup {NoLead}, target : LeadIds \cup {NoLead},
         loaded : Committed!LeadRow, merged : Committed!LeadRow,
         from : SUBSET Keys, review : LeadIds \cup {NoLead}, behind : SUBSET LeadIds]

Partial(D, f, S) == DOMAIN f \subseteq D /\ \A d \in DOMAIN f : f[d] \in S

TypeOK ==
    /\ Committed!TypeOK
    /\ \A s \in Collectors :
          /\ run[s].pc \in {"idle", "open", "storing", "matching", "gathering", "applying",
                            "creating", "linking", "flagging", "broken"}
          /\ run[s].source \in Sources \cup {NoSource} /\ run[s].stamp \in 0..now
          /\ run[s].listed \subseteq Committed!Suppressible \X Values \X (0..MaxTime)
          /\ run[s].done \subseteq Keys /\ run[s].item \in Item
    /\ request \in [pc : {"idle", "deleting", "cascading"}, lead : LeadIds \cup {NoLead},
                    contacts : SUBSET (Committed!Suppressible \X Values)]
    /\ \A s \in Sessions :
          /\ Partial(Keys, dirty[s].record, Committed!RecordRow)
          /\ Partial(LeadIds, dirty[s].lead, Committed!LeadRow)
          /\ Partial(LeadIds \X Keys, dirty[s].link, {"merged", "review"})
          /\ Partial(LeadIds, dirty[s].built, SUBSET Keys)

(***************************************************************************)
(* However collections and requests interleave.                            *)
(***************************************************************************)
\* What is committed fits together: a stored record belongs to a live lead and
\* is linked to it, although leads and records are deleted and moved while
\* other sessions write links and claims.
OwnerLinked ==
    \A k \in Keys : Committed!Stored(k) =>
        /\ Committed!Own(k) # NoLead
        /\ Committed!Live(Committed!Own(k))
        /\ link[Committed!Own(k)][k] # "none"

\* No link survives its lead or its record.
LinksKnown ==
    \A l \in LeadIds : \A k \in Keys :
        link[l][k] # "none" => Committed!Live(l) /\ Committed!Stored(k)

\* A record never comes back to a lead that it left, even if one collection
\* moves it while another has it loaded.
NeverReturns == Committed!NeverReturns

\* A collection that begins after a suppression stores nothing it blocks.
RecordsClean ==
    \A k \in Keys : \A e \in suppressed :
        Committed!Stored(k) /\ e[3] < record[k].collected => record[k].content[e[1]] # e[2]

\* A collection ends, although it may wait for others, and they for it.
CollectionsEnd == \A s \in Collectors : run[s].pc # "idle" ~> run[s].pc = "idle"

(***************************************************************************)
(* When only one collection runs at a time.                                *)
(***************************************************************************)
\* "the lead is rebuilt from all of its records rather than patched in place"
\* (docs/deduplication.md:89): every record of a lead took part in its last
\* rebuild.
LeadsComplete ==
    \A l \in LeadIds : \A k \in Keys : Committed!Own(k) = l => k \in built[l]

\* "email ... merges automatically: yes" (docs/deduplication.md:33-35): no lead
\* is created beside another, committed or not, with the same email, domain or
\* phone, unless Limit older leads that resemble the record filled its lookup,
\* although leads are deleted between the lookup and the INSERT.
NewLeadIsNew ==
    [][\A s \in Collectors : \A l \in LeadIds :
          issued.lead < l /\ l \in DOMAIN dirty'[s].lead \ DOMAIN dirty[s].lead =>
              \A m \in LeadIds : Overlaid(s).lead[m] # NoRow =>
                  \A f \in Exact :
                      Same(dirty'[s].lead[l].content, Overlaid(s).lead[m].content, f)
                          => m \in run[s].item.behind]_vars

(***************************************************************************)
(* What the documentation says of every collection and deletion.           *)
(***************************************************************************)
\* "A single bad record never fails a run" (docs/operations.md:68): the errors
\* of a run leave its session usable.
RunsSurvive == \A s \in Collectors : run[s].pc # "broken"

\* A weak match is "kept as its own lead and linked to the candidate with
\* needs_review = true" (docs/deduplication.md:107): a record is not up for
\* review against the lead it belongs to.
ReviewedStandApart ==
    \A l \in LeadIds : \A k \in Keys : link[l][k] = "review" => Committed!Own(k) # l

\* "Suppressed records are never written to the database at all"
\* (docs/legal.md:95).
SuppressedNeverWritten ==
    [][\A k \in Keys : record'[k] # record[k] =>
          \A e \in suppressed : record'[k].content[e[1]] # e[2]]_vars

\* "Deletion also adds the lead's email address and website domain to the
\* suppression list" (docs/legal.md:81): those that the deleted lead had.
DeletedContactsListed ==
    [][\A l \in LeadIds : Committed!Live(l) /\ lead'[l] = NoRow =>
          \A c \in Committed!Contacts(l) :
              \E e \in suppressed' : e[1] = c[1] /\ e[2] = c[2]]_vars
=============================================================================
