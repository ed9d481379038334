------------------------- MODULE CollectionsProofs -------------------------
(***************************************************************************)
(* Theorems about Collections, for any sources, keys, contents, collectors *)
(* and bounds: what transactions that overlap leave behind.                *)
(***************************************************************************)
EXTENDS Collections, FiniteSetTheorems, WellFoundedInduction, TLAPS

-----------------------------------------------------------------------------
(***************************************************************************)
(* The invariants.                                                         *)
(***************************************************************************)
Working == {"storing", "matching", "gathering", "applying", "creating", "linking", "flagging"}
Upserting == Working \ {"storing"}
Ownerless == {"matching", "gathering", "applying", "creating", "linking"}

\* Functions and records have the domains that their definitions give them.
RunShape(r) ==
    /\ DOMAIN r = {"pc", "source", "stamp", "listed", "done", "item"}
    /\ DOMAIN r.item = {"key", "content", "id", "own", "target", "loaded", "merged", "from",
                        "review", "behind"}

DirtyShape(d) ==
    /\ DOMAIN d = {"record", "lead", "link", "built"}
    /\ DOMAIN d.record \subseteq Keys /\ DOMAIN d.lead \subseteq LeadIds

Shape ==
    /\ DOMAIN run = Collectors /\ \A s \in Collectors : RunShape(run[s])
    /\ DOMAIN dirty = Sessions /\ \A s \in Sessions : DirtyShape(dirty[s])
    /\ DOMAIN record = Keys /\ DOMAIN lead = LeadIds

\* Rows that exist show it, and what does not exist is the empty row.
Rows ==
    /\ \A k \in Keys : record[k].id = 0 => record[k] = NoRecord
    /\ \A l \in LeadIds : lead[l].firstSeen = 0 => lead[l] = NoRow
    /\ issued.record \in Nat /\ now \in Nat

\* Collection s between two of its statements.
ProgressOf(s) ==
    LET i == run[s].item IN
    /\ run[s].pc \in {"idle", "open", "broken"} \cup Working
    /\ run[s].pc \in {"idle", "broken"} => dirty[s] = Clean
    /\ run[s].pc \notin {"idle", "broken"} => run[s].stamp \in Nat \ {0}
    /\ run[s].pc = "open" => i.key \notin Keys
    /\ run[s].pc \in Working => /\ i.key \in Keys /\ i.key \in run[s].done
                                /\ i.id = 0 => i.own = NoLead
    /\ run[s].pc \in Upserting => i.key \in DOMAIN dirty[s].record
    /\ run[s].pc = "storing" => i.key \notin DOMAIN dirty[s].record
    /\ run[s].pc \in {"gathering", "applying", "linking"} => i.target \in LeadIds
    /\ DOMAIN dirty[s].record \subseteq run[s].done
    /\ \A l \in LeadIds : \A k \in Keys : <<l, k>> \in DOMAIN dirty[s].link =>
          /\ k \in DOMAIN dirty[s].record
          /\ dirty[s].link[<<l, k>>] # "none"
          /\ run[s].pc \in Working /\ k = i.key => run[s].pc = "flagging"

\* What a deletion has written: records and the lead are gone.
Erasing ==
    /\ \A k \in DOMAIN dirty[API].record : dirty[API].record[k] = NoRecord
    /\ \A l \in DOMAIN dirty[API].lead : l = request.lead /\ dirty[API].lead[l] = NoRow
    /\ DOMAIN dirty[API].link = {}
    /\ request.pc \in {"idle", "deleting"} => dirty[API] = Clean
    /\ request.pc # "idle" => request.lead \in LeadIds

\* What collection s has written exists.
DraftsOf(s) ==
    /\ \A k \in DOMAIN dirty[s].record :
          /\ DOMAIN dirty[s].record[k] = {"id", "content", "collected", "lead"}
          /\ dirty[s].record[k].id # 0
          /\ dirty[s].record[k].collected = run[s].stamp
    /\ \A l \in DOMAIN dirty[s].lead : dirty[s].lead[l].firstSeen # 0

\* A record is written by one session at a time.
Exclusive ==
    \A s, t \in Sessions : s # t => DOMAIN dirty[s].record \cap DOMAIN dirty[t].record = {}

\* The lead of a record that s has written: the record has kept it, or was just
\* inserted and gets one before s turns to the next record, or s has claimed the
\* record for a lead that nobody is deleting.
Kept(s, k) == record[k].id # 0 /\ dirty[s].record[k].lead = record[k].lead

Unowned(s, k) ==
    /\ record[k].id = 0
    /\ dirty[s].record[k].lead = NoLead
    /\ run[s].item.key = k /\ run[s].item.own = NoLead
    /\ run[s].pc \in Ownerless

Claimed(s, k) ==
    LET l == dirty[s].record[k].lead IN
    /\ l \in LeadIds /\ l # record[k].lead
    /\ <<l, k>> \in DOMAIN dirty[s].link
    /\ l \in DOMAIN dirty[s].lead \/ lead[l].firstSeen # 0
    /\ l \notin DOMAIN dirty[API].lead

OwnedOf(s) ==
    \A k \in DOMAIN dirty[s].record : Kept(s, k) \/ Unowned(s, k) \/ Claimed(s, k)

\* OwnerLinked without the operators of LeadStore.
Linked ==
    \A k \in Keys : record[k].id # 0 =>
        /\ record[k].lead \in LeadIds
        /\ lead[record[k].lead].firstSeen # 0
        /\ link[record[k].lead][k] # "none"

Transactions ==
    /\ Shape /\ Rows /\ Erasing /\ Exclusive /\ Linked /\ LinksKnown
    /\ \A s \in Collectors : ProgressOf(s) /\ DraftsOf(s) /\ OwnedOf(s)

\* A collection knows every suppression that is older than itself, and what it
\* has read and written is none of them.
Unblocked(content, listed) == \A e \in listed : content[e[1]] # e[2]

ListingOf(s) ==
    run[s].pc \notin {"idle", "broken"} =>
        /\ run[s].stamp <= now
        /\ {e \in suppressed : e[3] < run[s].stamp} \subseteq run[s].listed
        /\ run[s].pc \in Working => Unblocked(run[s].item.content, run[s].listed)
        /\ \A k \in DOMAIN dirty[s].record :
              Unblocked(dirty[s].record[k].content, run[s].listed)

Listing ==
    /\ \A k \in Keys : record[k].collected \in Nat /\ record[k].collected <= now
    /\ \A s \in Collectors : ListingOf(s)

-----------------------------------------------------------------------------
(***************************************************************************)
(* Tables of a transaction.                                                *)
(***************************************************************************)
LEMMA WrittenFacts ==
    ASSUME NEW table, NEW row, NEW value
    PROVE  /\ DOMAIN Written(table, row, value) = DOMAIN table \cup {row}
           /\ Written(table, row, value)[row] = value
           /\ \A x \in DOMAIN table : x # row => Written(table, row, value)[x] = table[x]
BY DEF Written, Over

LEMMA CleanFacts ==
    /\ DirtyShape(Clean)
    /\ DOMAIN Clean.record = {} /\ DOMAIN Clean.lead = {} /\ DOMAIN Clean.link = {}
BY DEF Clean, DirtyShape

LEMMA Constants == API \notin Collectors /\ NoKey \notin Keys /\ NoLead \notin LeadIds
BY SessionsAssumption DEF LeadIds, NoLead

LEMMA NoRunFacts == RunShape(NoRun) /\ NoRun.pc = "idle" /\ RunShape([NoRun EXCEPT !.pc = "broken"])
BY DEF RunShape, NoRun, NoItem

\* What s sees of a row that it has not written is what is committed.
LEMMA SeenRecord ==
    ASSUME Shape, NEW s \in Collectors, NEW k \in Keys
    PROVE  /\ k \in DOMAIN dirty[s].record => Overlaid(s).record[k] = dirty[s].record[k]
           /\ k \notin DOMAIN dirty[s].record => Overlaid(s).record[k] = record[k]
<1>1. Overlaid(s).record = Over(dirty[s].record, record)
  BY DEF Overlaid
<1>2. k \in DOMAIN record
  BY DEF Shape
<1>3. QED
  BY <1>1, <1>2 DEF Over

LEMMA SeenLead ==
    ASSUME Shape, NEW s \in Collectors, NEW l \in LeadIds
    PROVE  /\ l \in DOMAIN dirty[s].lead => Overlaid(s).lead[l] = dirty[s].lead[l]
           /\ l \notin DOMAIN dirty[s].lead => Overlaid(s).lead[l] = lead[l]
<1>1. Overlaid(s).lead = Over(dirty[s].lead, lead)
  BY DEF Overlaid
<1>2. l \in DOMAIN lead
  BY DEF Shape
<1>3. QED
  BY <1>1, <1>2 DEF Over

LEMMA SeenLink ==
    ASSUME NEW s \in Collectors, NEW l \in LeadIds, NEW k \in Keys
    PROVE  Overlaid(s).link[l][k] = IF <<l, k>> \in DOMAIN dirty[s].link
                                    THEN dirty[s].link[<<l, k>>] ELSE link[l][k]
BY DEF Overlaid

LEMMA PublishFacts ==
    ASSUME Shape, NEW s \in Sessions, Publish(s)
    PROVE  /\ DOMAIN record' = Keys /\ DOMAIN lead' = LeadIds
           /\ \A k \in Keys : record'[k] = IF k \in DOMAIN dirty[s].record
                                          THEN dirty[s].record[k] ELSE record[k]
           /\ \A l \in LeadIds : lead'[l] = IF l \in DOMAIN dirty[s].lead
                                           THEN dirty[s].lead[l] ELSE lead[l]
           /\ \A l \in LeadIds : \A k \in Keys :
                 link'[l][k] = IF lead'[l] = NoRow \/ record'[k] = NoRecord THEN "none"
                               ELSE IF <<l, k>> \in DOMAIN dirty[s].link
                                    THEN dirty[s].link[<<l, k>>] ELSE link[l][k]
           /\ DOMAIN dirty' = Sessions /\ dirty'[s] = Clean
           /\ \A t \in Sessions \ {s} : dirty'[t] = dirty[t]
<1>1. record' = Over(dirty[s].record, record) /\ lead' = Over(dirty[s].lead, lead)
  BY DEF Publish, Overlaid
<1>2. DOMAIN dirty[s].record \subseteq Keys /\ DOMAIN dirty[s].lead \subseteq LeadIds
  BY DEF Shape, DirtyShape
<1>3. /\ DOMAIN record' = Keys
      /\ \A k \in Keys : record'[k] = IF k \in DOMAIN dirty[s].record
                                     THEN dirty[s].record[k] ELSE record[k]
  <2>1. DOMAIN record = Keys
    BY DEF Shape
  <2>2. QED
    BY <1>1, <1>2, <2>1 DEF Over
<1>8. /\ DOMAIN lead' = LeadIds
      /\ \A l \in LeadIds : lead'[l] = IF l \in DOMAIN dirty[s].lead
                                      THEN dirty[s].lead[l] ELSE lead[l]
  <2>1. DOMAIN lead = LeadIds
    BY DEF Shape
  <2>2. QED
    BY <1>1, <1>2, <2>1 DEF Over
<1>4. \A l \in LeadIds : \A k \in Keys :
         link'[l][k] = IF lead'[l] = NoRow \/ record'[k] = NoRecord THEN "none"
                       ELSE Overlaid(s).link[l][k]
  BY DEF Publish
<1>5. \A l \in LeadIds : \A k \in Keys :
         Overlaid(s).link[l][k] = IF <<l, k>> \in DOMAIN dirty[s].link
                                  THEN dirty[s].link[<<l, k>>] ELSE link[l][k]
  BY DEF Overlaid
<1>6. DOMAIN dirty' = Sessions /\ dirty'[s] = Clean
      /\ \A t \in Sessions \ {s} : dirty'[t] = dirty[t]
  BY DEF Publish, Shape
<1>7. QED
  BY <1>3, <1>4, <1>5, <1>6, <1>8
-----------------------------------------------------------------------------
(***************************************************************************)
(* A statement of collection s, the last one apart.                        *)
(***************************************************************************)
\* Nobody but s moves, and nothing is committed.
StepOf(s) ==
    /\ record' = record /\ lead' = lead /\ link' = link /\ request' = request
    /\ issued'.record \in Nat /\ now' \in Nat
    /\ DOMAIN run' = Collectors /\ RunShape(run'[s])
    /\ \A t \in Collectors \ {s} : run'[t] = run[t]
    /\ DOMAIN dirty' = Sessions /\ DirtyShape(dirty'[s])
    /\ \A t \in Sessions \ {s} : dirty'[t] = dirty[t]

\* It is enough to look at what s has done.
LEMMA StepFrame ==
    ASSUME Transactions, NEW s \in Collectors, StepOf(s),
           \A k \in DOMAIN dirty'[s].record : k \in DOMAIN dirty[s].record \/
               \A t \in Sessions \ {s} : k \notin DOMAIN dirty[t].record,
           ProgressOf(s)', DraftsOf(s)', OwnedOf(s)'
    PROVE  Transactions'
<1> USE DEF Transactions
<1>1. API # s /\ API \in Sessions /\ Collectors \subseteq Sessions
  BY Constants DEF Sessions
<1>2. dirty'[API] = dirty[API] /\ \A t \in Collectors \ {s} : dirty'[t] = dirty[t]
  BY <1>1 DEF StepOf
<1>3. Shape'
  BY DEF Shape, StepOf, Sessions
<1>4. Rows' /\ Linked' /\ LinksKnown'
  BY DEF Rows, Linked, LinksKnown, StepOf, Committed!Live, Committed!Stored
<1>5. Erasing'
  BY <1>2 DEF Erasing, StepOf
<1>6. Exclusive'
  BY DEF Exclusive, StepOf
<1>7. ASSUME NEW t \in Collectors, t # s
      PROVE  (ProgressOf(t) /\ DraftsOf(t) /\ OwnedOf(t))'
  <2>1. run'[t] = run[t] /\ dirty'[t] = dirty[t]
    BY <1>2, <1>7 DEF StepOf
  <2>2. ProgressOf(t)' /\ DraftsOf(t)'
    BY <2>1 DEF ProgressOf, DraftsOf
  <2>3. OwnedOf(t)'
    BY <1>2, <2>1 DEF OwnedOf, Kept, Unowned, Claimed, StepOf
  <2>4. QED
    BY <2>2, <2>3
<1>8. QED
  BY <1>3, <1>4, <1>5, <1>6, <1>7

\* A statement that only reads: what s holds, and for which record, is unchanged.
LEMMA ReadStep ==
    ASSUME Transactions, NEW s \in Collectors, UNCHANGED <<tables, issued, request, dirty>>,
           DOMAIN run' = Collectors, RunShape(run'[s]),
           \A t \in Collectors \ {s} : run'[t] = run[t],
           now' \in Nat, dirty[s] = Clean \/ run'[s].stamp = run[s].stamp,
           ProgressOf(s)',
           \A k \in DOMAIN dirty[s].record : Unowned(s, k) => Unowned(s, k)'
    PROVE  Transactions'
<1> USE DEF Transactions
<1>1. StepOf(s)
  BY DEF StepOf, tables, Rows, Shape, Sessions
<1>2. DraftsOf(s)'
  BY CleanFacts DEF DraftsOf
<1>4. OwnedOf(s)'
  BY DEF OwnedOf, Kept, Claimed, tables
<1>3. QED
  BY <1>1, <1>2, <1>4, StepFrame

LEMMA BeginStep ==
    ASSUME Transactions, NEW s \in Collectors, NEW source, Begin(s, source)
    PROVE  Transactions'
<1>1. /\ run' = [run EXCEPT ![s] = [NoRun EXCEPT !.pc = "open", !.source = source,
                                               !.stamp = now', !.listed = suppressed]]
      /\ run[s].pc = "idle" /\ UNCHANGED <<tables, issued, request, dirty>>
      /\ now' = now + 1 /\ now \in Nat
  BY DEF Begin, Transactions, Rows
<1>2. /\ DOMAIN run' = Collectors /\ RunShape(run'[s]) /\ run'[s].pc = "open"
      /\ run'[s].item.key = NoKey /\ run'[s].done = {} /\ run'[s].stamp = now'
      /\ \A t \in Collectors \ {s} : run'[t] = run[t]
  BY <1>1, NoRunFacts DEF Transactions, Shape, RunShape, NoRun, NoItem
<1>3. dirty'[s] = Clean /\ dirty[s] = Clean
  BY <1>1 DEF Transactions, ProgressOf
<1>4. ProgressOf(s)'
  BY <1>1, <1>2, <1>3, CleanFacts, Constants DEF ProgressOf, Working, Upserting
<1>5. QED
  BY <1>1, <1>2, <1>3, <1>4, CleanFacts, ReadStep

LEMMA LookStep ==
    ASSUME Transactions, NEW s \in Collectors, NEW k, NEW c, Look(s, k, c), k \in Keys
    PROVE  Transactions'
<1>1. /\ run[s].pc = "open" /\ k \notin run[s].done
      /\ UNCHANGED <<tables, issued, now, request, dirty>> /\ now \in Nat
  BY DEF Look, Transactions, Rows
<1>2. k \notin DOMAIN dirty[s].record /\ k # run[s].item.key
  BY <1>1 DEF Transactions, ProgressOf
<1>3. Overlaid(s).record[k] = record[k]
  BY <1>2, SeenRecord DEF Transactions
<1>4. Seen(s)!Own(k) = record[k].lead
  BY <1>2, <1>3 DEF Seen!Own, Loaded
<1>5. /\ DOMAIN run' = Collectors /\ RunShape(run'[s]) /\ run'[s].pc = "storing"
      /\ run'[s].item.key = k /\ run'[s].item.id = record[k].id
      /\ run'[s].item.own = record[k].lead
      /\ run'[s].done = run[s].done \cup {k} /\ run'[s].stamp = run[s].stamp
      /\ \A t \in Collectors \ {s} : run'[t] = run[t]
  BY <1>3, <1>4 DEF Look, Transactions, Shape, RunShape, NoItem
<1>6. record[k].id = 0 => record[k].lead = NoLead
  BY DEF Transactions, Rows, NoRecord, Committed!NoRecord, NoLead, Committed!NoLead
<1>7. ProgressOf(s)'
  <2>1. dirty' = dirty
    BY <1>1
  <2>2. ProgressOf(s)
    BY DEF Transactions
  <2>3. QED
    BY <1>1, <1>2, <1>5, <1>6, <2>1, <2>2 DEF ProgressOf, Working, Upserting
<1>8. \A j \in DOMAIN dirty[s].record : ~Unowned(s, j)
  BY <1>1 DEF Unowned, Ownerless
<1>9. QED
  BY <1>1, <1>5, <1>7, <1>8, ReadStep
LEMMA MatchStep ==
    ASSUME Transactions, NEW s \in Collectors, Match(s)
    PROVE  Transactions'
<1>1. run[s].pc = "matching" /\ UNCHANGED <<tables, issued, now, request, dirty>> /\ now \in Nat
  BY DEF Match, Transactions, Rows
<1>2. PICK target, review, behind :
         /\ target = NoLead \/ target \in LeadIds
         /\ run' = [run EXCEPT ![s].pc = IF target = NoLead THEN "creating" ELSE "gathering",
                               ![s].item = [run[s].item EXCEPT
                                   !.target = target, !.review = review,
                                   !.loaded = IF target = NoLead THEN NoRow
                                              ELSE Overlaid(s).lead[target],
                                   !.behind = behind]]
  <2> DEFINE item == run[s].item
             best == Seen(s)!BestMatch(item.key, item.content)
             auto == {l \in best : Seen(s)!IsAuto(l, item.content)}
             own  == {l \in LeadIds : l = item.own /\ Seen(s)!Live(l)}
             to   == IF auto # {} THEN auto ELSE own
  <2>1. PICK target \in IF to = {} THEN {NoLead} ELSE to,
             review \in IF best \ auto = {} THEN {NoLead} ELSE best \ auto :
          run' = [run EXCEPT ![s].pc = IF target = NoLead THEN "creating" ELSE "gathering",
                             ![s].item = [item EXCEPT
                                 !.target = target, !.review = review,
                                 !.loaded = IF target = NoLead THEN NoRow
                                            ELSE Overlaid(s).lead[target],
                                 !.behind = IF target = NoLead THEN Seen(s)!Behind(item.content)
                                            ELSE {}]]
    BY DEF Match
  <2>2. best \subseteq LeadIds
    BY DEF Seen!BestMatch, Seen!FindCandidates, Seen!LeadIds, LeadIds
  <2>3. to \subseteq LeadIds
    BY <2>2
  <2>4. target = NoLead \/ target \in LeadIds
    BY <2>3
  <2>5. QED
    BY <2>1, <2>4
<1>3. /\ DOMAIN run' = Collectors /\ RunShape(run'[s])
      /\ run'[s].pc = IF target = NoLead THEN "creating" ELSE "gathering"
      /\ run'[s].item.key = run[s].item.key /\ run'[s].item.id = run[s].item.id
      /\ run'[s].item.own = run[s].item.own /\ run'[s].item.target = target
      /\ run'[s].done = run[s].done /\ run'[s].stamp = run[s].stamp
      /\ \A t \in Collectors \ {s} : run'[t] = run[t]
  BY <1>2 DEF Transactions, Shape, RunShape
<1>4. ProgressOf(s)'
  <2>1. dirty' = dirty /\ ProgressOf(s)
    BY <1>1 DEF Transactions
  <2>2. QED
    BY <1>1, <1>2, <1>3, <2>1 DEF ProgressOf, Working, Upserting
<1>5. \A k \in DOMAIN dirty[s].record : Unowned(s, k) => Unowned(s, k)'
  BY <1>1, <1>3 DEF Unowned, Ownerless, tables
<1>6. QED
  BY <1>1, <1>3, <1>4, <1>5, ReadStep

LEMMA GatherStep ==
    ASSUME Transactions, NEW s \in Collectors, Gather(s)
    PROVE  Transactions'
<1>1. run[s].pc = "gathering" /\ UNCHANGED <<tables, issued, now, request, dirty>> /\ now \in Nat
  BY DEF Gather, Transactions, Rows
<1>2. /\ DOMAIN run' = Collectors /\ RunShape(run'[s]) /\ run'[s].pc = "applying"
      /\ run'[s].item.key = run[s].item.key /\ run'[s].item.id = run[s].item.id
      /\ run'[s].item.own = run[s].item.own /\ run'[s].item.target = run[s].item.target
      /\ run'[s].done = run[s].done /\ run'[s].stamp = run[s].stamp
      /\ \A t \in Collectors \ {s} : run'[t] = run[t]
  BY DEF Gather, Transactions, Shape, RunShape
<1>3. ProgressOf(s)'
  <2>1. dirty' = dirty /\ ProgressOf(s)
    BY <1>1 DEF Transactions
  <2>2. QED
    BY <1>1, <1>2, <2>1 DEF ProgressOf, Working, Upserting
<1>4. \A k \in DOMAIN dirty[s].record : Unowned(s, k) => Unowned(s, k)'
  BY <1>1, <1>2 DEF Unowned, Ownerless, tables
<1>5. QED
  BY <1>1, <1>2, <1>3, <1>4, ReadStep

LEMMA FailStep ==
    ASSUME Transactions, NEW s \in Collectors, Fail(s)
    PROVE  Transactions'
<1>1. /\ run[s].pc = "broken" /\ UNCHANGED <<tables, issued, now, request, dirty>>
      /\ run' = [run EXCEPT ![s] = NoRun] /\ now \in Nat
  BY DEF Fail, Transactions, Rows
<1>2. /\ DOMAIN run' = Collectors /\ run'[s] = NoRun
      /\ \A t \in Collectors \ {s} : run'[t] = run[t]
  BY <1>1 DEF Transactions, Shape
<1>3. dirty'[s] = Clean /\ dirty[s] = Clean
  BY <1>1 DEF Transactions, ProgressOf
<1>4. ProgressOf(s)'
  BY <1>2, <1>3, CleanFacts, NoRunFacts DEF ProgressOf, Working, Upserting
<1>5. QED
  BY <1>1, <1>2, <1>3, <1>4, CleanFacts, NoRunFacts, ReadStep

\* The record k that upsert has written.
StoredRecord(s, k) ==
    /\ DOMAIN dirty'[s].record = DOMAIN dirty[s].record \cup {k}
    /\ \A j \in DOMAIN dirty[s].record : dirty'[s].record[j] = dirty[s].record[j]
    /\ DOMAIN dirty'[s].record[k] = {"id", "content", "collected", "lead"}
    /\ dirty'[s].record[k].id # 0
    /\ dirty'[s].record[k].content = run[s].item.content
    /\ dirty'[s].record[k].collected = run[s].stamp
    /\ dirty'[s].record[k].lead = record[k].lead

\* s has waited for nobody: no other session has written the record.
LEMMA StoreEffect ==
    ASSUME Transactions, NEW s \in Collectors, Store(s), NEW k, k = run[s].item.key
    PROVE  /\ run[s].pc = "storing" /\ k \in Keys
           /\ run[s].item.id = record[k].id
           /\ \A t \in Sessions \ {s} : k \notin DOMAIN dirty[t].record
           /\ StoredRecord(s, k)
           /\ dirty'[s].lead = dirty[s].lead /\ dirty'[s].link = dirty[s].link
           /\ run'[s].pc = "matching" /\ run'[s].item = run[s].item /\ run'[s].done = run[s].done
           /\ run'[s].stamp = run[s].stamp /\ run'[s].listed = run[s].listed
           /\ StepOf(s) /\ now' = now /\ suppressed' = suppressed
<1> DEFINE row == Seen(s)!Upserted(k, run[s].item.content, Overlaid(s).record[k].lead)[k]
<1> USE DEF Transactions
<1>1. /\ run[s].pc = "storing" /\ run' = [run EXCEPT ![s].pc = "matching"]
      /\ UNCHANGED <<tables, now, request>>
      /\ Blockers(s) = {} /\ run[s].item.id = Overlaid(s).record[k].id
      /\ dirty' = [dirty EXCEPT ![s]["record"] = Written(@, k, row)]
      /\ issued' = [lead |-> issued.lead + 0, record |-> Seen(s)!LastRecord(k)]
  BY DEF Store, Step, Put, Seen!Issue
<1>2. k \in Keys /\ k \notin DOMAIN dirty[s].record
  BY <1>1 DEF ProgressOf, Working
<1>3. Overlaid(s).record[k] = record[k]
  BY <1>2, SeenRecord
<1>4. s # API /\ s \in Sessions
  BY Constants DEF Sessions
<1>5. Holders(s, "record", k) = {}
  BY <1>1, <1>4 DEF Blockers
<1>6. \A t \in Sessions \ {s} : k \notin DOMAIN dirty[t].record
  BY <1>5 DEF Holders
<1>7. issued.record \in Nat /\ now' \in Nat
  BY <1>1 DEF Rows
<1>8. Loaded(s)[k].id = record[k].id
  <2>1. DOMAIN record[k] = DOMAIN record[k] /\ Loaded(s)[k] = [record[k] EXCEPT !.lead = run[s].item.own]
    BY <1>2, <1>3 DEF Loaded
  <2>2. QED
    BY <2>1
<1>9. /\ row = [id |-> Seen(s)!RecordId(k), content |-> run[s].item.content,
                collected |-> run[s].stamp, lead |-> record[k].lead]
  BY <1>2, <1>3 DEF Seen!Upserted, Loaded
<1>10. Seen(s)!RecordId(k) # 0 /\ Seen(s)!LastRecord(k) \in Nat
  BY <1>7, <1>8 DEF Seen!RecordId, Seen!LastRecord, Seen!Stored
<1>11. /\ DOMAIN dirty' = Sessions /\ DOMAIN dirty'[s] = {"record", "lead", "link", "built"}
       /\ dirty'[s].record = Written(dirty[s].record, k, row)
       /\ dirty'[s].lead = dirty[s].lead /\ dirty'[s].link = dirty[s].link
       /\ \A t \in Sessions \ {s} : dirty'[t] = dirty[t]
  BY <1>1, <1>4 DEF Shape, DirtyShape
<1>12. /\ DOMAIN dirty'[s].record = DOMAIN dirty[s].record \cup {k}
       /\ dirty'[s].record[k] = row
       /\ \A j \in DOMAIN dirty[s].record : dirty'[s].record[j] = dirty[s].record[j]
  BY <1>2, <1>11 DEF Written, Over
<1>13. /\ DOMAIN run' = Collectors /\ RunShape(run'[s])
       /\ run'[s].pc = "matching" /\ run'[s].item = run[s].item /\ run'[s].done = run[s].done
       /\ run'[s].stamp = run[s].stamp /\ run'[s].listed = run[s].listed
       /\ \A t \in Collectors \ {s} : run'[t] = run[t]
  BY <1>1 DEF Shape, RunShape
<1>14. DirtyShape(dirty'[s])
  BY <1>2, <1>4, <1>11, <1>12 DEF Shape, DirtyShape
<1>15. StepOf(s)
  BY <1>1, <1>7, <1>10, <1>11, <1>13, <1>14 DEF StepOf, tables
<1> HIDE DEF row
<1>16. now' = now /\ suppressed' = suppressed
  BY <1>1 DEF tables
<1>17. dirty'[s].record[k] = [id |-> Seen(s)!RecordId(k), content |-> run[s].item.content,
                              collected |-> run[s].stamp, lead |-> record[k].lead]
  BY <1>9, <1>12
<1>18. /\ DOMAIN dirty'[s].record[k] = {"id", "content", "collected", "lead"}
       /\ dirty'[s].record[k].id # 0
       /\ dirty'[s].record[k].content = run[s].item.content
       /\ dirty'[s].record[k].collected = run[s].stamp
       /\ dirty'[s].record[k].lead = record[k].lead
  BY <1>10, <1>17
<1>19. run[s].item.id = record[k].id
  BY <1>1, <1>3
<1>20. run[s].pc = "storing"
  BY <1>1
<1> HIDE DEF Transactions
<1>21. StoredRecord(s, k)
  BY <1>12, <1>18 DEF StoredRecord
<1>22. QED
  BY <1>2, <1>6, <1>11, <1>13, <1>15, <1>16, <1>19, <1>20, <1>21

LEMMA StoreStep ==
    ASSUME Transactions, NEW s \in Collectors, Store(s)
    PROVE  Transactions'
<1>0. PICK k : k = run[s].item.key
  OBVIOUS
<1>1. Rows /\ ProgressOf(s) /\ DraftsOf(s) /\ OwnedOf(s)
  BY DEF Transactions
<1>2. /\ run[s].pc = "storing" /\ k \in Keys /\ run[s].item.id = record[k].id
      /\ StoredRecord(s, k) /\ StepOf(s)
      /\ dirty'[s].lead = dirty[s].lead /\ dirty'[s].link = dirty[s].link
      /\ \A t \in Sessions \ {s} : k \notin DOMAIN dirty[t].record
  BY <1>0, StoreEffect
<1>3. /\ run'[s].pc = "matching" /\ run'[s].item = run[s].item /\ run'[s].done = run[s].done
      /\ run'[s].stamp = run[s].stamp
  BY <1>0, StoreEffect
<1>4. /\ DOMAIN dirty'[s].record = DOMAIN dirty[s].record \cup {k}
      /\ \A j \in DOMAIN dirty[s].record : dirty'[s].record[j] = dirty[s].record[j]
  BY <1>2 DEF StoredRecord
<1>5. /\ DOMAIN dirty'[s].record[k] = {"id", "content", "collected", "lead"}
      /\ dirty'[s].record[k].id # 0 /\ dirty'[s].record[k].collected = run[s].stamp
      /\ dirty'[s].record[k].lead = record[k].lead
  BY <1>2 DEF StoredRecord
<1>6. ProgressOf(s)'
  <2>1. \A l \in LeadIds : <<l, k>> \notin DOMAIN dirty[s].link
    BY <1>0, <1>1, <1>2 DEF ProgressOf
  <2>2. QED
    BY <1>0, <1>1, <1>2, <1>3, <1>4, <2>1 DEF ProgressOf, Working, Upserting
<1>7. DraftsOf(s)'
  <2>1. ASSUME NEW j \in DOMAIN dirty'[s].record
        PROVE  /\ DOMAIN dirty'[s].record[j] = {"id", "content", "collected", "lead"}
               /\ dirty'[s].record[j].id # 0
               /\ dirty'[s].record[j].collected = run'[s].stamp
    BY <1>1, <1>3, <1>4, <1>5 DEF DraftsOf
  <2>2. \A l \in DOMAIN dirty'[s].lead : dirty'[s].lead[l].firstSeen # 0
    BY <1>1, <1>2 DEF DraftsOf
  <2>3. QED
    BY <2>1, <2>2 DEF DraftsOf
<1>8. OwnedOf(s)'
  <2>1. record' = record /\ lead' = lead /\ dirty'[API] = dirty[API]
    BY <1>2, Constants DEF StepOf, Sessions
  <2>2. ASSUME NEW j \in DOMAIN dirty[s].record
        PROVE  Kept(s, j)' \/ Claimed(s, j)'
    <3>1. ~Unowned(s, j)
      BY <1>2 DEF Unowned, Ownerless
    <3>2. dirty'[s].record[j] = dirty[s].record[j]
      BY <1>4
    <3>3. QED
      BY <1>1, <1>2, <2>1, <3>1, <3>2 DEF OwnedOf, Kept, Claimed
  <2>3. Kept(s, k)' \/ Unowned(s, k)'
    <3>1. record[k].id = 0 => record[k].lead = NoLead /\ run[s].item.own = NoLead
      BY <1>1, <1>2 DEF Rows, NoRecord, Committed!NoRecord, NoLead, Committed!NoLead,
                        ProgressOf, Working
    <3>2. run'[s].pc = "matching" /\ run'[s].item.key = k
          /\ run'[s].item.own = run[s].item.own
      BY <1>0, <1>3
    <3>3. CASE record[k].id # 0
      BY <1>5, <2>1, <3>3 DEF Kept
    <3>4. CASE record[k].id = 0
      BY <1>5, <2>1, <3>1, <3>2, <3>4 DEF Unowned, Ownerless
    <3>5. QED
      BY <3>3, <3>4
  <2>4. QED
    BY <1>4, <2>2, <2>3 DEF OwnedOf
<1>9. \A j \in DOMAIN dirty'[s].record : j \in DOMAIN dirty[s].record \/
               \A t \in Sessions \ {s} : j \notin DOMAIN dirty[t].record
  BY <1>2, <1>4
<1>10. QED
  BY <1>2, <1>6, <1>7, <1>8, <1>9, StepFrame

-----------------------------------------------------------------------------
(***************************************************************************)
(* Statements that write a lead or a link.                                 *)
(***************************************************************************)
ItemShape(i) == DOMAIN i = {"key", "content", "id", "own", "target", "loaded", "merged", "from",
                            "review", "behind"}

\* run[s] once the statement is done.
Continued(s, item, pc) ==
    /\ DOMAIN run' = Collectors /\ RunShape(run'[s])
    /\ run'[s].pc = pc /\ run'[s].item = IF pc = "open" THEN NoItem ELSE item
    /\ run'[s].done = run[s].done /\ run'[s].stamp = run[s].stamp
    /\ run'[s].listed = run[s].listed
    /\ \A t \in Collectors \ {s} : run'[t] = run[t]

LEMMA ContinueFacts ==
    ASSUME Shape, NEW s \in Collectors, NEW item, ItemShape(item), NEW pc, Continue(s, item, pc)
    PROVE  Continued(s, item, pc) /\ UNCHANGED <<tables, now, request>>
<1>1. /\ run' = [run EXCEPT ![s].pc = pc, ![s].item = IF pc = "open" THEN NoItem ELSE item]
      /\ UNCHANGED <<tables, now, request>>
  BY DEF Continue
<1>2. DOMAIN run = Collectors /\ RunShape(run[s])
  BY DEF Shape
<1>3. ItemShape(NoItem)
  BY DEF ItemShape, NoItem
<1>4. /\ run'[s].pc = pc /\ run'[s].item = IF pc = "open" THEN NoItem ELSE item
      /\ run'[s].done = run[s].done /\ run'[s].stamp = run[s].stamp
      /\ run'[s].listed = run[s].listed
      /\ DOMAIN run'[s] = {"pc", "source", "stamp", "listed", "done", "item"}
  BY <1>1, <1>2 DEF RunShape
<1>5. DOMAIN run'[s].item = {"key", "content", "id", "own", "target", "loaded", "merged", "from",
                             "review", "behind"}
  BY <1>3, <1>4 DEF ItemShape
<1>6. RunShape(run'[s])
  BY <1>4, <1>5 DEF RunShape
<1>7. DOMAIN run' = Collectors /\ \A t \in Collectors \ {s} : run'[t] = run[t]
  BY <1>1, <1>2
<1>8. QED
  BY <1>1, <1>4, <1>6, <1>7 DEF Continued

\* The tables of s that a statement has written.
LEMMA WriteLead ==
    ASSUME Shape, NEW s \in Collectors, NEW l, NEW row, NEW rows,
           dirty' = [dirty EXCEPT ![s].lead = Written(@, l, row), ![s].built = rows]
    PROVE  /\ DOMAIN dirty' = Sessions
           /\ DOMAIN dirty'[s] = {"record", "lead", "link", "built"}
           /\ dirty'[s].record = dirty[s].record /\ dirty'[s].link = dirty[s].link
           /\ DOMAIN dirty'[s].lead = DOMAIN dirty[s].lead \cup {l}
           /\ dirty'[s].lead[l] = row
           /\ \A m \in DOMAIN dirty[s].lead : m # l => dirty'[s].lead[m] = dirty[s].lead[m]
           /\ \A t \in Sessions \ {s} : dirty'[t] = dirty[t]
<1>1. s \in Sessions /\ DOMAIN dirty = Sessions
      /\ DOMAIN dirty[s] = {"record", "lead", "link", "built"}
  BY DEF Sessions, Shape, DirtyShape
<1>2. /\ DOMAIN dirty' = Sessions
      /\ DOMAIN dirty'[s] = {"record", "lead", "link", "built"}
      /\ dirty'[s].record = dirty[s].record /\ dirty'[s].link = dirty[s].link
      /\ dirty'[s].lead = Written(dirty[s].lead, l, row)
      /\ \A t \in Sessions \ {s} : dirty'[t] = dirty[t]
  BY <1>1
<1>3. PICK old, new : old = dirty[s].lead /\ new = dirty'[s].lead
  OBVIOUS
<1>4. /\ DOMAIN new = DOMAIN old \cup {l} /\ new[l] = row
      /\ \A m \in DOMAIN old : m # l => new[m] = old[m]
  BY <1>2, <1>3 DEF Written, Over
<1>5. QED
  BY <1>2, <1>3, <1>4

\* A statement that leaves records and links as they are, and a lead that exists.
LEMMA LeadStep ==
    ASSUME Transactions, NEW s \in Collectors, NEW item, NEW pc, Continued(s, item, pc),
           UNCHANGED <<tables, now, request>>, issued'.record \in Nat,
           DOMAIN dirty' = Sessions, DirtyShape(dirty'[s]),
           dirty'[s].record = dirty[s].record, dirty'[s].link = dirty[s].link,
           DOMAIN dirty[s].lead \subseteq DOMAIN dirty'[s].lead,
           \A l \in DOMAIN dirty'[s].lead : dirty'[s].lead[l].firstSeen # 0,
           \A t \in Sessions \ {s} : dirty'[t] = dirty[t],
           run[s].pc \in {"applying", "creating"}, pc \in {"linking", "flagging", "open"},
           pc # "linking" => item.own # NoLead,
           item.key = run[s].item.key, item.id = run[s].item.id, item.own = run[s].item.own,
           item.target \in LeadIds
    PROVE  Transactions'
<1>1. ProgressOf(s) /\ DraftsOf(s) /\ OwnedOf(s)
  BY DEF Transactions
<1>2. StepOf(s)
  BY DEF StepOf, Continued, tables, Transactions, Rows
<1>3. ProgressOf(s)'
  <2>1. run'[s].pc = pc /\ run'[s].done = run[s].done /\ run'[s].stamp = run[s].stamp
    BY DEF Continued
  <2>2. CASE pc = "open"
    <3>1. run'[s].item.key = NoKey
      BY <2>2 DEF Continued, NoItem
    <3>2. QED
      BY <1>1, <2>1, <2>2, <3>1, Constants DEF ProgressOf, Working, Upserting
  <2>3. CASE pc # "open"
    <3>1. run'[s].item = item
      BY <2>3 DEF Continued
    <3>2. QED
      BY <1>1, <2>1, <2>3, <3>1 DEF ProgressOf, Working, Upserting
  <2>4. QED
    BY <2>2, <2>3
<1>4. DraftsOf(s)'
  BY <1>1 DEF DraftsOf, Continued
<1>5. OwnedOf(s)'
  <2>1. /\ record' = record /\ lead' = lead /\ dirty'[API] = dirty[API]
    BY Constants DEF tables, Sessions
  <2>2. ASSUME NEW k \in DOMAIN dirty[s].record, Kept(s, k) \/ Claimed(s, k)
        PROVE  Kept(s, k)' \/ Claimed(s, k)'
    BY <2>1, <2>2 DEF Kept, Claimed
  <2>3. ASSUME NEW k \in DOMAIN dirty[s].record, Unowned(s, k)
        PROVE  Unowned(s, k)'
    <3>1. run[s].item.own = NoLead /\ run[s].item.key = k
      BY <2>3 DEF Unowned
    <3>2. run'[s].pc = "linking" /\ run'[s].item = item
      BY <3>1 DEF Continued
    <3>3. QED
      BY <2>1, <2>3, <3>1, <3>2 DEF Unowned, Ownerless
  <2>4. QED
    BY <1>1, <2>2, <2>3 DEF OwnedOf
<1>6. QED
  BY <1>2, <1>3, <1>4, <1>5, StepFrame

LEMMA ApplyStep ==
    ASSUME Transactions, NEW s \in Collectors, Apply(s)
    PROVE  Transactions'
<1> DEFINE item == run[s].item
           pc == AfterMerge(item)
           row == Overlaid(s).lead[item.target]
           patched == Patched(row, item)
<1>1. /\ run[s].pc = "applying" /\ row # NoRow /\ Continue(s, item, pc) /\ UNCHANGED issued
      /\ dirty' = [dirty EXCEPT ![s].lead = Written(@, item.target, patched),
                                ![s].built = Written(@, item.target, item.from)]
  BY DEF Apply
<1>2. Shape /\ Rows /\ ProgressOf(s) /\ DraftsOf(s) /\ ItemShape(item) /\ DirtyShape(dirty[s])
  BY DEF Transactions, Shape, RunShape, ItemShape, Sessions
<1>3. item.target \in LeadIds
  BY <1>1, <1>2 DEF ProgressOf
<1>4. row.firstSeen # 0
  <2>1. CASE item.target \in DOMAIN dirty[s].lead
    BY <1>2, <1>3, <2>1, SeenLead DEF DraftsOf
  <2>2. CASE item.target \notin DOMAIN dirty[s].lead
    BY <1>1, <1>2, <1>3, <2>2, SeenLead DEF Rows
  <2>3. QED
    BY <2>1, <2>2
<1>5. patched.firstSeen # 0
  BY <1>4 DEF Patched
<1> HIDE DEF row, patched, item, pc
<1>6. Continued(s, item, pc) /\ UNCHANGED <<tables, now, request>>
  BY <1>1, <1>2, ContinueFacts
<1>7. PICK rows : dirty' = [dirty EXCEPT ![s].lead = Written(@, item.target, patched),
                                         ![s].built = rows]
  BY <1>1
<1>8. /\ DOMAIN dirty' = Sessions
      /\ DOMAIN dirty'[s] = {"record", "lead", "link", "built"}
      /\ dirty'[s].record = dirty[s].record /\ dirty'[s].link = dirty[s].link
      /\ DOMAIN dirty'[s].lead = DOMAIN dirty[s].lead \cup {item.target}
      /\ dirty'[s].lead[item.target] = patched
      /\ \A m \in DOMAIN dirty[s].lead : m # item.target => dirty'[s].lead[m] = dirty[s].lead[m]
      /\ \A t \in Sessions \ {s} : dirty'[t] = dirty[t]
  BY <1>2, <1>7, WriteLead
<1>9. DirtyShape(dirty'[s])
  BY <1>2, <1>3, <1>8 DEF DirtyShape
<1>10. \A l \in DOMAIN dirty'[s].lead : dirty'[s].lead[l].firstSeen # 0
  BY <1>2, <1>5, <1>8 DEF DraftsOf
<1>11. pc \in {"linking", "flagging", "open"} /\ (pc # "linking" => item.own # NoLead)
  BY <1>3, Constants DEF pc, AfterMerge
<1>12. issued'.record \in Nat
  BY <1>1, <1>2 DEF Rows
<1>13. QED
  BY <1>1, <1>3, <1>6, <1>8, <1>9, <1>10, <1>11, <1>12, LeadStep DEF item

LEMMA ApplyNothingStep ==
    ASSUME Transactions, NEW s \in Collectors, ApplyNothing(s)
    PROVE  Transactions'
<1> DEFINE item == run[s].item
           pc == AfterMerge(item)
<1>1. /\ run[s].pc = "applying" /\ Continue(s, item, pc) /\ UNCHANGED issued
      /\ Put(s, "built", item.target, Overlaid(s).built[item.target] \cup {item.key})
  BY DEF ApplyNothing
<1>2. Shape /\ Rows /\ ProgressOf(s) /\ DraftsOf(s) /\ ItemShape(item) /\ DirtyShape(dirty[s])
      /\ s \in Sessions
  BY DEF Transactions, Shape, RunShape, ItemShape, Sessions
<1>3. item.target \in LeadIds
  BY <1>1, <1>2 DEF ProgressOf
<1>4. Continued(s, item, pc) /\ UNCHANGED <<tables, now, request>>
  BY <1>1, <1>2, ContinueFacts
<1>5. /\ DOMAIN dirty' = Sessions
      /\ DOMAIN dirty'[s] = {"record", "lead", "link", "built"}
      /\ dirty'[s].record = dirty[s].record /\ dirty'[s].link = dirty[s].link
      /\ dirty'[s].lead = dirty[s].lead
      /\ \A t \in Sessions \ {s} : dirty'[t] = dirty[t]
  BY <1>1, <1>2 DEF Put, Shape, DirtyShape
<1>6. DirtyShape(dirty'[s])
  BY <1>2, <1>5 DEF DirtyShape
<1>7. \A l \in DOMAIN dirty'[s].lead : dirty'[s].lead[l].firstSeen # 0
  BY <1>2, <1>5 DEF DraftsOf
<1>8. pc \in {"linking", "flagging", "open"} /\ (pc # "linking" => item.own # NoLead)
  BY <1>3, Constants DEF AfterMerge
<1>9. issued'.record \in Nat
  BY <1>1, <1>2 DEF Rows
<1> HIDE DEF pc
<1>10. QED
  BY <1>1, <1>3, <1>4, <1>5, <1>6, <1>7, <1>8, <1>9, LeadStep

LEMMA CreateStep ==
    ASSUME Transactions, NEW s \in Collectors, Create(s)
    PROVE  Transactions'
<1> DEFINE l == issued.lead + 1
           item == [run[s].item EXCEPT !.target = l]
           row == Initial(s)
<1>1. /\ run[s].pc = "creating" /\ l \in LeadIds /\ Continue(s, item, "linking")
      /\ dirty' = [dirty EXCEPT ![s].lead = Written(@, l, row),
                                ![s].built = Written(@, l, {run[s].item.key})]
      /\ issued' = [issued EXCEPT !.lead = l]
  BY DEF Create
<1>2. Shape /\ Rows /\ ProgressOf(s) /\ DraftsOf(s) /\ ItemShape(run[s].item)
      /\ DirtyShape(dirty[s])
  BY DEF Transactions, Shape, RunShape, ItemShape, Sessions
<1>3. /\ ItemShape(item) /\ item.target = l /\ item.key = run[s].item.key
      /\ item.id = run[s].item.id /\ item.own = run[s].item.own
  BY <1>2 DEF ItemShape
<1>4. row.firstSeen # 0
  <2>1. PICK k : k = run[s].item.key
    OBVIOUS
  <2>2. row.firstSeen = Overlaid(s).record[k].collected
    BY <2>1 DEF Initial, Seen!Applied
  <2>3. k \in Keys /\ k \in DOMAIN dirty[s].record /\ run[s].stamp # 0
    BY <1>1, <1>2, <2>1 DEF ProgressOf, Working, Upserting
  <2>4. Overlaid(s).record[k] = dirty[s].record[k]
    BY <1>2, <2>3, SeenRecord
  <2>5. QED
    BY <1>2, <2>2, <2>3, <2>4 DEF DraftsOf
<1> HIDE DEF row, item, l
<1>6. Continued(s, item, "linking") /\ UNCHANGED <<tables, now, request>>
  BY <1>1, <1>2, <1>3, ContinueFacts
<1>7. PICK rows : dirty' = [dirty EXCEPT ![s].lead = Written(@, l, row), ![s].built = rows]
  BY <1>1
<1>8. /\ DOMAIN dirty' = Sessions
      /\ DOMAIN dirty'[s] = {"record", "lead", "link", "built"}
      /\ dirty'[s].record = dirty[s].record /\ dirty'[s].link = dirty[s].link
      /\ DOMAIN dirty'[s].lead = DOMAIN dirty[s].lead \cup {l}
      /\ dirty'[s].lead[l] = row
      /\ \A m \in DOMAIN dirty[s].lead : m # l => dirty'[s].lead[m] = dirty[s].lead[m]
      /\ \A t \in Sessions \ {s} : dirty'[t] = dirty[t]
  BY <1>2, <1>7, WriteLead
<1>9. DirtyShape(dirty'[s])
  BY <1>1, <1>2, <1>8 DEF DirtyShape
<1>10. \A m \in DOMAIN dirty'[s].lead : dirty'[s].lead[m].firstSeen # 0
  BY <1>2, <1>4, <1>8 DEF DraftsOf
<1>12. issued'.record \in Nat
  BY <1>1, <1>2 DEF Rows
<1>13. QED
  BY <1>1, <1>3, <1>6, <1>8, <1>9, <1>10, <1>12, LeadStep

\* A statement that links record k, which s is ingesting, or flags it for review.
LinkStepOf(s, k, pair, kind) ==
    /\ StepOf(s) /\ run'[s].done = run[s].done /\ run'[s].stamp = run[s].stamp
    /\ \/ run'[s].pc = "open" /\ run'[s].item = NoItem
       \/ run'[s].pc = "flagging" /\ run'[s].item.key = k /\ run'[s].item.id = run[s].item.id
              /\ run'[s].item.own = run[s].item.own
    /\ DOMAIN dirty'[s].record = DOMAIN dirty[s].record
    /\ dirty'[s].lead = dirty[s].lead
    /\ DOMAIN dirty'[s].link = DOMAIN dirty[s].link \cup {pair}
    /\ dirty'[s].link[pair] = kind
    /\ \A p \in DOMAIN dirty[s].link : p # pair => dirty'[s].link[p] = dirty[s].link[p]

LEMMA WriteLink ==
    ASSUME Transactions, NEW s \in Collectors, NEW k \in Keys, NEW l, NEW kind, kind # "none",
           run[s].pc \in {"linking", "flagging"}, k = run[s].item.key,
           LinkStepOf(s, k, <<l, k>>, kind),
           \A j \in DOMAIN dirty[s].record : j # k => dirty'[s].record[j] = dirty[s].record[j],
           DOMAIN dirty'[s].record[k] = {"id", "content", "collected", "lead"},
           dirty'[s].record[k].id # 0, dirty'[s].record[k].collected = run[s].stamp,
           Kept(s, k)' \/ Claimed(s, k)'
    PROVE  Transactions'
<1>1. ProgressOf(s) /\ DraftsOf(s) /\ OwnedOf(s) /\ StepOf(s)
  BY DEF Transactions, LinkStepOf
<1>2. k \in DOMAIN dirty[s].record /\ k \in run[s].done
  BY <1>1 DEF ProgressOf, Upserting, Working
<1>3. ProgressOf(s)'
  <2>1. \A m \in LeadIds : \A j \in Keys : <<m, j>> \in DOMAIN dirty'[s].link =>
            /\ j \in DOMAIN dirty'[s].record
            /\ dirty'[s].link[<<m, j>>] # "none"
    <3>1. ASSUME NEW m \in LeadIds, NEW j \in Keys, <<m, j>> \in DOMAIN dirty'[s].link
          PROVE  j \in DOMAIN dirty'[s].record /\ dirty'[s].link[<<m, j>>] # "none"
      <4>1. CASE <<m, j>> = <<l, k>>
        BY <1>2, <4>1 DEF LinkStepOf
      <4>2. CASE <<m, j>> # <<l, k>>
        <5>1. <<m, j>> \in DOMAIN dirty[s].link /\ dirty'[s].link[<<m, j>>] = dirty[s].link[<<m, j>>]
          BY <3>1, <4>2 DEF LinkStepOf
        <5>2. QED
          BY <1>1, <5>1 DEF ProgressOf, LinkStepOf
      <4>3. QED
        BY <4>1, <4>2
    <3>2. QED
      BY <3>1
  <2>2. /\ DOMAIN dirty'[s].record \subseteq run'[s].done
        /\ run'[s].stamp \in Nat \ {0}
    BY <1>1 DEF ProgressOf, LinkStepOf
  <2>3. CASE run'[s].pc = "open" /\ run'[s].item = NoItem
    <3>1. run'[s].item.key \notin Keys
      BY <2>3, Constants DEF NoItem
    <3>2. QED
      BY <2>1, <2>2, <2>3, <3>1 DEF ProgressOf, Working, Upserting
  <2>4. CASE run'[s].pc = "flagging" /\ run'[s].item.key = k /\ run'[s].item.id = run[s].item.id
              /\ run'[s].item.own = run[s].item.own
    <3>1. run[s].item.id = 0 => run[s].item.own = NoLead
      BY <1>1 DEF ProgressOf, Working
    <3>2. k \in DOMAIN dirty'[s].record /\ k \in run'[s].done
      BY <1>2 DEF LinkStepOf
    <3>3. QED
      BY <2>1, <2>2, <2>4, <3>1, <3>2 DEF ProgressOf, Working, Upserting
  <2>5. QED
    BY <2>3, <2>4 DEF LinkStepOf
<1>4. DraftsOf(s)'
  <2>1. ASSUME NEW j \in DOMAIN dirty'[s].record
        PROVE  /\ DOMAIN dirty'[s].record[j] = {"id", "content", "collected", "lead"}
               /\ dirty'[s].record[j].id # 0
               /\ dirty'[s].record[j].collected = run'[s].stamp
    <3>1. j \in DOMAIN dirty[s].record /\ run'[s].stamp = run[s].stamp
      BY DEF LinkStepOf
    <3>2. CASE j = k
      BY <3>1, <3>2
    <3>3. CASE j # k
      <4>1. dirty'[s].record[j] = dirty[s].record[j]
        BY <3>1, <3>3
      <4>2. QED
        BY <1>1, <3>1, <4>1 DEF DraftsOf
    <3>4. QED
      BY <3>2, <3>3
  <2>2. \A m \in DOMAIN dirty'[s].lead : dirty'[s].lead[m].firstSeen # 0
    BY <1>1 DEF DraftsOf, LinkStepOf
  <2>3. QED
    BY <2>1, <2>2 DEF DraftsOf
<1>5. OwnedOf(s)'
  <2>1. record' = record /\ lead' = lead /\ dirty'[API] = dirty[API]
    BY <1>1, Constants DEF StepOf, Sessions
  <2>2. ASSUME NEW j \in DOMAIN dirty[s].record, j # k
        PROVE  Kept(s, j)' \/ Claimed(s, j)'
    <3>1. Kept(s, j) \/ Claimed(s, j)
      BY <1>1, <2>2 DEF OwnedOf, Unowned
    <3>2. dirty'[s].record[j] = dirty[s].record[j] /\ dirty'[s].lead = dirty[s].lead
          /\ DOMAIN dirty[s].link \subseteq DOMAIN dirty'[s].link
      BY <2>2 DEF LinkStepOf
    <3>3. QED
      BY <2>1, <3>1, <3>2 DEF Kept, Claimed
  <2>3. QED
    BY <1>2, <2>2 DEF OwnedOf, LinkStepOf
<1>6. QED
  BY <1>1, <1>3, <1>4, <1>5, StepFrame DEF LinkStepOf

LEMMA FlagStep ==
    ASSUME Transactions, NEW s \in Collectors, Flag(s)
    PROVE  Transactions'
<1>0. PICK k, l : k = run[s].item.key /\ l = run[s].item.review
  OBVIOUS
<1>1. /\ run[s].pc = "flagging" /\ Continue(s, run[s].item, "open") /\ UNCHANGED issued
      /\ Put(s, "link", <<l, k>>, "review")
  BY <1>0 DEF Flag
<1>2. Shape /\ Rows /\ ProgressOf(s) /\ DraftsOf(s) /\ OwnedOf(s) /\ ItemShape(run[s].item)
      /\ DirtyShape(dirty[s]) /\ s \in Sessions
  BY DEF Transactions, Shape, RunShape, ItemShape, Sessions
<1>3. Continued(s, run[s].item, "open") /\ UNCHANGED <<tables, now, request>>
  BY <1>1, <1>2, ContinueFacts
<1>4. k \in Keys /\ k \in DOMAIN dirty[s].record
  BY <1>0, <1>1, <1>2 DEF ProgressOf, Upserting, Working
<1>5. /\ DOMAIN dirty' = Sessions
      /\ DOMAIN dirty'[s] = {"record", "lead", "link", "built"}
      /\ dirty'[s].record = dirty[s].record /\ dirty'[s].lead = dirty[s].lead
      /\ dirty'[s].link = Written(dirty[s].link, <<l, k>>, "review")
      /\ \A t \in Sessions \ {s} : dirty'[t] = dirty[t]
  BY <1>1, <1>2 DEF Put, Shape, DirtyShape
<1>6. /\ DOMAIN dirty'[s].link = DOMAIN dirty[s].link \cup {<<l, k>>}
      /\ dirty'[s].link[<<l, k>>] = "review"
      /\ \A p \in DOMAIN dirty[s].link : p # <<l, k>> => dirty'[s].link[p] = dirty[s].link[p]
  <2>1. PICK old, new : old = dirty[s].link /\ new = dirty'[s].link
    OBVIOUS
  <2>2. /\ DOMAIN new = DOMAIN old \cup {<<l, k>>} /\ new[<<l, k>>] = "review"
        /\ \A p \in DOMAIN old : p # <<l, k>> => new[p] = old[p]
    BY <1>5, <2>1 DEF Written, Over
  <2>3. QED
    BY <2>1, <2>2
<1>7. DirtyShape(dirty'[s])
  BY <1>2, <1>5 DEF DirtyShape
<1>8. StepOf(s)
  BY <1>1, <1>2, <1>3, <1>5, <1>7 DEF StepOf, Continued, tables, Rows
<1>9. LinkStepOf(s, k, <<l, k>>, "review")
  BY <1>3, <1>5, <1>6, <1>8 DEF LinkStepOf, Continued
<1>10. Kept(s, k)' \/ Claimed(s, k)'
  <2>1. Kept(s, k) \/ Claimed(s, k)
    BY <1>1, <1>2, <1>4 DEF OwnedOf, Unowned, Ownerless
  <2>2. record' = record /\ lead' = lead /\ dirty'[API] = dirty[API]
    BY <1>8, Constants DEF StepOf, Sessions
  <2>3. QED
    BY <1>5, <1>6, <2>1, <2>2 DEF Kept, Claimed
<1>11. /\ DOMAIN dirty'[s].record[k] = {"id", "content", "collected", "lead"}
       /\ dirty'[s].record[k].id # 0 /\ dirty'[s].record[k].collected = run[s].stamp
  BY <1>2, <1>4, <1>5 DEF DraftsOf
<1>12. \A j \in DOMAIN dirty[s].record : j # k => dirty'[s].record[j] = dirty[s].record[j]
  BY <1>5
<1>13. QED
  BY <1>0, <1>1, <1>4, <1>9, <1>10, <1>11, <1>12, WriteLink

\* The record that s has written, once s has linked it to lead l.
LinkedRecord(s, k, l) ==
    /\ \A j \in DOMAIN dirty[s].record : j # k => dirty'[s].record[j] = dirty[s].record[j]
    /\ DOMAIN dirty'[s].record[k] = {"id", "content", "collected", "lead"}
    /\ dirty'[s].record[k].id = dirty[s].record[k].id
    /\ dirty'[s].record[k].content = dirty[s].record[k].content
    /\ dirty'[s].record[k].collected = dirty[s].record[k].collected
    /\ dirty'[s].record[k].lead = IF link[l][k] = "none" THEN l ELSE dirty[s].record[k].lead

LEMMA LinkEffect ==
    ASSUME Transactions, NEW s \in Collectors, Link(s), NEW k, k = run[s].item.key,
           NEW l, l = run[s].item.target
    PROVE  /\ run[s].pc = "linking" /\ k \in Keys /\ k \in DOMAIN dirty[s].record
           /\ l \in LeadIds /\ l \notin DOMAIN dirty[API].lead
           /\ l \in DOMAIN dirty[s].lead \/ lead[l].firstSeen # 0
           /\ LinkStepOf(s, k, <<l, k>>, "merged") /\ LinkedRecord(s, k, l)
           /\ run'[s].listed = run[s].listed /\ now' = now /\ suppressed' = suppressed
<1> DEFINE claimed == [Overlaid(s).record[k] EXCEPT !.lead = l]
           pc == IF run[s].item.review # NoLead THEN "flagging" ELSE "open"
           tab == IF Seen(s)!LinkClaims(l, k) THEN Written(dirty[s].record, k, claimed)
                  ELSE dirty[s].record
<1>1. /\ run[s].pc = "linking" /\ Blockers(s) = {} /\ Seen(s)!Live(l) /\ UNCHANGED issued
      /\ Continue(s, run[s].item, pc)
      /\ dirty' = [dirty EXCEPT ![s].link = Written(@, <<l, k>>, "merged"),
                                ![s].record = IF Seen(s)!LinkClaims(l, k)
                                              THEN Written(@, k, claimed) ELSE @]
  BY DEF Link
<1>2. Shape /\ Rows /\ ProgressOf(s) /\ DraftsOf(s) /\ OwnedOf(s) /\ ItemShape(run[s].item)
      /\ DirtyShape(dirty[s]) /\ s \in Sessions /\ Erasing
  BY DEF Transactions, Shape, RunShape, ItemShape, Sessions
<1>3. k \in Keys /\ k \in DOMAIN dirty[s].record /\ l \in LeadIds
      /\ <<l, k>> \notin DOMAIN dirty[s].link
  BY <1>1, <1>2 DEF ProgressOf, Upserting, Working
<1>4. Continued(s, run[s].item, pc) /\ UNCHANGED <<tables, now, request>>
  BY <1>1, <1>2, ContinueFacts
<1>5. Seen(s)!LinkClaims(l, k) <=> link[l][k] = "none"
  BY <1>3, SeenLink DEF Seen!LinkClaims
<1>6. Overlaid(s).record[k] = dirty[s].record[k]
  BY <1>2, <1>3, SeenRecord
<1>7. l \in DOMAIN dirty[s].lead \/ lead[l].firstSeen # 0
  BY <1>1, <1>2, <1>3, SeenLead DEF Seen!Live
<1>8. l \notin DOMAIN dirty[API].lead
  <2>1. s # API /\ API \in Sessions
    BY Constants DEF Sessions
  <2>2. Deleters(s, l) = {}
    BY <1>1, <2>1 DEF Blockers
  <2>3. SUFFICES ASSUME l \in DOMAIN dirty[API].lead
                 PROVE  FALSE
    OBVIOUS
  <2>4. dirty[API].lead[l] = NoRow
    BY <1>2, <2>3 DEF Erasing
  <2>5. QED
    BY <2>1, <2>2, <2>3, <2>4 DEF Deleters, Holders
<1>9. /\ DOMAIN dirty' = Sessions
      /\ DOMAIN dirty'[s] = {"record", "lead", "link", "built"}
      /\ dirty'[s].record = tab /\ dirty'[s].lead = dirty[s].lead
      /\ dirty'[s].link = Written(dirty[s].link, <<l, k>>, "merged")
      /\ \A t \in Sessions \ {s} : dirty'[t] = dirty[t]
  BY <1>1, <1>2 DEF Shape, DirtyShape
<1>10. /\ DOMAIN claimed = {"id", "content", "collected", "lead"}
       /\ claimed.id = dirty[s].record[k].id
       /\ claimed.content = dirty[s].record[k].content
       /\ claimed.collected = dirty[s].record[k].collected
       /\ claimed.lead = l
  BY <1>2, <1>3, <1>6 DEF DraftsOf
<1> HIDE DEF claimed, pc
<1>11. /\ DOMAIN dirty'[s].record = DOMAIN dirty[s].record
       /\ \A j \in DOMAIN dirty[s].record : j # k => dirty'[s].record[j] = dirty[s].record[j]
       /\ dirty'[s].record[k] = IF link[l][k] = "none" THEN claimed ELSE dirty[s].record[k]
  <2>1. PICK old, new : old = dirty[s].record /\ new = dirty'[s].record
    OBVIOUS
  <2>2. k \in DOMAIN old /\ new = IF link[l][k] = "none" THEN Written(old, k, claimed) ELSE old
    BY <1>3, <1>5, <1>9, <2>1
  <2>3. /\ DOMAIN new = DOMAIN old
        /\ \A j \in DOMAIN old : j # k => new[j] = old[j]
        /\ new[k] = IF link[l][k] = "none" THEN claimed ELSE old[k]
    BY <2>2 DEF Written, Over
  <2>4. QED
    BY <2>1, <2>3
<1>12. /\ DOMAIN dirty'[s].record[k] = {"id", "content", "collected", "lead"}
       /\ dirty'[s].record[k].id = dirty[s].record[k].id
       /\ dirty'[s].record[k].content = dirty[s].record[k].content
       /\ dirty'[s].record[k].collected = dirty[s].record[k].collected
       /\ dirty'[s].record[k].lead = IF link[l][k] = "none" THEN l
                                    ELSE dirty[s].record[k].lead
  BY <1>2, <1>3, <1>10, <1>11 DEF DraftsOf
<1>13. /\ DOMAIN dirty'[s].link = DOMAIN dirty[s].link \cup {<<l, k>>}
       /\ dirty'[s].link[<<l, k>>] = "merged"
       /\ \A p \in DOMAIN dirty[s].link : p # <<l, k>> => dirty'[s].link[p] = dirty[s].link[p]
  <2>1. PICK old, new : old = dirty[s].link /\ new = dirty'[s].link
    OBVIOUS
  <2>2. /\ DOMAIN new = DOMAIN old \cup {<<l, k>>} /\ new[<<l, k>>] = "merged"
        /\ \A p \in DOMAIN old : p # <<l, k>> => new[p] = old[p]
    BY <1>9, <2>1 DEF Written, Over
  <2>3. QED
    BY <2>1, <2>2
<1> HIDE DEF tab
<1>14. DirtyShape(dirty'[s])
  BY <1>2, <1>3, <1>9, <1>11 DEF DirtyShape
<1>15. StepOf(s)
  BY <1>1, <1>2, <1>4, <1>9, <1>14 DEF StepOf, Continued, tables, Rows
<1>16. LinkStepOf(s, k, <<l, k>>, "merged")
  BY <1>4, <1>9, <1>11, <1>13, <1>15 DEF LinkStepOf, Continued, pc
<1>17. run'[s].listed = run[s].listed /\ now' = now /\ suppressed' = suppressed
  BY <1>4 DEF Continued, tables
<1>18. run[s].pc = "linking"
  BY <1>1
<1>19. LinkedRecord(s, k, l)
  BY <1>11, <1>12 DEF LinkedRecord
<1>20. QED
  BY <1>3, <1>7, <1>8, <1>16, <1>17, <1>18, <1>19

LEMMA LinkStep ==
    ASSUME Transactions, NEW s \in Collectors, Link(s)
    PROVE  Transactions'
<1>0. PICK k, l : k = run[s].item.key /\ l = run[s].item.target
  OBVIOUS
<1>1. /\ run[s].pc = "linking" /\ k \in Keys /\ k \in DOMAIN dirty[s].record
      /\ l \in LeadIds /\ l \notin DOMAIN dirty[API].lead
      /\ l \in DOMAIN dirty[s].lead \/ lead[l].firstSeen # 0
      /\ LinkStepOf(s, k, <<l, k>>, "merged") /\ LinkedRecord(s, k, l)
  BY <1>0, LinkEffect
<1>2. \A j \in DOMAIN dirty[s].record : j # k => dirty'[s].record[j] = dirty[s].record[j]
  BY <1>1 DEF LinkedRecord
<1>3. /\ DOMAIN dirty'[s].record[k] = {"id", "content", "collected", "lead"}
      /\ dirty'[s].record[k].id = dirty[s].record[k].id
      /\ dirty'[s].record[k].collected = dirty[s].record[k].collected
      /\ dirty'[s].record[k].lead = IF link[l][k] = "none" THEN l ELSE dirty[s].record[k].lead
  BY <1>1 DEF LinkedRecord
<1>4. ProgressOf(s) /\ DraftsOf(s) /\ OwnedOf(s) /\ Linked /\ LinksKnown /\ Rows
  BY DEF Transactions
<1>5. dirty'[s].record[k].id # 0 /\ dirty'[s].record[k].collected = run[s].stamp
  BY <1>1, <1>3, <1>4 DEF DraftsOf
<1>6. record' = record /\ lead' = lead /\ dirty'[API] = dirty[API] /\ dirty'[s].lead = dirty[s].lead
      /\ <<l, k>> \in DOMAIN dirty'[s].link
  BY <1>1, Constants DEF LinkStepOf, StepOf, Sessions
<1>7. CASE link[l][k] = "none"
  <2>1. dirty'[s].record[k].lead = l
    BY <1>3, <1>7
  <2>2. l # record[k].lead
    <3>1. CASE record[k].id = 0
      BY <1>1, <1>4, <3>1, Constants DEF Rows, NoRecord, Committed!NoRecord, NoLead, Committed!NoLead
    <3>2. CASE record[k].id # 0
      BY <1>1, <1>4, <1>7, <3>2 DEF Linked
    <3>3. QED
      BY <3>1, <3>2
  <2>3. Claimed(s, k)'
    BY <1>1, <1>6, <2>1, <2>2 DEF Claimed
  <2>4. QED
    BY <1>0, <1>1, <1>2, <1>3, <1>5, <2>3, WriteLink
<1>8. CASE link[l][k] # "none"
  <2>1. record[k].id # 0
    BY <1>1, <1>4, <1>8 DEF LinksKnown, Committed!Stored
  <2>2. \A m \in LeadIds : <<m, k>> \notin DOMAIN dirty[s].link
    BY <1>0, <1>1, <1>4 DEF ProgressOf, Working
  <2>3. Kept(s, k)
    BY <1>1, <1>4, <2>1, <2>2 DEF OwnedOf, Unowned, Claimed
  <2>4. Kept(s, k)'
    BY <1>3, <1>6, <1>8, <2>3 DEF Kept
  <2>5. QED
    BY <1>0, <1>1, <1>2, <1>3, <1>5, <2>4, WriteLink
<1>9. QED
  BY <1>7, <1>8

-----------------------------------------------------------------------------
(***************************************************************************)
(* The end of a transaction of a collection.                               *)
(***************************************************************************)
LEMMA RollbackStep ==
    ASSUME Transactions, NEW s \in Collectors, Rollback(s), UNCHANGED <<issued, now, request>>,
           DOMAIN run' = Collectors, RunShape(run'[s]), run'[s].pc \in {"idle", "broken"},
           \A t \in Collectors \ {s} : run'[t] = run[t]
    PROVE  Transactions'
<1>1. s \in Sessions /\ DOMAIN dirty = Sessions
  BY DEF Transactions, Shape, Sessions
<1>2. /\ DOMAIN dirty' = Sessions /\ dirty'[s] = Clean /\ UNCHANGED tables
      /\ \A t \in Sessions \ {s} : dirty'[t] = dirty[t]
  BY <1>1 DEF Rollback
<1>3. StepOf(s)
  BY <1>2, CleanFacts DEF StepOf, tables, Transactions, Rows
<1>4. ProgressOf(s)' /\ DraftsOf(s)' /\ OwnedOf(s)'
  BY <1>2, CleanFacts DEF ProgressOf, DraftsOf, OwnedOf, Working, Upserting
<1>5. QED
  BY <1>2, <1>3, <1>4, CleanFacts, StepFrame

LEMMA BreakStep ==
    ASSUME Transactions, NEW s \in Collectors, Break(s)
    PROVE  Transactions'
<1>1. /\ Rollback(s) /\ UNCHANGED <<issued, now, request>>
      /\ run' = [run EXCEPT ![s].pc = "broken", ![s].item = NoItem]
  BY DEF Break
<1>2. DOMAIN run = Collectors /\ RunShape(run[s])
  BY DEF Transactions, Shape
<1>3. /\ DOMAIN run' = Collectors /\ run'[s].pc = "broken" /\ run'[s].item = NoItem
      /\ DOMAIN run'[s] = {"pc", "source", "stamp", "listed", "done", "item"}
      /\ \A t \in Collectors \ {s} : run'[t] = run[t]
  BY <1>1, <1>2 DEF RunShape
<1>4. RunShape(run'[s])
  BY <1>3 DEF RunShape, NoItem
<1>5. QED
  BY <1>1, <1>3, <1>4, RollbackStep

LEMMA AbortStep ==
    ASSUME Transactions, NEW s \in Collectors, Abort(s)
    PROVE  Transactions'
<1>1. /\ Rollback(s) /\ UNCHANGED <<issued, now, request>> /\ run' = [run EXCEPT ![s] = NoRun]
  BY DEF Abort
<1>2. /\ DOMAIN run' = Collectors /\ run'[s] = NoRun
      /\ \A t \in Collectors \ {s} : run'[t] = run[t]
  BY <1>1 DEF Transactions, Shape
<1>3. QED
  BY <1>1, <1>2, NoRunFacts, RollbackStep

\* A row that is committed afterwards shows it, and only rows that are have links.
LEMMA PublishRows ==
    ASSUME Shape, Rows, LinksKnown, NEW s \in Sessions, Publish(s),
           \A k \in DOMAIN dirty[s].record : dirty[s].record[k].id = 0
                                                => dirty[s].record[k] = NoRecord,
           \A l \in DOMAIN dirty[s].lead : dirty[s].lead[l].firstSeen = 0
                                                => dirty[s].lead[l] = NoRow,
           UNCHANGED <<issued, now>>
    PROVE  Rows' /\ LinksKnown'
<1>1. \A k \in Keys : record'[k] = IF k \in DOMAIN dirty[s].record
                                  THEN dirty[s].record[k] ELSE record[k]
  BY PublishFacts
<1>2. \A l \in LeadIds : lead'[l] = IF l \in DOMAIN dirty[s].lead
                                   THEN dirty[s].lead[l] ELSE lead[l]
  BY PublishFacts
<1>3. Rows'
  BY <1>1, <1>2 DEF Rows
<1>4. \A l \in LeadIds : \A k \in Keys :
          link'[l][k] # "none" => lead'[l] # NoRow /\ record'[k] # NoRecord
  BY PublishFacts
<1>5. LinksKnown'
  BY <1>3, <1>4 DEF Rows, LinksKnown, Committed!Live, Committed!Stored
<1>6. QED
  BY <1>3, <1>5

LEMMA FinishStep ==
    ASSUME Transactions, NEW s \in Collectors, Finish(s)
    PROVE  Transactions'
<1>1. /\ run[s].pc = "open" /\ Publish(s) /\ run' = [run EXCEPT ![s] = NoRun]
      /\ UNCHANGED <<suppressed, issued, now, request>>
  BY DEF Finish
<1>2. /\ Shape /\ Rows /\ Erasing /\ Exclusive /\ Linked /\ LinksKnown
      /\ ProgressOf(s) /\ DraftsOf(s) /\ OwnedOf(s)
  BY DEF Transactions
<1>3. s \in Sessions /\ API \in Sessions /\ s # API /\ Collectors \subseteq Sessions
  BY Constants DEF Sessions
<1>4. /\ DOMAIN run' = Collectors /\ run'[s] = NoRun
      /\ \A t \in Collectors \ {s} : run'[t] = run[t]
  BY <1>1, <1>2 DEF Shape
<1>5. /\ DOMAIN dirty' = Sessions /\ dirty'[s] = Clean
      /\ \A t \in Sessions \ {s} : dirty'[t] = dirty[t]
      /\ DOMAIN record' = Keys /\ DOMAIN lead' = LeadIds
  BY <1>1, <1>2, <1>3, PublishFacts
<1>6. \A k \in Keys : record'[k] = IF k \in DOMAIN dirty[s].record
                                  THEN dirty[s].record[k] ELSE record[k]
  BY <1>1, <1>2, <1>3, PublishFacts
<1>7. \A l \in LeadIds : lead'[l] = IF l \in DOMAIN dirty[s].lead
                                   THEN dirty[s].lead[l] ELSE lead[l]
  BY <1>1, <1>2, <1>3, PublishFacts
<1>8. \A l \in LeadIds : \A k \in Keys :
         link'[l][k] = IF lead'[l] = NoRow \/ record'[k] = NoRecord THEN "none"
                       ELSE IF <<l, k>> \in DOMAIN dirty[s].link
                            THEN dirty[s].link[<<l, k>>] ELSE link[l][k]
  BY <1>1, <1>2, <1>3, PublishFacts
<1>9. Shape'
  BY <1>2, <1>4, <1>5, CleanFacts, NoRunFacts DEF Shape
<1>10. Rows' /\ LinksKnown'
  BY <1>1, <1>2, <1>3, PublishRows DEF DraftsOf
<1>11. Erasing'
  <2>1. dirty'[API] = dirty[API] /\ request' = request
    BY <1>1, <1>3, <1>5
  <2>2. QED
    BY <1>2, <2>1 DEF Erasing
<1>12. Exclusive'
  BY <1>2, <1>5, CleanFacts DEF Exclusive
<1>13. \A l \in LeadIds : lead[l].firstSeen # 0 \/ l \in DOMAIN dirty[s].lead
                             => lead'[l].firstSeen # 0
  BY <1>2, <1>7 DEF DraftsOf
<1>14. Linked'
  <2>1. SUFFICES ASSUME NEW k \in Keys, record'[k].id # 0
                 PROVE  /\ record'[k].lead \in LeadIds
                        /\ lead'[record'[k].lead].firstSeen # 0
                        /\ link'[record'[k].lead][k] # "none"
    BY DEF Linked
  <2>2. ASSUME NEW l \in LeadIds, lead'[l].firstSeen # 0,
               <<l, k>> \in DOMAIN dirty[s].link \/ link[l][k] # "none"
        PROVE  link'[l][k] # "none"
    <3>1. lead'[l] # NoRow /\ record'[k] # NoRecord
      BY <2>1, <2>2 DEF NoRow, Committed!NoRow, NoRecord, Committed!NoRecord
    <3>2. <<l, k>> \in DOMAIN dirty[s].link => dirty[s].link[<<l, k>>] # "none"
      BY <1>2 DEF ProgressOf
    <3>3. QED
      BY <1>8, <2>2, <3>1, <3>2
  <2>3. CASE record[k].id # 0 /\ record'[k].lead = record[k].lead
    <3>1. /\ record[k].lead \in LeadIds /\ lead[record[k].lead].firstSeen # 0
          /\ link[record[k].lead][k] # "none"
      BY <1>2, <2>3 DEF Linked
    <3>2. QED
      BY <1>13, <2>2, <2>3, <3>1
  <2>4. CASE k \in DOMAIN dirty[s].record /\ Claimed(s, k)
    <3>1. PICK l : l = dirty[s].record[k].lead
      OBVIOUS
    <3>2. /\ l \in LeadIds /\ <<l, k>> \in DOMAIN dirty[s].link
          /\ l \in DOMAIN dirty[s].lead \/ lead[l].firstSeen # 0
      BY <2>4, <3>1 DEF Claimed
    <3>3. record'[k].lead = l
      BY <1>6, <2>4, <3>1
    <3>4. QED
      BY <1>13, <2>2, <3>2, <3>3
  <2>5. CASE k \in DOMAIN dirty[s].record /\ ~Claimed(s, k)
    <3>1. Kept(s, k)
      BY <1>1, <1>2, <2>5 DEF OwnedOf, Unowned, Ownerless
    <3>2. QED
      BY <1>6, <2>3, <2>5, <3>1 DEF Kept
  <2>6. CASE k \notin DOMAIN dirty[s].record
    BY <1>6, <2>1, <2>3, <2>6
  <2>7. QED
    BY <2>4, <2>5, <2>6
<1>15. ProgressOf(s)' /\ DraftsOf(s)' /\ OwnedOf(s)'
  BY <1>4, <1>5, CleanFacts, NoRunFacts DEF ProgressOf, DraftsOf, OwnedOf, Working, Upserting
<1>16. ASSUME NEW t \in Collectors, t # s
       PROVE  (ProgressOf(t) /\ DraftsOf(t) /\ OwnedOf(t))'
  <2>1. ProgressOf(t) /\ DraftsOf(t) /\ OwnedOf(t)
    BY DEF Transactions
  <2>2. /\ run'[t] = run[t] /\ dirty'[t] = dirty[t] /\ dirty'[API] = dirty[API]
        /\ DOMAIN dirty[t].record \subseteq Keys
    BY <1>2, <1>3, <1>4, <1>5, <1>16 DEF Shape, DirtyShape
  <2>3. ProgressOf(t)' /\ DraftsOf(t)'
    BY <2>1, <2>2 DEF ProgressOf, DraftsOf
  <2>4. ASSUME NEW k \in DOMAIN dirty[t].record
        PROVE  (Kept(t, k) \/ Unowned(t, k) \/ Claimed(t, k))'
    <3>1. k \notin DOMAIN dirty[s].record /\ k \in Keys
      BY <1>2, <1>3, <1>16, <2>2 DEF Exclusive
    <3>2. record'[k] = record[k]
      BY <1>6, <3>1
    <3>3. Kept(t, k) \/ Unowned(t, k) \/ Claimed(t, k)
      BY <2>1 DEF OwnedOf
    <3>4. CASE Kept(t, k) \/ Unowned(t, k)
      BY <2>2, <3>2, <3>4 DEF Kept, Unowned
    <3>5. CASE Claimed(t, k)
      BY <1>13, <2>2, <3>2, <3>5 DEF Claimed
    <3>6. QED
      BY <3>3, <3>4, <3>5
  <2>5. OwnedOf(t)'
    BY <2>2, <2>4 DEF OwnedOf
  <2>6. QED
    BY <2>3, <2>5
<1>17. QED
  BY <1>9, <1>10, <1>11, <1>12, <1>14, <1>15, <1>16 DEF Transactions

-----------------------------------------------------------------------------
(***************************************************************************)
(* Requests.                                                               *)
(***************************************************************************)
\* A statement of the request that commits nothing.
LEMMA RequestFrame ==
    ASSUME Transactions, UNCHANGED <<record, lead, link, issued, now, run>>,
           DOMAIN dirty' = Sessions, DirtyShape(dirty'[API]), Erasing',
           \A t \in Collectors : dirty'[t] = dirty[t],
           \A k \in DOMAIN dirty'[API].record : k \in DOMAIN dirty[API].record \/
               \A t \in Collectors : k \notin DOMAIN dirty[t].record,
           \A t \in Collectors : \A k \in DOMAIN dirty[t].record :
               Claimed(t, k) => dirty[t].record[k].lead \notin DOMAIN dirty'[API].lead
    PROVE  Transactions'
<1>1. Shape /\ Rows /\ Exclusive /\ Linked /\ LinksKnown
  BY DEF Transactions
<1>2. Shape'
  BY <1>1 DEF Shape, Sessions
<1>3. Rows' /\ Linked' /\ LinksKnown'
  BY <1>1 DEF Rows, Linked, LinksKnown, Committed!Live, Committed!Stored
<1>4. Exclusive'
  <2>1. \A t \in Collectors : DOMAIN dirty'[API].record \cap DOMAIN dirty[t].record = {}
    BY <1>1, Constants DEF Exclusive, Sessions
  <2>2. QED
    BY <1>1, <2>1, Constants DEF Exclusive, Sessions
<1>5. ASSUME NEW t \in Collectors
      PROVE  (ProgressOf(t) /\ DraftsOf(t) /\ OwnedOf(t))'
  <2>1. ProgressOf(t) /\ DraftsOf(t) /\ OwnedOf(t) /\ run' = run /\ dirty'[t] = dirty[t]
    BY DEF Transactions
  <2>2. ProgressOf(t)' /\ DraftsOf(t)'
    BY <2>1 DEF ProgressOf, DraftsOf
  <2>3. OwnedOf(t)'
    BY <2>1 DEF OwnedOf, Kept, Unowned, Claimed
  <2>4. QED
    BY <2>2, <2>3
<1>6. QED
  BY <1>2, <1>3, <1>4, <1>5 DEF Transactions

LEMMA RequestStep ==
    ASSUME Transactions, NEW l \in LeadIds, Request(l)
    PROVE  Transactions'
<1>1. /\ request.pc = "idle" /\ request'.pc = "deleting" /\ request'.lead = l
      /\ UNCHANGED <<record, lead, link, issued, now, run, dirty>>
  BY DEF Request, tables
<1>2. Erasing /\ Shape /\ API \in Sessions
  BY DEF Transactions, Sessions
<1>3. dirty[API] = Clean
  BY <1>1, <1>2 DEF Erasing
<1>4. Erasing'
  BY <1>1, <1>3, CleanFacts DEF Erasing
<1>5. QED
  BY <1>1, <1>2, <1>3, <1>4, CleanFacts, RequestFrame DEF Shape

\* Nobody has claimed a record for the lead, and nobody has touched it.
LEMMA DeleteStep ==
    ASSUME Transactions, Delete
    PROVE  Transactions'
<1>0. PICK l : l = request.lead
  OBVIOUS
<1>1. /\ request.pc = "deleting" /\ Blockers(API) = {}
      /\ dirty' = IF Committed!Live(l)
                  THEN [dirty EXCEPT ![API]["lead"] = Written(@, l, NoRow)] ELSE dirty
      /\ request' = [request EXCEPT !.pc = "cascading"]
      /\ UNCHANGED <<record, lead, link, issued, now, run>>
  BY <1>0 DEF Delete, Put, tables
<1>2. Erasing /\ Shape /\ API \in Sessions /\ Collectors \subseteq Sessions
  BY DEF Transactions, Sessions
<1>3. dirty[API] = Clean /\ l \in LeadIds
  BY <1>0, <1>1, <1>2 DEF Erasing
<1>4. /\ DOMAIN dirty' = Sessions /\ \A t \in Collectors : dirty'[t] = dirty[t]
  BY <1>1, <1>2, Constants DEF Shape
<1>5. /\ DOMAIN dirty'[API] = {"record", "lead", "link", "built"}
      /\ DOMAIN dirty'[API].record = {} /\ DOMAIN dirty'[API].link = {}
      /\ \A m \in DOMAIN dirty'[API].lead : m = l /\ dirty'[API].lead[m] = NoRow
  <2>1. CASE Committed!Live(l)
    <3>1. /\ DOMAIN dirty'[API] = {"record", "lead", "link", "built"}
          /\ dirty'[API].record = Clean.record /\ dirty'[API].link = Clean.link
          /\ dirty'[API].lead = Written(Clean.lead, l, NoRow)
      BY <1>1, <1>2, <1>3, <2>1, CleanFacts DEF Shape, DirtyShape
    <3>2. QED
      BY <3>1, CleanFacts DEF Written, Over
  <2>2. CASE ~Committed!Live(l)
    BY <1>1, <1>3, <2>2, CleanFacts DEF DirtyShape
  <2>3. QED
    BY <2>1, <2>2
<1>6. DirtyShape(dirty'[API])
  BY <1>3, <1>5 DEF DirtyShape
<1>7. request'.pc = "cascading" /\ request'.lead = l
  <2>1. request.pc # "idle" => request.lead \in LeadIds
    BY <1>2 DEF Erasing
  <2>2. QED
    BY <1>0, <1>1
<1>8. Erasing'
  BY <1>3, <1>5, <1>7 DEF Erasing
<1>9. ASSUME NEW t \in Collectors, NEW k \in DOMAIN dirty[t].record, Claimed(t, k)
      PROVE  dirty[t].record[k].lead \notin DOMAIN dirty'[API].lead
  <2>1. k \in Keys
    BY <1>2 DEF Shape, DirtyShape
  <2>2. Referrers(API, l) = {}
    BY <1>0, <1>1 DEF Blockers
  <2>3. dirty[t].record[k].lead # l
    BY <1>2, <1>9, <2>1, <2>2, Constants DEF Referrers, Claimed
  <2>4. QED
    BY <1>5, <2>3
<1>10. QED
  BY <1>1, <1>4, <1>5, <1>6, <1>8, <1>9, RequestFrame

LEMMA CascadeStep ==
    ASSUME Transactions, NEW k \in Keys, Cascade(k)
    PROVE  Transactions'
<1>1. /\ request.pc = "cascading" /\ Holders(API, "record", k) = {}
      /\ dirty' = [dirty EXCEPT ![API]["record"] = Written(@, k, NoRecord)]
      /\ UNCHANGED <<record, lead, link, issued, now, run, request>>
  BY DEF Cascade, Put, tables
<1>2. Erasing /\ Shape /\ API \in Sessions /\ Collectors \subseteq Sessions
      /\ DirtyShape(dirty[API])
  BY DEF Transactions, Shape, Sessions
<1>3. /\ DOMAIN dirty' = Sessions /\ \A t \in Collectors : dirty'[t] = dirty[t]
      /\ DOMAIN dirty'[API] = {"record", "lead", "link", "built"}
      /\ dirty'[API].record = Written(dirty[API].record, k, NoRecord)
      /\ dirty'[API].lead = dirty[API].lead /\ dirty'[API].link = dirty[API].link
  BY <1>1, <1>2, Constants DEF Shape, DirtyShape
<1>4. /\ DOMAIN dirty'[API].record = DOMAIN dirty[API].record \cup {k}
      /\ dirty'[API].record[k] = NoRecord
      /\ \A j \in DOMAIN dirty[API].record : j # k => dirty'[API].record[j] = dirty[API].record[j]
  <2>1. PICK old, new : old = dirty[API].record /\ new = dirty'[API].record
    OBVIOUS
  <2>2. /\ DOMAIN new = DOMAIN old \cup {k} /\ new[k] = NoRecord
        /\ \A j \in DOMAIN old : j # k => new[j] = old[j]
    BY <1>3, <2>1 DEF Written, Over
  <2>3. QED
    BY <2>1, <2>2
<1>5. DirtyShape(dirty'[API])
  BY <1>2, <1>3, <1>4 DEF DirtyShape
<1>6. Erasing'
  BY <1>1, <1>2, <1>3, <1>4 DEF Erasing
<1>7. \A t \in Collectors : k \notin DOMAIN dirty[t].record
  BY <1>1, <1>2, Constants DEF Holders
<1>8. \A t \in Collectors : \A j \in DOMAIN dirty[t].record :
          Claimed(t, j) => dirty[t].record[j].lead \notin DOMAIN dirty'[API].lead
  BY <1>3 DEF Claimed
<1>9. QED
  BY <1>1, <1>3, <1>4, <1>5, <1>6, <1>7, <1>8, RequestFrame

LEMMA CommitDeleteStep ==
    ASSUME Transactions, CommitDelete
    PROVE  Transactions'
<1>1. /\ request.pc = "cascading" /\ Orphans = {} /\ Publish(API) /\ request' = NoRequest
      /\ UNCHANGED <<issued, now, run>>
  BY DEF CommitDelete
<1>2. Erasing /\ Shape /\ Rows /\ Exclusive /\ Linked /\ LinksKnown
      /\ API \in Sessions /\ Collectors \subseteq Sessions
  BY DEF Transactions, Sessions
<1>3. /\ DOMAIN dirty' = Sessions /\ dirty'[API] = Clean
      /\ \A t \in Sessions \ {API} : dirty'[t] = dirty[t]
      /\ DOMAIN record' = Keys /\ DOMAIN lead' = LeadIds
  BY <1>1, <1>2, PublishFacts
<1>4. \A k \in Keys : record'[k] = IF k \in DOMAIN dirty[API].record
                                  THEN dirty[API].record[k] ELSE record[k]
  BY <1>1, <1>2, PublishFacts
<1>5. \A l \in LeadIds : lead'[l] = IF l \in DOMAIN dirty[API].lead
                                   THEN dirty[API].lead[l] ELSE lead[l]
  BY <1>1, <1>2, PublishFacts
<1>6. \A l \in LeadIds : \A k \in Keys :
         link'[l][k] = IF lead'[l] = NoRow \/ record'[k] = NoRecord THEN "none"
                       ELSE IF <<l, k>> \in DOMAIN dirty[API].link
                            THEN dirty[API].link[<<l, k>>] ELSE link[l][k]
  BY <1>1, <1>2, PublishFacts
<1>7. Shape'
  BY <1>1, <1>2, <1>3, CleanFacts, Constants DEF Shape, Sessions
<1>8. Rows' /\ LinksKnown'
  BY <1>1, <1>2, PublishRows DEF Erasing
<1>9. Erasing'
  BY <1>1, <1>3, CleanFacts DEF Erasing, NoRequest
<1>10. Exclusive'
  BY <1>2, <1>3, CleanFacts DEF Exclusive
<1>11. Linked'
  <2>1. SUFFICES ASSUME NEW k \in Keys, record'[k].id # 0
                 PROVE  /\ record'[k].lead \in LeadIds
                        /\ lead'[record'[k].lead].firstSeen # 0
                        /\ link'[record'[k].lead][k] # "none"
    BY DEF Linked
  <2>2. k \notin DOMAIN dirty[API].record /\ record'[k] = record[k]
    BY <1>2, <1>4, <2>1 DEF Erasing, NoRecord, Committed!NoRecord
  <2>3. PICK l : l = record[k].lead
    OBVIOUS
  <2>4. l \in LeadIds /\ lead[l].firstSeen # 0 /\ link[l][k] # "none"
    BY <1>2, <2>1, <2>2, <2>3 DEF Linked
  <2>5. l # request.lead
    BY <1>1, <2>2, <2>3 DEF Orphans
  <2>6. lead'[l] = lead[l]
    BY <1>2, <1>5, <2>4, <2>5 DEF Erasing
  <2>7. lead'[l] # NoRow /\ record'[k] # NoRecord
    BY <2>1, <2>4, <2>6 DEF NoRow, Committed!NoRow, NoRecord, Committed!NoRecord
  <2>8. link'[l][k] = link[l][k]
    BY <1>2, <1>6, <2>4, <2>7 DEF Erasing
  <2>9. QED
    BY <2>2, <2>3, <2>4, <2>6, <2>8
<1>12. ASSUME NEW t \in Collectors
       PROVE  (ProgressOf(t) /\ DraftsOf(t) /\ OwnedOf(t))'
  <2>1. ProgressOf(t) /\ DraftsOf(t) /\ OwnedOf(t) /\ t # API
    BY Constants DEF Transactions
  <2>2. /\ run' = run /\ dirty'[t] = dirty[t] /\ DOMAIN dirty[t].record \subseteq Keys
    BY <1>1, <1>2, <1>3, <2>1 DEF Shape, DirtyShape
  <2>3. ProgressOf(t)' /\ DraftsOf(t)'
    BY <2>1, <2>2 DEF ProgressOf, DraftsOf
  <2>4. ASSUME NEW k \in DOMAIN dirty[t].record
        PROVE  (Kept(t, k) \/ Unowned(t, k) \/ Claimed(t, k))'
    <3>1. k \notin DOMAIN dirty[API].record /\ k \in Keys
      BY <1>2, <2>1, <2>2 DEF Exclusive
    <3>2. record'[k] = record[k]
      BY <1>4, <3>1
    <3>3. Kept(t, k) \/ Unowned(t, k) \/ Claimed(t, k)
      BY <2>1 DEF OwnedOf
    <3>4. CASE Kept(t, k) \/ Unowned(t, k)
      BY <2>2, <3>2, <3>4 DEF Kept, Unowned
    <3>5. CASE Claimed(t, k)
      BY <1>3, <1>5, <2>2, <3>2, <3>5, CleanFacts DEF Claimed
    <3>6. QED
      BY <3>3, <3>4, <3>5
  <2>5. OwnedOf(t)'
    BY <2>2, <2>4 DEF OwnedOf
  <2>6. QED
    BY <2>3, <2>5
<1>13. QED
  BY <1>7, <1>8, <1>9, <1>10, <1>11, <1>12 DEF Transactions

LEMMA VictimStep ==
    ASSUME Transactions, NEW s \in Sessions, Victim(s)
    PROVE  Transactions'
<1>1. CASE s \in Collectors
  <2>1. Break(s)
    BY <1>1, Constants DEF Victim
  <2>2. QED
    BY <1>1, <2>1, BreakStep
<1>2. CASE s = API
  <2>1. /\ dirty' = [dirty EXCEPT ![API] = Clean] /\ request' = NoRequest
        /\ UNCHANGED <<record, lead, link, issued, now, run>>
    BY <1>2 DEF Victim, Rollback, tables
  <2>2. API \in Sessions /\ Collectors \subseteq Sessions /\ DOMAIN dirty = Sessions
    BY DEF Sessions, Transactions, Shape
  <2>3. /\ DOMAIN dirty' = Sessions /\ dirty'[API] = Clean
        /\ \A t \in Collectors : dirty'[t] = dirty[t]
    BY <2>1, <2>2, Constants
  <2>4. Erasing'
    BY <2>1, <2>3, CleanFacts DEF Erasing, NoRequest
  <2>5. QED
    BY <2>1, <2>3, <2>4, CleanFacts, RequestFrame
<1>3. QED
  BY <1>1, <1>2 DEF Sessions

-----------------------------------------------------------------------------
LEMMA TransactionsInit == Init => Transactions
<1> SUFFICES ASSUME Init
             PROVE  Transactions
  OBVIOUS
<1>1. /\ record = [k \in Keys |-> NoRecord] /\ lead = [l \in LeadIds |-> NoRow]
      /\ link = [l \in LeadIds |-> [k \in Keys |-> "none"]]
      /\ issued = [lead |-> 0, record |-> 0] /\ now = 0
      /\ run = [s \in Collectors |-> NoRun] /\ request = NoRequest
      /\ dirty = [s \in Sessions |-> Clean]
  BY DEF Init, Committed!Init, NoRecord, NoRow, LeadIds, Committed!LeadIds
<1>2. API \in Sessions /\ Collectors \subseteq Sessions
  BY DEF Sessions
<1>3. Shape
  BY <1>1, CleanFacts, NoRunFacts DEF Shape
<1>4. Rows
  BY <1>1 DEF Rows
<1>5. Erasing /\ Exclusive
  BY <1>1, <1>2, CleanFacts DEF Erasing, Exclusive, NoRequest
<1>6. Linked
  BY <1>1 DEF Linked, NoRecord, Committed!NoRecord
<1>7. LinksKnown
  BY <1>1 DEF LinksKnown
<1>8. ASSUME NEW s \in Collectors
      PROVE  ProgressOf(s) /\ DraftsOf(s) /\ OwnedOf(s)
  <2>1. run[s] = NoRun /\ dirty[s] = Clean
    BY <1>1, <1>2
  <2>2. QED
    BY <2>1, CleanFacts, NoRunFacts DEF ProgressOf, DraftsOf, OwnedOf, Working, Upserting
<1>9. QED
  BY <1>3, <1>4, <1>5, <1>6, <1>7, <1>8 DEF Transactions

LEMMA TransactionsStutter ==
    ASSUME Transactions, UNCHANGED <<record, lead, link, issued, now, run, request, dirty>>
    PROVE  Transactions'
<1>1. Shape' /\ Rows' /\ Erasing' /\ Exclusive'
  BY DEF Transactions, Shape, Rows, Erasing, Exclusive
<1>2. Linked' /\ LinksKnown'
  BY DEF Transactions, Linked, LinksKnown, Committed!Live, Committed!Stored
<1>3. ASSUME NEW s \in Collectors
      PROVE  (ProgressOf(s) /\ DraftsOf(s) /\ OwnedOf(s))'
  <2>1. ProgressOf(s) /\ DraftsOf(s) /\ OwnedOf(s)
    BY DEF Transactions
  <2>2. ProgressOf(s)' /\ DraftsOf(s)'
    BY <2>1 DEF ProgressOf, DraftsOf
  <2>3. OwnedOf(s)'
    BY <2>1 DEF OwnedOf, Kept, Unowned, Claimed
  <2>4. QED
    BY <2>2, <2>3
<1>4. QED
  BY <1>1, <1>2, <1>3 DEF Transactions

LEMMA TransactionsNext ==
    ASSUME Transactions, [Next]_vars
    PROVE  Transactions'
<1>1. ASSUME NEW s \in Collectors, NEW source \in Sources, Begin(s, source)
      PROVE  Transactions'
  BY <1>1, BeginStep
<1>2. ASSUME NEW s \in Collectors, NEW o \in Offers, Look(s, o[1], o[2])
      PROVE  Transactions'
  <2>1. PICK k, c : k = o[1] /\ c = o[2]
    OBVIOUS
  <2>2. k \in Keys
    BY <2>1, OffersAssumption
  <2>3. QED
    BY <1>2, <2>1, <2>2, LookStep
<1>3. ASSUME NEW s \in Collectors, Ingest(s)
      PROVE  Transactions'
  <2>1. CASE Store(s)
    BY <2>1, StoreStep
  <2>2. CASE Break(s)
    BY <2>2, BreakStep
  <2>3. CASE Match(s)
    BY <2>3, MatchStep
  <2>4. CASE Gather(s)
    BY <2>4, GatherStep
  <2>5. CASE Apply(s)
    BY <2>5, ApplyStep
  <2>6. CASE ApplyNothing(s)
    BY <2>6, ApplyNothingStep
  <2>7. CASE Create(s)
    BY <2>7, CreateStep
  <2>8. CASE Link(s)
    BY <2>8, LinkStep
  <2>9. CASE Flag(s)
    BY <2>9, FlagStep
  <2>10. StoreBreaks(s) \/ ApplyBreaks(s) \/ CreateBreaks(s) \/ LinkBreaks(s) => Break(s)
    BY DEF StoreBreaks, ApplyBreaks, CreateBreaks, LinkBreaks
  <2>11. QED
    BY <1>3, <2>1, <2>2, <2>3, <2>4, <2>5, <2>6, <2>7, <2>8, <2>9, <2>10 DEF Ingest
<1>4. ASSUME NEW s \in Collectors, Finish(s) \/ Fail(s) \/ Abort(s)
      PROVE  Transactions'
  BY <1>4, FinishStep, FailStep, AbortStep
<1>5. ASSUME NEW l \in LeadIds, Request(l)
      PROVE  Transactions'
  BY <1>5, RequestStep
<1>6. ASSUME Erase
      PROVE  Transactions'
  BY <1>6, DeleteStep, CascadeStep, CommitDeleteStep DEF Erase
<1>7. ASSUME NEW s \in Sessions, Victim(s)
      PROVE  Transactions'
  BY <1>7, VictimStep
<1>8. ASSUME UNCHANGED <<record, lead, link, issued, now, run, request, dirty>>
      PROVE  Transactions'
  BY <1>8, TransactionsStutter
<1>9. CASE Next
  <2>1. ASSUME NEW e, Suppress(e)
        PROVE  UNCHANGED <<record, lead, link, issued, now, run, request, dirty>>
    BY <2>1 DEF Suppress
  <2>2. ASSUME NEW l, NotFound(l)
        PROVE  UNCHANGED <<record, lead, link, issued, now, run, request, dirty>>
    BY <2>2 DEF NotFound, vars
  <2>3. QED
    BY <1>1, <1>2, <1>3, <1>4, <1>5, <1>6, <1>7, <1>8, <1>9, <2>1, <2>2 DEF Next
<1>10. CASE UNCHANGED vars
  BY <1>8, <1>10 DEF vars
<1>11. QED
  BY <1>9, <1>10

-----------------------------------------------------------------------------
(***************************************************************************)
(* What collections know of the suppressions.                              *)
(***************************************************************************)
\* Nobody but s moves, and no table is written.
LEMMA ListingFrame ==
    ASSUME Transactions, Listing, NEW s \in Collectors, UNCHANGED <<record, suppressed, now>>,
           \A t \in Collectors \ {s} : run'[t] = run[t] /\ dirty'[t] = dirty[t],
           ListingOf(s)'
    PROVE  Listing'
<1>1. ASSUME NEW t \in Collectors, t # s
      PROVE  ListingOf(t)'
  <2>1. ListingOf(t) /\ run'[t] = run[t] /\ dirty'[t] = dirty[t]
    BY <1>1 DEF Listing
  <2>2. QED
    BY <2>1 DEF ListingOf
<1>2. QED
  BY <1>1 DEF Listing

\* A collection that is over knows nothing.
LEMMA ListingOver ==
    ASSUME Transactions, Listing, NEW s \in Collectors, UNCHANGED <<record, suppressed, now>>,
           \A t \in Collectors \ {s} : run'[t] = run[t] /\ dirty'[t] = dirty[t],
           run'[s].pc \in {"idle", "broken"}
    PROVE  Listing'
BY ListingFrame DEF ListingOf

\* What s writes, of the suppressions it has listed, is none but what it has
\* checked.
LEMMA ListingStep ==
    ASSUME Transactions, Listing, NEW s \in Collectors, UNCHANGED <<record, suppressed, now>>,
           \A t \in Collectors \ {s} : run'[t] = run[t] /\ dirty'[t] = dirty[t],
           run[s].pc \in Working, run'[s].pc \in Working \cup {"open"},
           run'[s].stamp = run[s].stamp, run'[s].listed = run[s].listed,
           run'[s].pc # "open" => run'[s].item.content = run[s].item.content,
           \A k \in DOMAIN dirty'[s].record :
               \/ dirty'[s].record[k].content = run[s].item.content
               \/ /\ k \in DOMAIN dirty[s].record
                  /\ dirty'[s].record[k].content = dirty[s].record[k].content
    PROVE  Listing'
<1>1. /\ run[s].stamp <= now
      /\ {e \in suppressed : e[3] < run[s].stamp} \subseteq run[s].listed
      /\ Unblocked(run[s].item.content, run[s].listed)
      /\ \A k \in DOMAIN dirty[s].record :
            Unblocked(dirty[s].record[k].content, run[s].listed)
  BY DEF Listing, ListingOf, Working
<1>2. /\ run'[s].stamp <= now'
      /\ {e \in suppressed' : e[3] < run'[s].stamp} \subseteq run'[s].listed
  BY <1>1
<1>3. run'[s].pc \in Working => Unblocked(run'[s].item.content, run'[s].listed)
  BY <1>1 DEF Working
<1>4. ASSUME NEW k \in DOMAIN dirty'[s].record
      PROVE  Unblocked(dirty'[s].record[k].content, run'[s].listed)
  <2>1. CASE dirty'[s].record[k].content = run[s].item.content
    BY <1>1, <2>1
  <2>2. CASE /\ k \in DOMAIN dirty[s].record
             /\ dirty'[s].record[k].content = dirty[s].record[k].content
    BY <1>1, <2>2
  <2>3. QED
    BY <2>1, <2>2
<1>5. ListingOf(s)'
  BY <1>2, <1>3, <1>4 DEF ListingOf, Unblocked
<1>6. QED
  BY <1>5, ListingFrame

LEMMA ListingBegin ==
    ASSUME Transactions, Listing, NEW s \in Collectors, NEW source, Begin(s, source)
    PROVE  Listing'
<1>1. /\ run' = [run EXCEPT ![s] = [NoRun EXCEPT !.pc = "open", !.source = source,
                                               !.stamp = now', !.listed = suppressed]]
      /\ run[s].pc = "idle" /\ now' = now + 1 /\ now \in Nat
      /\ record' = record /\ suppressed' = suppressed /\ dirty' = dirty
  BY DEF Begin, tables, Transactions, Rows
<1>2. /\ run'[s].pc = "open" /\ run'[s].stamp = now' /\ run'[s].listed = suppressed
      /\ \A t \in Collectors \ {s} : run'[t] = run[t]
  BY <1>1 DEF Transactions, Shape, NoRun
<1>3. dirty'[s] = Clean
  BY <1>1 DEF Transactions, ProgressOf
<1>4. ListingOf(s)'
  BY <1>1, <1>2, <1>3, CleanFacts DEF ListingOf, Working
<1>5. ASSUME NEW t \in Collectors, t # s
      PROVE  ListingOf(t)'
  <2>1. /\ ListingOf(t) /\ run'[t] = run[t] /\ dirty'[t] = dirty[t]
        /\ run[t].pc \notin {"idle", "broken"} => run[t].stamp \in Nat
    BY <1>1, <1>2, <1>5 DEF Listing, Transactions, ProgressOf
  <2>2. run[t].pc \notin {"idle", "broken"} => run[t].stamp <= now + 1
    BY <1>1, <2>1 DEF ListingOf
  <2>3. QED
    BY <1>1, <2>1, <2>2 DEF ListingOf
<1>6. \A k \in Keys : record'[k].collected \in Nat /\ record'[k].collected <= now'
  BY <1>1 DEF Listing
<1>7. QED
  BY <1>4, <1>5, <1>6 DEF Listing

LEMMA ListingLook ==
    ASSUME Transactions, Listing, NEW s \in Collectors, NEW k, NEW c, Look(s, k, c)
    PROVE  Listing'
<1>1. /\ run[s].pc = "open" /\ ~Seen(s)!Blocks(c) /\ UNCHANGED <<tables, now, dirty>>
  BY DEF Look
<1>2. /\ run'[s].pc = "storing" /\ run'[s].stamp = run[s].stamp
      /\ run'[s].listed = run[s].listed /\ run'[s].item.content = c
      /\ \A t \in Collectors \ {s} : run'[t] = run[t]
  BY DEF Look, Transactions, Shape, RunShape, NoItem
<1>3. Unblocked(c, run[s].listed)
  BY <1>1 DEF Seen!Blocks, Unblocked
<1>4. ListingOf(s)
  BY DEF Listing
<1>5. ListingOf(s)'
  BY <1>1, <1>2, <1>3, <1>4 DEF ListingOf, tables
<1>6. QED
  BY <1>1, <1>2, <1>5, ListingFrame DEF tables

LEMMA ListingIngest ==
    ASSUME Transactions, Listing, NEW s \in Collectors, Ingest(s)
    PROVE  Listing'
<1>1. Shape /\ RunShape(run[s]) /\ ItemShape(run[s].item) /\ DirtyShape(dirty[s])
      /\ s \in Sessions /\ ProgressOf(s) /\ DraftsOf(s)
  BY DEF Transactions, Shape, RunShape, ItemShape, Sessions
<1>2. PICK k : k = run[s].item.key
  OBVIOUS
<1>3. CASE Store(s)
  <2>1. /\ run[s].pc = "storing" /\ run'[s].pc = "matching" /\ run'[s].item = run[s].item
        /\ run'[s].stamp = run[s].stamp /\ run'[s].listed = run[s].listed
        /\ StepOf(s) /\ now' = now /\ suppressed' = suppressed /\ StoredRecord(s, k)
    BY <1>2, <1>3, StoreEffect
  <2>2. dirty'[s].record[k].content = run[s].item.content
    BY <2>1 DEF StoredRecord
  <2>3. /\ DOMAIN dirty'[s].record = DOMAIN dirty[s].record \cup {k}
        /\ \A j \in DOMAIN dirty[s].record : dirty'[s].record[j] = dirty[s].record[j]
    BY <2>1 DEF StoredRecord
  <2>4. \A j \in DOMAIN dirty'[s].record :
            \/ dirty'[s].record[j].content = run[s].item.content
            \/ /\ j \in DOMAIN dirty[s].record
               /\ dirty'[s].record[j].content = dirty[s].record[j].content
    BY <2>2, <2>3
  <2>5. UNCHANGED <<record, suppressed, now>>
        /\ \A t \in Collectors \ {s} : run'[t] = run[t] /\ dirty'[t] = dirty[t]
    BY <2>1 DEF StepOf, Sessions
  <2>6. QED
    BY <2>1, <2>4, <2>5, ListingStep DEF Working
<1>4. CASE Match(s) \/ Gather(s)
  <2>1. /\ run[s].pc \in {"matching", "gathering"} /\ UNCHANGED <<tables, now, dirty>>
        /\ run'[s].pc \in {"creating", "gathering", "applying"}
        /\ run'[s].item.content = run[s].item.content
        /\ run'[s].stamp = run[s].stamp /\ run'[s].listed = run[s].listed
        /\ \A t \in Collectors \ {s} : run'[t] = run[t]
    <3>1. CASE Match(s)
      <4>1. PICK target, review, behind :
               run' = [run EXCEPT ![s].pc = IF target = NoLead THEN "creating" ELSE "gathering",
                                  ![s].item = [run[s].item EXCEPT
                                      !.target = target, !.review = review,
                                      !.loaded = IF target = NoLead THEN NoRow
                                                 ELSE Overlaid(s).lead[target],
                                      !.behind = behind]]
        BY <3>1 DEF Match
      <4>2. run[s].pc = "matching" /\ UNCHANGED <<tables, now, dirty>>
        BY <3>1 DEF Match
      <4>3. QED
        BY <1>1, <4>1, <4>2 DEF Shape, RunShape
    <3>2. CASE Gather(s)
      BY <1>1, <3>2 DEF Gather, Shape, RunShape
    <3>3. QED
      BY <1>4, <3>1, <3>2
  <2>2. QED
    BY <2>1, ListingStep DEF Working, tables
<1>5. ASSUME NEW item, ItemShape(item), item.content = run[s].item.content,
             NEW pc \in {"linking", "flagging", "open"}, Continue(s, item, pc),
             run[s].pc \in Working, dirty'[s].record = dirty[s].record,
             \A t \in Sessions \ {s} : dirty'[t] = dirty[t]
      PROVE  Listing'
  <2>1. Continued(s, item, pc) /\ UNCHANGED <<tables, now, request>>
    BY <1>1, <1>5, ContinueFacts
  <2>2. UNCHANGED <<record, suppressed, now>>
        /\ \A t \in Collectors \ {s} : run'[t] = run[t] /\ dirty'[t] = dirty[t]
    BY <1>5, <2>1 DEF Continued, tables, Sessions
  <2>3. /\ run'[s].pc \in Working \cup {"open"}
        /\ run'[s].stamp = run[s].stamp /\ run'[s].listed = run[s].listed
        /\ run'[s].pc # "open" => run'[s].item.content = run[s].item.content
    BY <1>5, <2>1 DEF Continued, Working
  <2>4. QED
    BY <1>5, <2>2, <2>3, ListingStep
<1>6. CASE Apply(s) \/ ApplyNothing(s)
  <2>1. /\ run[s].pc = "applying" /\ Continue(s, run[s].item, AfterMerge(run[s].item))
    BY <1>6 DEF Apply, ApplyNothing
  <2>2. /\ dirty'[s].record = dirty[s].record
        /\ \A t \in Sessions \ {s} : dirty'[t] = dirty[t]
    BY <1>1, <1>6 DEF Apply, ApplyNothing, Put, Shape, DirtyShape
  <2>3. AfterMerge(run[s].item) \in {"linking", "flagging", "open"}
    BY DEF AfterMerge
  <2>4. QED
    BY <1>1, <1>5, <2>1, <2>2, <2>3 DEF Working
<1>7. CASE Create(s)
  <2>1. PICK item : /\ item = [run[s].item EXCEPT !.target = issued.lead + 1]
                    /\ Continue(s, item, "linking") /\ run[s].pc = "creating"
    BY <1>7 DEF Create
  <2>2. /\ dirty'[s].record = dirty[s].record
        /\ \A t \in Sessions \ {s} : dirty'[t] = dirty[t]
    BY <1>1, <1>7 DEF Create, Shape, DirtyShape
  <2>3. ItemShape(item) /\ item.content = run[s].item.content
    BY <1>1, <2>1 DEF ItemShape
  <2>4. QED
    BY <1>5, <2>1, <2>2, <2>3 DEF Working
<1>8. CASE Link(s)
  <2>1. PICK l : l = run[s].item.target
    OBVIOUS
  <2>2. /\ run[s].pc = "linking" /\ k \in DOMAIN dirty[s].record
        /\ LinkStepOf(s, k, <<l, k>>, "merged") /\ LinkedRecord(s, k, l)
        /\ run'[s].listed = run[s].listed /\ now' = now /\ suppressed' = suppressed
    BY <1>2, <1>8, <2>1, LinkEffect
  <2>3. \A j \in DOMAIN dirty'[s].record :
            /\ j \in DOMAIN dirty[s].record
            /\ dirty'[s].record[j].content = dirty[s].record[j].content
    BY <2>2 DEF LinkedRecord, LinkStepOf
  <2>4. UNCHANGED <<record, suppressed, now>>
        /\ \A t \in Collectors \ {s} : run'[t] = run[t] /\ dirty'[t] = dirty[t]
    BY <2>2 DEF LinkStepOf, StepOf, Sessions
  <2>5. Continue(s, run[s].item, IF run[s].item.review # NoLead THEN "flagging" ELSE "open")
    BY <1>8 DEF Link
  <2>6. /\ run'[s].pc \in {"flagging", "open"} /\ run'[s].stamp = run[s].stamp
        /\ run'[s].pc # "open" => run'[s].item.content = run[s].item.content
    BY <1>1, <2>5, ContinueFacts DEF Continued
  <2>7. QED
    BY <2>2, <2>3, <2>4, <2>6, ListingStep DEF Working
<1>9. CASE Flag(s)
  <2>1. run[s].pc = "flagging" /\ Continue(s, run[s].item, "open")
    BY <1>9 DEF Flag
  <2>2. /\ dirty'[s].record = dirty[s].record
        /\ \A t \in Sessions \ {s} : dirty'[t] = dirty[t]
    BY <1>1, <1>9 DEF Flag, Put, Shape, DirtyShape
  <2>3. QED
    BY <1>1, <1>5, <2>1, <2>2 DEF Working
<1>10. CASE Break(s)
  <2>1. /\ run'[s].pc = "broken" /\ UNCHANGED <<tables, now>>
        /\ \A t \in Collectors \ {s} : run'[t] = run[t] /\ dirty'[t] = dirty[t]
    BY <1>1, <1>10 DEF Break, Rollback, Shape, RunShape, Sessions
  <2>2. QED
    BY <2>1, ListingOver DEF tables
<1>11. StoreBreaks(s) \/ ApplyBreaks(s) \/ CreateBreaks(s) \/ LinkBreaks(s) => Break(s)
  BY DEF StoreBreaks, ApplyBreaks, CreateBreaks, LinkBreaks
<1>12. QED
  BY <1>3, <1>4, <1>6, <1>7, <1>8, <1>9, <1>10, <1>11 DEF Ingest

\* The records of a collection that commits were checked against every
\* suppression that is older than the collection.
LEMMA ListingFinish ==
    ASSUME Transactions, Listing, RecordsClean, NEW s \in Collectors, Finish(s)
    PROVE  Listing' /\ RecordsClean'
<1>1. /\ run[s].pc = "open" /\ Publish(s) /\ run' = [run EXCEPT ![s] = NoRun]
      /\ UNCHANGED <<suppressed, issued, now, request>>
  BY DEF Finish
<1>2. /\ Shape /\ Rows /\ ProgressOf(s) /\ DraftsOf(s) /\ ListingOf(s)
      /\ s \in Sessions /\ Collectors \subseteq Sessions
  BY DEF Transactions, Listing, Sessions
<1>3. /\ run'[s] = NoRun /\ \A t \in Collectors \ {s} : run'[t] = run[t]
  BY <1>1, <1>2 DEF Shape
<1>4. \A t \in Sessions \ {s} : dirty'[t] = dirty[t]
  BY <1>1, <1>2, PublishFacts
<1>5. \A k \in Keys : record'[k] = IF k \in DOMAIN dirty[s].record
                                  THEN dirty[s].record[k] ELSE record[k]
  BY <1>1, <1>2, PublishFacts
<1>6. /\ run[s].stamp \in Nat /\ run[s].stamp <= now
      /\ {e \in suppressed : e[3] < run[s].stamp} \subseteq run[s].listed
      /\ \A k \in DOMAIN dirty[s].record :
            /\ dirty[s].record[k].collected = run[s].stamp
            /\ Unblocked(dirty[s].record[k].content, run[s].listed)
  BY <1>1, <1>2 DEF ProgressOf, DraftsOf, ListingOf
<1>7. \A k \in Keys : record'[k].collected \in Nat /\ record'[k].collected <= now'
  BY <1>1, <1>5, <1>6 DEF Listing
<1>8. ASSUME NEW t \in Collectors
      PROVE  ListingOf(t)'
  <2>1. CASE t = s
    BY <1>3, <2>1, NoRunFacts DEF ListingOf
  <2>2. CASE t # s
    <3>1. run'[t] = run[t] /\ dirty'[t] = dirty[t] /\ ListingOf(t)
      BY <1>2, <1>3, <1>4, <2>2 DEF Listing
    <3>2. QED
      BY <1>1, <3>1 DEF ListingOf
  <2>3. QED
    BY <2>1, <2>2
<1>9. RecordsClean'
  <2>1. SUFFICES ASSUME NEW k \in Keys, NEW e \in suppressed, Committed!Stored(k)',
                        e[3] < record'[k].collected
                 PROVE  record'[k].content[e[1]] # e[2]
    BY <1>1 DEF RecordsClean
  <2>2. CASE k \in DOMAIN dirty[s].record
    <3>1. record'[k] = dirty[s].record[k]
      BY <1>5, <2>2
    <3>2. e \in run[s].listed
      BY <1>6, <2>1, <2>2, <3>1
    <3>3. QED
      BY <1>6, <2>2, <3>1, <3>2 DEF Unblocked
  <2>3. CASE k \notin DOMAIN dirty[s].record
    BY <1>5, <2>1, <2>3 DEF RecordsClean, Committed!Stored
  <2>4. QED
    BY <2>2, <2>3
<1>10. QED
  BY <1>7, <1>8, <1>9 DEF Listing

\* A contact is suppressed after every record that is stored, and every
\* collection that has begun.
LEMMA ListingSuppressing ==
    ASSUME Transactions, Listing, RecordsClean, NEW E,
           suppressed' = Committed!Suppressing(E) \/ suppressed' = suppressed,
           UNCHANGED <<now, run>>, \A t \in Collectors : dirty'[t] = dirty[t],
           \A k \in Keys : record'[k] = record[k] \/ record'[k] = NoRecord
    PROVE  Listing' /\ RecordsClean'
<1>1. now \in Nat
  BY DEF Transactions, Rows
<1>2. \A e \in suppressed' : e \in suppressed \/ e[3] = now
  BY DEF Committed!Suppressing
<1>3. \A k \in Keys : record'[k].collected \in Nat /\ record'[k].collected <= now'
  BY <1>1 DEF Listing, NoRecord, Committed!NoRecord
<1>4. ASSUME NEW t \in Collectors
      PROVE  ListingOf(t)'
  <2>1. /\ ListingOf(t) /\ run'[t] = run[t] /\ dirty'[t] = dirty[t] /\ now' = now
        /\ run[t].pc \notin {"idle", "broken"} => run[t].stamp \in Nat
    BY DEF Listing, Transactions, ProgressOf
  <2>2. ASSUME run[t].pc \notin {"idle", "broken"}, NEW e \in suppressed', e[3] < run[t].stamp
        PROVE  e \in run[t].listed
    <3>1. run[t].stamp \in Nat /\ run[t].stamp <= now
      BY <2>1, <2>2 DEF ListingOf
    <3>2. e \in suppressed
      BY <1>1, <1>2, <2>2, <3>1
    <3>3. QED
      BY <2>1, <2>2, <3>2 DEF ListingOf
  <2>3. QED
    BY <2>1, <2>2 DEF ListingOf
<1>5. RecordsClean'
  <2>1. SUFFICES ASSUME NEW k \in Keys, NEW e \in suppressed', Committed!Stored(k)',
                        e[3] < record'[k].collected
                 PROVE  record'[k].content[e[1]] # e[2]
    BY DEF RecordsClean
  <2>2. record'[k] = record[k]
    BY <2>1 DEF Committed!Stored, NoRecord, Committed!NoRecord
  <2>3. e \in suppressed
    BY <1>1, <1>2, <1>3, <2>1
  <2>4. QED
    BY <2>1, <2>2, <2>3 DEF RecordsClean, Committed!Stored
<1>6. QED
  BY <1>3, <1>4, <1>5 DEF Listing

LEMMA ListingErase ==
    ASSUME Transactions, Listing, RecordsClean, Erase
    PROVE  Listing' /\ RecordsClean'
<1>1. CASE CommitDelete
  <2>1. /\ Publish(API) /\ suppressed' = Committed!Suppressing(request.contacts)
        /\ UNCHANGED <<now, run>> /\ Shape /\ Erasing /\ API \in Sessions
    BY <1>1 DEF CommitDelete, Transactions, Sessions
  <2>2. \A t \in Sessions \ {API} : dirty'[t] = dirty[t]
    BY <2>1, PublishFacts
  <2>3. \A k \in Keys : record'[k] = IF k \in DOMAIN dirty[API].record
                                    THEN dirty[API].record[k] ELSE record[k]
    BY <2>1, PublishFacts
  <2>4. \A k \in Keys : record'[k] = record[k] \/ record'[k] = NoRecord
    BY <2>1, <2>3 DEF Erasing
  <2>5. \A t \in Collectors : dirty'[t] = dirty[t]
    BY <2>2, Constants DEF Sessions
  <2>6. QED
    BY <2>1, <2>4, <2>5, ListingSuppressing
<1>2. CASE Delete \/ \E k \in Keys : Cascade(k)
  <2>1. UNCHANGED <<record, suppressed, now, run>>
        /\ \A t \in Collectors : dirty'[t] = dirty[t]
    BY <1>2, Constants DEF Delete, Cascade, Put, tables, Transactions, Shape, Sessions
  <2>2. QED
    BY <2>1, ListingSuppressing
<1>3. QED
  BY <1>1, <1>2 DEF Erase

LEMMA ListingNext ==
    ASSUME Transactions, Listing, RecordsClean, [Next]_vars
    PROVE  Listing' /\ RecordsClean'
<1>0. ASSUME UNCHANGED <<record, suppressed>>
      PROVE  RecordsClean'
  BY <1>0 DEF RecordsClean, Committed!Stored
<1>1. ASSUME NEW s \in Collectors, NEW source \in Sources, Begin(s, source)
      PROVE  Listing' /\ RecordsClean'
  <2>1. Listing'
    BY <1>1, ListingBegin
  <2>2. QED
    BY <1>0, <1>1, <2>1 DEF Begin, tables
<1>2. ASSUME NEW s \in Collectors, NEW o \in Offers, Look(s, o[1], o[2])
      PROVE  Listing' /\ RecordsClean'
  <2>1. Listing'
    BY <1>2, ListingLook
  <2>2. QED
    BY <1>0, <1>2, <2>1 DEF Look, tables
<1>3. ASSUME NEW s \in Collectors, Ingest(s)
      PROVE  Listing' /\ RecordsClean'
  <2>1. Listing'
    BY <1>3, ListingIngest
  <2>2. UNCHANGED <<record, suppressed>>
    BY <1>3 DEF Ingest, Store, StoreBreaks, Match, Gather, Apply, ApplyNothing, ApplyBreaks,
       Create, CreateBreaks, Link, Flag, LinkBreaks, Break, Rollback, Step, Continue, tables
  <2>3. QED
    BY <1>0, <2>1, <2>2
<1>4. ASSUME NEW s \in Collectors, Finish(s)
      PROVE  Listing' /\ RecordsClean'
  BY <1>4, ListingFinish
<1>5. ASSUME NEW s \in Collectors, Fail(s) \/ Abort(s) \/ Break(s)
      PROVE  Listing' /\ RecordsClean'
  <2>1. /\ run'[s].pc \in {"idle", "broken"} /\ UNCHANGED <<record, suppressed, now>>
        /\ \A t \in Collectors \ {s} : run'[t] = run[t] /\ dirty'[t] = dirty[t]
    <3>1. Shape /\ RunShape(run[s]) /\ NoRun.pc = "idle"
      BY NoRunFacts DEF Transactions, Shape
    <3>2. CASE Fail(s)
      BY <3>1, <3>2 DEF Fail, tables, Shape
    <3>3. CASE Abort(s)
      BY <3>1, <3>3 DEF Abort, Rollback, tables, Shape, Sessions
    <3>4. CASE Break(s)
      BY <3>1, <3>4 DEF Break, Rollback, tables, Shape, RunShape, Sessions
    <3>5. QED
      BY <1>5, <3>2, <3>3, <3>4
  <2>2. QED
    BY <1>0, <2>1, ListingOver
<1>6. ASSUME NEW l, Request(l) \/ NotFound(l)
      PROVE  Listing' /\ RecordsClean'
  BY <1>6, ListingSuppressing DEF Request, NotFound, tables, vars
<1>7. ASSUME Erase
      PROVE  Listing' /\ RecordsClean'
  BY <1>7, ListingErase
<1>8. ASSUME NEW e, Suppress(e)
      PROVE  Listing' /\ RecordsClean'
  BY <1>8, ListingSuppressing DEF Suppress
<1>9. ASSUME NEW s \in Sessions, Victim(s)
      PROVE  Listing' /\ RecordsClean'
  <2>1. CASE s \in Collectors
    BY <1>5, <1>9, <2>1, Constants DEF Victim
  <2>2. CASE s = API
    <3>1. UNCHANGED <<record, suppressed, now, run>>
          /\ \A t \in Collectors : dirty'[t] = dirty[t]
      BY <1>9, <2>2, Constants DEF Victim, Rollback, tables, Transactions, Shape, Sessions
    <3>2. QED
      BY <3>1, ListingSuppressing
  <2>3. QED
    BY <2>1, <2>2 DEF Sessions
<1>10. CASE UNCHANGED vars
  BY <1>10, ListingSuppressing DEF vars
<1>11. CASE Next
  BY <1>1, <1>2, <1>3, <1>4, <1>5, <1>6, <1>7, <1>8, <1>9, <1>11 DEF Next
<1>12. QED
  BY <1>10, <1>11

LEMMA ListingInit == Init => Listing /\ RecordsClean
<1> SUFFICES ASSUME Init
             PROVE  Listing /\ RecordsClean
  OBVIOUS
<1>1. /\ record = [k \in Keys |-> NoRecord] /\ suppressed = {}
      /\ run = [s \in Collectors |-> NoRun] /\ now = 0
  BY DEF Init, Committed!Init, NoRecord
<1>2. Listing
  BY <1>1, NoRunFacts DEF Listing, ListingOf, NoRecord, Committed!NoRecord
<1>3. RecordsClean
  BY <1>1 DEF RecordsClean
<1>4. QED
  BY <1>2, <1>3

-----------------------------------------------------------------------------
(***************************************************************************)
(* Leads that a record has left.                                           *)
(***************************************************************************)
\* The leads that s writes: if they are not committed, they are new.
LeadsOf(s) ==
    \A l \in DOMAIN dirty[s].lead :
        /\ l <= issued.lead
        /\ l \notin DOMAIN dirty[API].lead
        /\ lead[l].firstSeen = 0 => \A k \in Keys : l \notin past[k]

MovesOf(s) == \A k \in DOMAIN dirty[s].record : dirty[s].record[k].lead \notin past[k]

\* A lead that a record has left is linked to it until it is deleted, and its
\* id is not issued again.
Departures ==
    \A k \in Keys : \A l \in past[k] :
        /\ l \in LeadIds /\ l <= issued.lead /\ l # record[k].lead
        /\ link[l][k] # "none" \/ lead[l].firstSeen = 0

History ==
    /\ issued.lead \in Nat /\ DOMAIN issued = {"lead", "record"}
    /\ \A l \in LeadIds : lead[l].firstSeen # 0 => l <= issued.lead
    /\ \A l \in DOMAIN dirty[API].lead : l <= issued.lead
    /\ Departures
    /\ \A s \in Collectors : LeadsOf(s) /\ MovesOf(s)

LEMMA HistoryFrame ==
    ASSUME Transactions, History, NEW s \in Collectors, UNCHANGED tables,
           issued'.lead \in Nat, issued.lead <= issued'.lead, DOMAIN issued' = {"lead", "record"},
           \A t \in Sessions \ {s} : dirty'[t] = dirty[t], LeadsOf(s)', MovesOf(s)'
    PROVE  History'
<1>1. /\ UNCHANGED <<record, lead, link, past>> /\ dirty'[API] = dirty[API]
      /\ \A t \in Collectors \ {s} : dirty'[t] = dirty[t]
  BY Constants DEF tables, Sessions
<1>2. /\ \A t \in Collectors : DOMAIN dirty[t].lead \subseteq LeadIds
      /\ DOMAIN dirty[API].lead \subseteq LeadIds
  BY DEF Transactions, Shape, DirtyShape, Sessions
<1>3. \A l \in LeadIds : l <= issued.lead => l <= issued'.lead
  BY DEF LeadIds, History
<1>4. /\ \A l \in LeadIds : lead'[l].firstSeen # 0 => l <= issued'.lead
      /\ \A l \in DOMAIN dirty'[API].lead : l <= issued'.lead
  BY <1>1, <1>2, <1>3 DEF History
<1>5. Departures'
  BY <1>1, <1>3 DEF History, Departures
<1>6. ASSUME NEW t \in Collectors, t # s
      PROVE  LeadsOf(t)' /\ MovesOf(t)'
  <2>1. LeadsOf(t) /\ MovesOf(t) /\ dirty'[t] = dirty[t]
    BY <1>1, <1>6 DEF History
  <2>2. LeadsOf(t)'
    BY <1>1, <1>2, <1>3, <2>1 DEF LeadsOf
  <2>3. MovesOf(t)'
    BY <1>1, <2>1 DEF MovesOf
  <2>4. QED
    BY <2>2, <2>3
<1>7. QED
  BY <1>4, <1>5, <1>6 DEF History

\* A statement of s that writes no lead and moves no record.
LEMMA HistoryQuiet ==
    ASSUME Transactions, History, NEW s \in Collectors, UNCHANGED tables,
           issued'.lead = issued.lead, DOMAIN issued' = {"lead", "record"},
           \A t \in Sessions \ {s} : dirty'[t] = dirty[t],
           DOMAIN dirty'[s].lead \subseteq DOMAIN dirty[s].lead,
           \A k \in DOMAIN dirty'[s].record : dirty'[s].record[k].lead \notin past[k]
    PROVE  History'
<1>1. /\ UNCHANGED <<lead, past>> /\ dirty'[API] = dirty[API] /\ LeadsOf(s)
      /\ issued.lead \in Nat
  BY Constants DEF tables, Sessions, History
<1>2. LeadsOf(s)'
  BY <1>1 DEF LeadsOf
<1>3. MovesOf(s)'
  BY <1>1 DEF MovesOf
<1>4. QED
  BY <1>1, <1>2, <1>3, HistoryFrame

LEMMA HistoryStore ==
    ASSUME Transactions, History, NEW s \in Collectors, Store(s)
    PROVE  History'
<1>1. PICK k : k = run[s].item.key
  OBVIOUS
<1>2. k \in Keys /\ StoredRecord(s, k) /\ dirty'[s].lead = dirty[s].lead /\ StepOf(s)
  BY <1>1, StoreEffect
<1>3. /\ DOMAIN dirty'[s].record = DOMAIN dirty[s].record \cup {k}
      /\ \A j \in DOMAIN dirty[s].record : dirty'[s].record[j] = dirty[s].record[j]
      /\ dirty'[s].record[k].lead = record[k].lead
  BY <1>2 DEF StoredRecord
<1>4. UNCHANGED tables /\ issued' = [lead |-> issued.lead + 0, record |-> Seen(s)!LastRecord(k)]
  BY <1>1 DEF Store, Step, Seen!Issue
<1>5. issued'.lead = issued.lead /\ DOMAIN issued' = {"lead", "record"}
  BY <1>4 DEF History
<1>6. \A j \in DOMAIN dirty'[s].record : dirty'[s].record[j].lead \notin past[j]
  <2>1. record[k].lead \notin past[k]
    BY <1>2 DEF History, Departures
  <2>2. QED
    BY <1>2, <1>3, <2>1 DEF History, MovesOf
<1>7. QED
  BY <1>2, <1>4, <1>5, <1>6, HistoryQuiet DEF StepOf

\* A statement of s that writes one lead.
LEMMA HistoryLead ==
    ASSUME Transactions, History, NEW s \in Collectors, UNCHANGED tables,
           NEW l \in LeadIds, issued'.lead \in Nat, issued.lead <= issued'.lead,
           DOMAIN issued' = {"lead", "record"},
           l <= issued'.lead, l \notin DOMAIN dirty[API].lead,
           lead[l].firstSeen = 0 => \A k \in Keys : l \notin past[k],
           \A t \in Sessions \ {s} : dirty'[t] = dirty[t],
           dirty'[s].record = dirty[s].record,
           DOMAIN dirty'[s].lead = DOMAIN dirty[s].lead \cup {l}
    PROVE  History'
<1>1. /\ UNCHANGED <<lead, past>> /\ dirty'[API] = dirty[API] /\ LeadsOf(s) /\ MovesOf(s)
      /\ issued.lead \in Nat /\ DOMAIN dirty[s].lead \subseteq LeadIds
  BY Constants DEF tables, Sessions, History, Transactions, Shape, DirtyShape
<1>2. \A m \in LeadIds : m <= issued.lead => m <= issued'.lead
  BY <1>1 DEF LeadIds
<1>3. LeadsOf(s)'
  <2>1. ASSUME NEW m \in DOMAIN dirty'[s].lead
        PROVE  /\ m <= issued'.lead /\ m \notin DOMAIN dirty'[API].lead
               /\ lead'[m].firstSeen = 0 => \A k \in Keys : m \notin past'[k]
    <3>1. CASE m = l
      BY <1>1, <3>1
    <3>2. CASE m \in DOMAIN dirty[s].lead
      BY <1>1, <1>2, <3>2 DEF LeadsOf
    <3>3. QED
      BY <3>1, <3>2
  <2>2. QED
    BY <2>1 DEF LeadsOf
<1>4. MovesOf(s)'
  BY <1>1 DEF MovesOf
<1>5. QED
  BY <1>3, <1>4, HistoryFrame

LEMMA HistoryApply ==
    ASSUME Transactions, History, NEW s \in Collectors, Apply(s)
    PROVE  History'
<1>0. PICK l : l = run[s].item.target
  OBVIOUS
<1>1. PICK row, rows :
         dirty' = [dirty EXCEPT ![s].lead = Written(@, l, row), ![s].built = rows]
  BY <1>0 DEF Apply
<1>2. /\ run[s].pc = "applying" /\ Changes(run[s].item) /\ Blockers(s) = {} /\ UNCHANGED issued
      /\ UNCHANGED tables /\ Overlaid(s).lead[l] # NoRow
  BY <1>0 DEF Apply, Continue
<1>3. Shape /\ Rows /\ ProgressOf(s) /\ s # API /\ API \in Sessions
  BY Constants DEF Transactions, Sessions
<1>4. l \in LeadIds
  BY <1>0, <1>2, <1>3 DEF ProgressOf
<1>5. Holders(s, "lead", l) = {}
  BY <1>0, <1>2, <1>3 DEF Blockers
<1>6. l \notin DOMAIN dirty[API].lead
  BY <1>3, <1>5 DEF Holders
<1>7. /\ dirty'[s].record = dirty[s].record
      /\ DOMAIN dirty'[s].lead = DOMAIN dirty[s].lead \cup {l}
      /\ \A t \in Sessions \ {s} : dirty'[t] = dirty[t]
  BY <1>1, <1>3, WriteLead
<1>8. l \in DOMAIN dirty[s].lead \/ lead[l].firstSeen # 0
  BY <1>2, <1>3, <1>4, SeenLead DEF Rows
<1>9. /\ l <= issued.lead /\ issued.lead \in Nat
      /\ lead[l].firstSeen = 0 => \A k \in Keys : l \notin past[k]
  BY <1>4, <1>8 DEF History, LeadsOf
<1>10. issued' = issued /\ issued.lead <= issued.lead /\ DOMAIN issued = {"lead", "record"}
  BY <1>2, <1>9 DEF History
<1>11. QED
  BY <1>2, <1>4, <1>6, <1>7, <1>9, <1>10, HistoryLead

LEMMA HistoryCreate ==
    ASSUME Transactions, History, NEW s \in Collectors, Create(s)
    PROVE  History'
<1>0. PICK l : l = issued.lead + 1
  OBVIOUS
<1>1. PICK row, rows :
         dirty' = [dirty EXCEPT ![s].lead = Written(@, l, row), ![s].built = rows]
  BY <1>0 DEF Create
<1>2. l \in LeadIds /\ issued' = [issued EXCEPT !.lead = l] /\ UNCHANGED tables
  BY <1>0 DEF Create, Continue
<1>3. Shape /\ issued.lead \in Nat
  BY DEF Transactions, History
<1>4. /\ dirty'[s].record = dirty[s].record
      /\ DOMAIN dirty'[s].lead = DOMAIN dirty[s].lead \cup {l}
      /\ \A t \in Sessions \ {s} : dirty'[t] = dirty[t]
  BY <1>1, <1>3, WriteLead
<1>5. issued'.lead = l /\ DOMAIN issued' = {"lead", "record"}
  BY <1>2 DEF History
<1>6. ~(l <= issued.lead) /\ issued.lead <= l /\ l \in Nat /\ l <= l
  BY <1>0, <1>3
<1>7. l \notin DOMAIN dirty[API].lead /\ \A k \in Keys : l \notin past[k]
  BY <1>6 DEF History, Departures
<1>8. QED
  BY <1>2, <1>4, <1>5, <1>6, <1>7, HistoryLead

\* A record is claimed only for a lead that it is not linked to.
LEMMA HistoryLink ==
    ASSUME Transactions, History, NEW s \in Collectors, Link(s)
    PROVE  History'
<1>0. PICK k, l : k = run[s].item.key /\ l = run[s].item.target
  OBVIOUS
<1>1. /\ k \in Keys /\ k \in DOMAIN dirty[s].record /\ l \in LeadIds
      /\ l \in DOMAIN dirty[s].lead \/ lead[l].firstSeen # 0
      /\ LinkStepOf(s, k, <<l, k>>, "merged") /\ LinkedRecord(s, k, l)
  BY <1>0, LinkEffect
<1>2. UNCHANGED tables /\ issued' = issued /\ DOMAIN issued = {"lead", "record"}
  BY DEF Link, Continue, History
<1>3. link[l][k] = "none" => l \notin past[k]
  BY <1>1 DEF History, Departures, LeadsOf
<1>4. \A j \in DOMAIN dirty'[s].record : dirty'[s].record[j].lead \notin past[j]
  <2>1. MovesOf(s)
    BY DEF History
  <2>2. ASSUME NEW j \in DOMAIN dirty[s].record
        PROVE  dirty'[s].record[j].lead \notin past[j]
    <3>1. CASE j = k
      BY <1>1, <1>3, <2>1, <3>1 DEF MovesOf, LinkedRecord
    <3>2. CASE j # k
      BY <1>1, <2>1, <3>2 DEF MovesOf, LinkedRecord
    <3>3. QED
      BY <3>1, <3>2
  <2>3. QED
    BY <1>1, <2>2 DEF LinkStepOf
<1>5. QED
  BY <1>1, <1>2, <1>4, HistoryQuiet DEF LinkStepOf, StepOf

LEMMA HistoryFinish ==
    ASSUME Transactions, History, NEW s \in Collectors, Finish(s)
    PROVE  History'
<1>1. /\ run[s].pc = "open" /\ Publish(s) /\ UNCHANGED <<issued, now, request>>
  BY DEF Finish
<1>2. /\ Shape /\ Rows /\ Exclusive /\ Linked /\ ProgressOf(s) /\ DraftsOf(s)
      /\ s \in Sessions /\ API \in Sessions /\ s # API /\ Collectors \subseteq Sessions
  BY Constants DEF Transactions, Sessions
<1>3. /\ issued'.lead = issued.lead /\ issued.lead \in Nat
      /\ DOMAIN issued' = {"lead", "record"} /\ Departures /\ LeadsOf(s) /\ MovesOf(s)
  BY <1>1 DEF History
<1>4. /\ dirty'[s] = Clean /\ \A t \in Sessions \ {s} : dirty'[t] = dirty[t]
  BY <1>1, <1>2, PublishFacts
<1>5. \A k \in Keys : record'[k] = IF k \in DOMAIN dirty[s].record
                                  THEN dirty[s].record[k] ELSE record[k]
  BY <1>1, <1>2, PublishFacts
<1>6. \A l \in LeadIds : lead'[l] = IF l \in DOMAIN dirty[s].lead
                                   THEN dirty[s].lead[l] ELSE lead[l]
  BY <1>1, <1>2, PublishFacts
<1>7. \A l \in LeadIds : \A k \in Keys :
         link'[l][k] = IF lead'[l] = NoRow \/ record'[k] = NoRecord THEN "none"
                       ELSE IF <<l, k>> \in DOMAIN dirty[s].link
                            THEN dirty[s].link[<<l, k>>] ELSE link[l][k]
  BY <1>1, <1>2, PublishFacts
<1>8. \A k \in Keys :
         past'[k] = IF record'[k] = NoRecord THEN {}
                    ELSE past[k] \cup ({record[k].lead} \ {NoLead, record'[k].lead})
  BY <1>1 DEF Publish
<1>9. \A l \in LeadIds : lead'[l].firstSeen # 0 => l <= issued'.lead
  BY <1>3, <1>6 DEF History, LeadsOf
<1>10. \A l \in DOMAIN dirty'[API].lead : l <= issued'.lead
  BY <1>2, <1>3, <1>4 DEF History
<1>11. ASSUME NEW k \in Keys, record[k].lead # NoLead
       PROVE  /\ record[k].lead \in LeadIds /\ lead[record[k].lead].firstSeen # 0
              /\ link[record[k].lead][k] # "none"
  BY <1>2, <1>11 DEF Linked, Rows, NoRecord, Committed!NoRecord, NoLead, Committed!NoLead
<1>12. Departures'
  <2>1. SUFFICES ASSUME NEW k \in Keys, NEW l \in past'[k]
                 PROVE  /\ l \in LeadIds /\ l <= issued'.lead /\ l # record'[k].lead
                        /\ link'[l][k] # "none" \/ lead'[l].firstSeen = 0
    BY DEF Departures
  <2>2. /\ record'[k] # NoRecord
        /\ l \in past[k] \/ (l = record[k].lead /\ l # NoLead /\ l # record'[k].lead)
    <3>1. past'[k] = IF record'[k] = NoRecord THEN {}
                     ELSE past[k] \cup ({record[k].lead} \ {NoLead, record'[k].lead})
      BY <1>8
    <3>2. QED
      BY <2>1, <3>1
  <2>3. /\ l \in LeadIds /\ l <= issued.lead
        /\ link[l][k] # "none" \/ (l \in past[k] /\ lead[l].firstSeen = 0)
    <3>1. CASE l \in past[k]
      BY <1>3, <3>1 DEF Departures
    <3>2. CASE l = record[k].lead /\ l # NoLead
      BY <1>11, <3>2 DEF History
    <3>3. QED
      BY <2>2, <3>1, <3>2
  <2>4. l # record'[k].lead
    <3>1. CASE l \in past[k] /\ k \in DOMAIN dirty[s].record
      BY <1>3, <1>5, <3>1 DEF MovesOf
    <3>2. CASE l \in past[k] /\ k \notin DOMAIN dirty[s].record
      BY <1>3, <1>5, <3>2 DEF Departures
    <3>3. QED
      BY <2>2, <3>1, <3>2
  <2>5. CASE link[l][k] # "none"
    <3>1. <<l, k>> \in DOMAIN dirty[s].link => dirty[s].link[<<l, k>>] # "none"
      BY <1>2, <2>3 DEF ProgressOf
    <3>2. lead'[l] = NoRow => lead'[l].firstSeen = 0
      BY DEF NoRow, Committed!NoRow
    <3>3. QED
      BY <1>3, <1>7, <2>2, <2>3, <2>4, <2>5, <3>1, <3>2
  <2>6. CASE l \in past[k] /\ lead[l].firstSeen = 0
    <3>1. l \notin DOMAIN dirty[s].lead
      BY <1>3, <2>6 DEF LeadsOf
    <3>2. QED
      BY <1>3, <1>6, <2>3, <2>4, <2>6, <3>1
  <2>7. QED
    BY <2>3, <2>5, <2>6
<1>13. LeadsOf(s)' /\ MovesOf(s)'
  BY <1>4, CleanFacts DEF LeadsOf, MovesOf
<1>14. ASSUME NEW t \in Collectors, t # s
       PROVE  LeadsOf(t)' /\ MovesOf(t)'
  <2>1. /\ LeadsOf(t) /\ MovesOf(t) /\ dirty'[t] = dirty[t] /\ dirty'[API] = dirty[API]
        /\ DOMAIN dirty[t].lead \subseteq LeadIds /\ DOMAIN dirty[t].record \subseteq Keys
    BY <1>2, <1>4, <1>14 DEF History, Shape, DirtyShape
  <2>2. ASSUME NEW l \in DOMAIN dirty[t].lead, lead'[l].firstSeen = 0, NEW k \in Keys
        PROVE  l \notin past'[k]
    <3>1. lead[l].firstSeen = 0
      BY <1>2, <1>6, <2>1, <2>2 DEF DraftsOf
    <3>2. l \notin past[k]
      BY <2>1, <3>1 DEF LeadsOf
    <3>3. record[k].lead = NoLead \/ lead[record[k].lead].firstSeen # 0
      BY <1>11
    <3>4. past'[k] \subseteq past[k] \cup ({record[k].lead} \ {NoLead})
      BY <1>8
    <3>5. QED
      BY <3>1, <3>2, <3>3, <3>4
  <2>3. LeadsOf(t)'
    BY <1>3, <2>1, <2>2 DEF LeadsOf
  <2>4. ASSUME NEW k \in DOMAIN dirty[t].record
        PROVE  dirty[t].record[k].lead \notin past'[k]
    <3>1. k \in Keys /\ k \notin DOMAIN dirty[s].record
      BY <1>2, <1>14, <2>1 DEF Exclusive
    <3>2. past'[k] \subseteq past[k]
      BY <1>5, <1>8, <3>1
    <3>3. QED
      BY <2>1, <3>2 DEF MovesOf
  <2>5. MovesOf(t)'
    BY <2>1, <2>4 DEF MovesOf
  <2>6. QED
    BY <2>3, <2>5
<1>15. QED
  BY <1>3, <1>9, <1>10, <1>12, <1>13, <1>14 DEF History

\* A statement of the request that commits nothing.
LEMMA HistoryRequest ==
    ASSUME Transactions, History, UNCHANGED <<record, lead, link, past, issued>>,
           \A t \in Collectors : dirty'[t] = dirty[t],
           \A l \in DOMAIN dirty'[API].lead :
               l <= issued.lead /\ \A t \in Collectors : l \notin DOMAIN dirty[t].lead
    PROVE  History'
<1>1. Departures'
  BY DEF History, Departures
<1>2. ASSUME NEW t \in Collectors
      PROVE  LeadsOf(t)' /\ MovesOf(t)'
  BY DEF History, LeadsOf, MovesOf
<1>3. QED
  BY <1>1, <1>2 DEF History

LEMMA HistoryDelete ==
    ASSUME Transactions, History, Delete
    PROVE  History'
<1>0. PICK l : l = request.lead
  OBVIOUS
<1>1. /\ request.pc = "deleting" /\ Blockers(API) = {}
      /\ dirty' = IF Committed!Live(l)
                  THEN [dirty EXCEPT ![API]["lead"] = Written(@, l, NoRow)] ELSE dirty
      /\ UNCHANGED <<record, lead, link, past, issued>>
  BY <1>0 DEF Delete, Put, tables
<1>2. /\ Shape /\ API \in Sessions /\ Collectors \subseteq Sessions /\ dirty[API] = Clean
      /\ l \in LeadIds
  BY <1>0, <1>1 DEF Transactions, Sessions, Erasing
<1>3. \A t \in Collectors : dirty'[t] = dirty[t]
  BY <1>1, <1>2, Constants DEF Shape
<1>4. \A m \in DOMAIN dirty'[API].lead : m = l /\ Committed!Live(l)
  <2>1. CASE Committed!Live(l)
    <3>1. dirty'[API].lead = Written(Clean.lead, l, NoRow)
      BY <1>1, <1>2, <2>1, CleanFacts DEF Shape, DirtyShape
    <3>2. QED
      BY <2>1, <3>1, CleanFacts DEF Written, Over
  <2>2. CASE ~Committed!Live(l)
    BY <1>1, <1>2, <2>2, CleanFacts
  <2>3. QED
    BY <2>1, <2>2
<1>5. Holders(API, "lead", l) = {}
  BY <1>0, <1>1 DEF Blockers
<1>6. \A t \in Collectors : l \notin DOMAIN dirty[t].lead
  BY <1>2, <1>5, Constants DEF Holders
<1>7. Committed!Live(l) => l <= issued.lead
  BY <1>2 DEF History, Committed!Live
<1>8. QED
  BY <1>1, <1>3, <1>4, <1>6, <1>7, HistoryRequest

LEMMA HistoryCascade ==
    ASSUME Transactions, History, NEW k \in Keys, Cascade(k)
    PROVE  History'
<1>1. /\ UNCHANGED <<record, lead, link, past, issued>>
      /\ dirty' = [dirty EXCEPT ![API]["record"] = Written(@, k, NoRecord)]
  BY DEF Cascade, Put, tables
<1>2. Shape /\ API \in Sessions /\ Collectors \subseteq Sessions /\ DirtyShape(dirty[API])
  BY DEF Transactions, Sessions, Shape
<1>3. dirty'[API].lead = dirty[API].lead /\ \A t \in Collectors : dirty'[t] = dirty[t]
  BY <1>1, <1>2, Constants DEF Shape, DirtyShape
<1>4. \A l \in DOMAIN dirty[API].lead :
          l <= issued.lead /\ \A t \in Collectors : l \notin DOMAIN dirty[t].lead
  BY DEF History, LeadsOf
<1>5. QED
  BY <1>1, <1>3, <1>4, HistoryRequest

LEMMA HistoryCommitDelete ==
    ASSUME Transactions, History, CommitDelete
    PROVE  History'
<1>1. Publish(API) /\ UNCHANGED <<issued, now, run>>
  BY DEF CommitDelete
<1>2. Shape /\ Erasing /\ Exclusive /\ API \in Sessions /\ Collectors \subseteq Sessions
  BY DEF Transactions, Sessions
<1>3. /\ issued'.lead = issued.lead /\ issued.lead \in Nat
      /\ DOMAIN issued' = {"lead", "record"} /\ Departures
  BY <1>1 DEF History
<1>4. /\ dirty'[API] = Clean /\ \A t \in Sessions \ {API} : dirty'[t] = dirty[t]
  BY <1>1, <1>2, PublishFacts
<1>5. \A k \in Keys : record'[k] = record[k] \/ record'[k] = NoRecord
  <2>1. \A k \in Keys : record'[k] = IF k \in DOMAIN dirty[API].record
                                    THEN dirty[API].record[k] ELSE record[k]
    BY <1>1, <1>2, PublishFacts
  <2>2. QED
    BY <1>2, <2>1 DEF Erasing
<1>6. \A l \in LeadIds : IF l \in DOMAIN dirty[API].lead THEN lead'[l] = NoRow
                         ELSE lead'[l] = lead[l]
  <2>1. \A l \in LeadIds : lead'[l] = IF l \in DOMAIN dirty[API].lead
                                     THEN dirty[API].lead[l] ELSE lead[l]
    BY <1>1, <1>2, PublishFacts
  <2>2. QED
    BY <1>2, <2>1 DEF Erasing
<1>7. \A l \in LeadIds : \A k \in Keys :
         link'[l][k] = IF lead'[l] = NoRow \/ record'[k] = NoRecord THEN "none"
                       ELSE IF <<l, k>> \in DOMAIN dirty[API].link
                            THEN dirty[API].link[<<l, k>>] ELSE link[l][k]
  BY <1>1, <1>2, PublishFacts
<1>8. \A k \in Keys :
         past'[k] = IF record'[k] = NoRecord THEN {}
                    ELSE past[k] \cup ({record[k].lead} \ {NoLead, record'[k].lead})
  BY <1>1 DEF Publish
<1>9. \A k \in Keys : past'[k] \subseteq past[k] /\ (record'[k] = NoRecord => past'[k] = {})
  BY <1>5, <1>8
<1>10. NoRow.firstSeen = 0
  BY DEF NoRow, Committed!NoRow
<1>11. \A l \in LeadIds : lead'[l].firstSeen # 0 => l <= issued'.lead
  BY <1>3, <1>6, <1>10 DEF History
<1>12. Departures'
  <2>1. SUFFICES ASSUME NEW k \in Keys, NEW l \in past'[k]
                 PROVE  /\ l \in LeadIds /\ l <= issued'.lead /\ l # record'[k].lead
                        /\ link'[l][k] # "none" \/ lead'[l].firstSeen = 0
    BY DEF Departures
  <2>2. l \in past[k] /\ record'[k] # NoRecord /\ record'[k] = record[k]
    BY <1>5, <1>9, <2>1
  <2>3. /\ l \in LeadIds /\ l <= issued.lead /\ l # record[k].lead
        /\ link[l][k] # "none" \/ lead[l].firstSeen = 0
    BY <1>3, <2>2 DEF Departures
  <2>4. CASE lead'[l] = NoRow
    BY <1>3, <1>10, <2>2, <2>3, <2>4
  <2>5. CASE lead'[l] # NoRow
    <3>1. lead'[l] = lead[l]
      BY <1>6, <2>3, <2>5
    <3>2. link'[l][k] = link[l][k]
      BY <1>2, <1>7, <2>2, <2>3, <2>5 DEF Erasing
    <3>3. QED
      BY <1>3, <2>2, <2>3, <3>1, <3>2
  <2>6. QED
    BY <2>4, <2>5
<1>13. ASSUME NEW t \in Collectors
       PROVE  LeadsOf(t)' /\ MovesOf(t)'
  <2>1. /\ LeadsOf(t) /\ MovesOf(t) /\ dirty'[t] = dirty[t]
        /\ DOMAIN dirty[t].lead \subseteq LeadIds /\ DOMAIN dirty[t].record \subseteq Keys
    BY <1>2, <1>4, Constants DEF History, Shape, DirtyShape
  <2>2. \A l \in DOMAIN dirty[t].lead : lead'[l] = lead[l]
    BY <1>6, <2>1 DEF LeadsOf
  <2>3. LeadsOf(t)'
    BY <1>3, <1>4, <1>9, <2>1, <2>2, CleanFacts DEF LeadsOf
  <2>4. MovesOf(t)'
    BY <1>9, <2>1 DEF MovesOf
  <2>5. QED
    BY <2>3, <2>4
<1>14. QED
  BY <1>3, <1>4, <1>11, <1>12, <1>13, CleanFacts DEF History

LEMMA HistorySame ==
    ASSUME Transactions, History, UNCHANGED <<record, lead, link, past, issued, dirty>>
    PROVE  History'
BY DEF History, Departures, LeadsOf, MovesOf

LEMMA HistoryNext ==
    ASSUME Transactions, History, [Next]_vars
    PROVE  History'
<1>1. ASSUME UNCHANGED <<record, lead, link, past, issued, dirty>>
      PROVE  History'
  BY <1>1, HistorySame
<1>2. ASSUME NEW s \in Collectors, Rollback(s), UNCHANGED issued
      PROVE  History'
  <2>1. UNCHANGED tables /\ dirty'[s] = Clean /\ \A t \in Sessions \ {s} : dirty'[t] = dirty[t]
    BY <1>2 DEF Rollback, Transactions, Shape, Sessions
  <2>2. issued' = issued /\ DOMAIN issued' = {"lead", "record"}
    BY <1>2 DEF History
  <2>3. QED
    BY <2>1, <2>2, CleanFacts, HistoryQuiet
<1>3. ASSUME NEW s \in Collectors, Ingest(s)
      PROVE  History'
  <2>1. CASE Store(s)
    BY <2>1, HistoryStore
  <2>2. CASE StoreBreaks(s) \/ ApplyBreaks(s) \/ CreateBreaks(s) \/ LinkBreaks(s)
    BY <1>2, <2>2 DEF StoreBreaks, ApplyBreaks, CreateBreaks, LinkBreaks, Break
  <2>3. CASE Match(s) \/ Gather(s)
    BY <1>1, <2>3 DEF Match, Gather, tables
  <2>4. CASE Apply(s)
    BY <2>4, HistoryApply
  <2>5. CASE Create(s)
    BY <2>5, HistoryCreate
  <2>6. CASE Link(s)
    BY <2>6, HistoryLink
  <2>7. CASE ApplyNothing(s) \/ Flag(s)
    <3>1. /\ UNCHANGED <<tables, issued>> /\ DOMAIN issued' = {"lead", "record"}
          /\ dirty'[s].record = dirty[s].record /\ dirty'[s].lead = dirty[s].lead
          /\ \A t \in Sessions \ {s} : dirty'[t] = dirty[t]
      BY <2>7 DEF ApplyNothing, Flag, Put, Continue, Transactions, Shape, DirtyShape, History,
                  Sessions
    <3>2. QED
      BY <3>1, HistoryQuiet DEF History, MovesOf
  <2>8. QED
    BY <1>3, <2>1, <2>2, <2>3, <2>4, <2>5, <2>6, <2>7 DEF Ingest
<1>4. ASSUME NEW s \in Collectors, Finish(s) \/ Fail(s) \/ Abort(s)
      PROVE  History'
  <2>1. CASE Finish(s)
    BY <2>1, HistoryFinish
  <2>2. CASE Fail(s)
    BY <1>1, <2>2 DEF Fail, tables
  <2>3. CASE Abort(s)
    BY <1>2, <2>3 DEF Abort
  <2>4. QED
    BY <1>4, <2>1, <2>2, <2>3
<1>5. ASSUME Erase
      PROVE  History'
  BY <1>5, HistoryDelete, HistoryCascade, HistoryCommitDelete DEF Erase
<1>6. ASSUME NEW s \in Sessions, Victim(s)
      PROVE  History'
  <2>1. CASE s \in Collectors
    BY <1>2, <1>6, <2>1, Constants DEF Victim, Break
  <2>2. CASE s = API
    <3>1. /\ UNCHANGED <<record, lead, link, past, issued>> /\ dirty'[API] = Clean
          /\ \A t \in Collectors : dirty'[t] = dirty[t]
      BY <1>6, <2>2, Constants DEF Victim, Rollback, tables, Transactions, Shape, Sessions
    <3>2. QED
      BY <3>1, CleanFacts, HistoryRequest
  <2>3. QED
    BY <2>1, <2>2 DEF Sessions
<1>7. CASE Next
  <2>1. ASSUME NEW s \in Collectors,
               (\E source \in Sources : Begin(s, source)) \/ \E o \in Offers : Look(s, o[1], o[2])
        PROVE  History'
    BY <1>1, <2>1 DEF Begin, Look, tables
  <2>2. ASSUME (\E l \in LeadIds : Request(l) \/ NotFound(l)) \/ \E e \in OptOuts : Suppress(e)
        PROVE  History'
    BY <1>1, <2>2 DEF Request, NotFound, Suppress, tables, vars
  <2>3. QED
    BY <1>3, <1>4, <1>5, <1>6, <1>7, <2>1, <2>2 DEF Next
<1>8. CASE UNCHANGED vars
  BY <1>1, <1>8 DEF vars
<1>9. QED
  BY <1>7, <1>8

LEMMA HistoryInit == Init => History
<1> SUFFICES ASSUME Init
             PROVE  History
  OBVIOUS
<1>1. /\ lead = [l \in LeadIds |-> NoRow] /\ issued = [lead |-> 0, record |-> 0]
      /\ past = [k \in Keys |-> {}] /\ dirty = [s \in Sessions |-> Clean]
      /\ API \in Sessions /\ Collectors \subseteq Sessions
  BY DEF Init, Committed!Init, NoRow, LeadIds, Committed!LeadIds, Sessions
<1>2. QED
  BY <1>1, CleanFacts DEF History, Departures, LeadsOf, MovesOf, NoRow, Committed!NoRow

-----------------------------------------------------------------------------
(***************************************************************************)
(* Types.                                                                  *)
(***************************************************************************)
RecordRow == Committed!RecordRow
LeadRow == Committed!LeadRow
Suppressions == {"email", "domain"} \X Values \X (0..MaxTime)
IssuedIds == [lead : 0..MaxLeads, record : Nat]

RunTyped(r, time) ==
    /\ r.pc \in {"idle", "open", "broken"} \cup Working
    /\ r.source \in Sources \cup {NoSource} /\ r.stamp \in 0..time
    /\ r.listed \subseteq Suppressions
    /\ r.done \subseteq Keys /\ r.item \in Item
    /\ r.pc = "flagging" => r.item.review \in LeadIds

DraftsTyped(d) ==
    /\ Partial(Keys, d.record, RecordRow)
    /\ Partial(LeadIds, d.lead, LeadRow)
    /\ Partial(LeadIds \X Keys, d.link, {"merged", "review"})
    /\ Partial(LeadIds, d.built, SUBSET Keys)

TablesTyped ==
    /\ record \in [Keys -> RecordRow] /\ lead \in [LeadIds -> LeadRow]
    /\ link \in [LeadIds -> [Keys -> {"none", "merged", "review"}]]
    /\ suppressed \subseteq Suppressions
    /\ past \in [Keys -> SUBSET LeadIds] /\ built \in [LeadIds -> SUBSET Keys]

RequestTyped ==
    request \in [pc : {"idle", "deleting", "cascading"}, lead : LeadIds \cup {NoLead},
                 contacts : SUBSET ({"email", "domain"} \X Values)]

Typed ==
    /\ TablesTyped /\ RequestTyped
    /\ issued \in IssuedIds /\ now \in 0..MaxTime
    /\ \A s \in Collectors : RunTyped(run[s], now)
    /\ \A s \in Sessions : DraftsTyped(dirty[s])

LEMMA RowTypes ==
    /\ RecordRow = [id : Nat, content : Content, collected : 0..MaxTime,
                    lead : LeadIds \cup {NoLead}]
    /\ LeadRow = [content : Content, firstSeen : 0..MaxTime, lastSeen : 0..MaxTime]
BY DEF RecordRow, LeadRow, Committed!RecordRow, Committed!LeadRow, Committed!Content, Content,
       Committed!Fields, Committed!Exact, Fields, Exact,
       Committed!LeadIds, LeadIds, Committed!NoLead, NoLead

LEMMA ItemType ==
    Item = [key : Keys \cup {NoKey}, content : Content, id : Nat,
            own : LeadIds \cup {NoLead}, target : LeadIds \cup {NoLead},
            loaded : LeadRow, merged : LeadRow,
            from : SUBSET Keys, review : LeadIds \cup {NoLead}, behind : SUBSET LeadIds]
BY DEF Item, LeadRow

LEMMA TypedIs == Typed => TypeOK
<1>1. ASSUME Typed
      PROVE  Committed!TypeOK
  BY <1>1 DEF Typed, TablesTyped, IssuedIds, RecordRow, LeadRow, Suppressions,
        Committed!TypeOK, Committed!Suppressible, Committed!LeadIds, LeadIds
<1>2. QED
  BY <1>1 DEF TypeOK, Typed, RequestTyped, Suppressions, RecordRow, LeadRow, RunTyped, DraftsTyped,
         Committed!Suppressible, Working

\* What is absent is typed.
LEMMA EmptyTyped ==
    /\ NoRecord \in RecordRow /\ NoRow \in LeadRow /\ NoItem \in Item
    /\ DraftsTyped(Clean) /\ NoRequest.contacts = {} /\ 0 \in 0..MaxTime
<1>1. NoContent \in Content /\ NoContent = NoRow.content /\ NoContent = NoRecord.content
  BY DEF NoContent, NoRow, Committed!NoRow, NoRecord, Committed!NoRecord, Content, Fields, Exact,
         Committed!Fields, Committed!Exact
<1>2. 0 \in 0..MaxTime /\ 0 \in Nat
  BY LimitAssumption
<1>3. NoRecord \in RecordRow /\ NoRow \in LeadRow
  BY <1>1, <1>2, RowTypes DEF NoRecord, NoRow, Committed!NoRecord, Committed!NoRow, NoLead, Committed!NoLead
<1>4. NoItem \in Item
  BY <1>1, <1>2, <1>3, ItemType DEF NoItem
<1>5. DraftsTyped(Clean)
  BY DEF DraftsTyped, Clean, Partial
<1>6. QED
  BY <1>2, <1>3, <1>4, <1>5 DEF NoRequest

LEMMA NoRunTyped ==
    ASSUME NEW t \in Nat
    PROVE  RunTyped(NoRun, t)
BY EmptyTyped DEF RunTyped, NoRun

\* What a session sees is typed.
LEMMA SeenTyped ==
    ASSUME Shape, Typed, NEW s \in Collectors
    PROVE  /\ \A k \in Keys : Overlaid(s).record[k] \in RecordRow /\ Loaded(s)[k] \in RecordRow
           /\ \A l \in LeadIds : Overlaid(s).lead[l] \in LeadRow /\ Overlaid(s).built[l] \in SUBSET Keys
<1>1. s \in Sessions /\ DraftsTyped(dirty[s]) /\ run[s].item.own \in LeadIds \cup {NoLead}
  <2>1. s \in Sessions /\ run[s].item \in Item
    BY DEF Sessions, Typed, RunTyped
  <2>2. QED
    BY <2>1, ItemType DEF Typed
<1>2. ASSUME NEW k \in Keys
      PROVE  Overlaid(s).record[k] \in RecordRow
  BY <1>1, SeenRecord DEF Typed, TablesTyped, DraftsTyped, Partial
<1>3. ASSUME NEW l \in LeadIds
      PROVE  Overlaid(s).lead[l] \in LeadRow
  BY <1>1, SeenLead DEF Typed, TablesTyped, DraftsTyped, Partial
<1>4. ASSUME NEW l \in LeadIds
      PROVE  Overlaid(s).built[l] \in SUBSET Keys
  <2>1. Overlaid(s).built = Over(dirty[s].built, built) /\ DOMAIN built = LeadIds
    BY DEF Overlaid, Typed, TablesTyped
  <2>2. Overlaid(s).built[l] = IF l \in DOMAIN dirty[s].built THEN dirty[s].built[l] ELSE built[l]
    BY <2>1 DEF Over
  <2>3. QED
    BY <1>1, <2>2 DEF DraftsTyped, Partial, Typed, TablesTyped
<1>5. ASSUME NEW k \in Keys
      PROVE  Loaded(s)[k] \in RecordRow
  BY <1>1, <1>2, RowTypes DEF Loaded
<1>6. QED
  BY <1>2, <1>3, <1>4, <1>5

-----------------------------------------------------------------------------
(***************************************************************************)
(* What a rebuilt lead is made of.                                         *)
(***************************************************************************)
\* A set of naturals that is not empty has a least element.
LEMMA Minimum ==
    ASSUME NEW T \in SUBSET Nat, T # {}
    PROVE  \E x \in T : \A y \in T : x <= y
<1>1. \E x \in T : \A y \in T : ~ (<<y, x>> \in OpToRel(<, Nat))
  BY WFMin, NatLessThanWellFounded, Zenon
<1>2. \E x \in T : \A y \in T : ~ (y < x)
  BY <1>1, Zenon DEF OpToRel
<1>3. QED
  BY <1>2

\* The most recent of several candidates.
LEMMA LatestType ==
    ASSUME NEW s, NEW C, C # {}, \A c \in C : c.collected \in 0..MaxTime
    PROVE  Seen(s)!Latest(C) \in 0..MaxTime
<1> DEFINE T == {c.collected : c \in C}
           U == {MaxTime - t : t \in T}
<1>1. T # {} /\ T \subseteq 0..MaxTime /\ MaxTime \in Nat
  BY LimitAssumption
<1> HIDE DEF T
<1>2. U # {} /\ U \subseteq Nat
  <2>1. \A t \in 0..MaxTime : MaxTime - t \in Nat
    BY <1>1
  <2>2. QED
    BY <1>1, <2>1
<1>3. PICK u \in U : \A v \in U : u <= v
  BY <1>2, Minimum
<1>4. PICK t \in T : u = MaxTime - t
  OBVIOUS
<1>5. \A v \in T : v <= t
  <2>1. SUFFICES ASSUME NEW v \in T PROVE v <= t
    OBVIOUS
  <2>2. MaxTime - t <= MaxTime - v
    BY <1>3, <1>4
  <2>3. v \in Nat /\ t \in Nat
    BY <1>1
  <2>4. QED
    BY <1>1, <2>2, <2>3
<1>6. \E x \in T : \A c \in C : c.collected <= x
  BY <1>5 DEF T
<1>7. Seen(s)!Latest(C) = CHOOSE x \in T : \A c \in C : c.collected <= x
  BY DEF Seen!Latest, T
<1>8. Seen(s)!Latest(C) \in T
  BY <1>6, <1>7
<1>9. QED
  BY <1>1, <1>8

\* A merged field is empty or comes from a candidate.
LEMMA MergeFrom ==
    ASSUME NEW s, NEW C, NEW f \in Fields
    PROVE  Seen(s)!Merge(C)[f] = NoValue \/ \E c \in C : Seen(s)!Merge(C)[f] = c.content[f]
<1>0. f \in Seen(s)!Fields
  BY DEF Fields, Exact, Seen!Fields, Seen!Exact
<1>1. CASE Seen(s)!Winners(C, f) = {}
  BY <1>0, <1>1 DEF Seen!Merge
<1>2. CASE Seen(s)!Winners(C, f) # {}
  <2>1. PICK c : c = CHOOSE d \in Seen(s)!Winners(C, f) : TRUE
    OBVIOUS
  <2>2. c \in Seen(s)!Winners(C, f)
    BY <1>2, <2>1
  <2>3. c \in C
    BY <2>2 DEF Seen!Winners
  <2>4. Seen(s)!Merge(C)[f] = c.content[f]
    BY <1>0, <1>2, <2>1 DEF Seen!Merge
  <2>5. QED
    BY <2>3, <2>4
<1>3. QED
  BY <1>1, <1>2

LEMMA AppliedTyped ==
    ASSUME NEW s, NEW C, C # {},
           \A c \in C : c.content \in Content /\ c.collected \in 0..MaxTime,
           NEW t \in 0..MaxTime
    PROVE  Seen(s)!Applied(C, t) \in LeadRow
<1>1. Seen(s)!Latest(C) \in 0..MaxTime
  BY LatestType
<1>2. Seen(s)!Merge(C) \in Content
  <2>1. Seen(s)!Merge(C) = [f \in Fields |-> Seen(s)!Merge(C)[f]]
    BY DEF Seen!Merge, Fields, Exact, Seen!Fields, Seen!Exact
  <2>2. ASSUME NEW f \in Fields
        PROVE  Seen(s)!Merge(C)[f] \in Values \cup {NoValue}
    BY <2>2, MergeFrom DEF Content
  <2>3. QED
    BY <2>1, <2>2 DEF Content
<1>3. QED
  BY <1>1, <1>2, RowTypes DEF Seen!Applied

-----------------------------------------------------------------------------
(***************************************************************************)
(* Types: a collection reads.                                              *)
(***************************************************************************)
LEMMA WrittenTyped ==
    ASSUME NEW D, NEW f, NEW S, Partial(D, f, S), NEW d \in D, NEW v \in S
    PROVE  Partial(D, Written(f, d, v), S)
BY DEF Partial, Written, Over

\* s moves and writes; nobody else does, and nothing is committed.
LEMMA TypedFrame ==
    ASSUME Typed, NEW s \in Collectors, UNCHANGED <<tables, request>>,
           issued' \in IssuedIds, now' \in 0..MaxTime, now <= now',
           \A t \in Collectors \ {s} : run'[t] = run[t],
           \A t \in Sessions \ {s} : dirty'[t] = dirty[t],
           RunTyped(run'[s], now'), DraftsTyped(dirty'[s])
    PROVE  Typed'
<1>1. TablesTyped' /\ RequestTyped'
  BY DEF Typed, TablesTyped, RequestTyped, tables
<1>2. ASSUME NEW t \in Collectors, t # s
      PROVE  RunTyped(run'[t], now')
  <2>1. run'[t] = run[t] /\ RunTyped(run[t], now) /\ now \in Nat /\ now' \in Nat
    BY <1>2, LimitAssumption DEF Typed
  <2>2. run'[t].stamp \in 0..now'
    BY <2>1 DEF RunTyped
  <2>3. QED
    BY <2>1, <2>2 DEF RunTyped
<1>3. \A t \in Sessions : DraftsTyped(dirty'[t])
  BY DEF Typed
<1>4. \A t \in Collectors : RunTyped(run'[t], now')
  BY <1>2
<1>5. QED
  BY <1>1, <1>3, <1>4 DEF Typed

\* The locals of _ingest change, and where it is.
LEMMA TypedRun ==
    ASSUME Shape, Typed, NEW s \in Collectors, NEW pc \in {"open", "broken"} \cup Working,
           NEW item \in Item, NEW done \in SUBSET Keys,
           pc = "flagging" => item.review \in LeadIds,
           run' = [run EXCEPT ![s] = [run[s] EXCEPT !.pc = pc, !.item = item, !.done = done]]
    PROVE  RunTyped(run'[s], now) /\ \A t \in Collectors \ {s} : run'[t] = run[t]
<1>1. RunTyped(run[s], now) /\ RunShape(run[s]) /\ DOMAIN run = Collectors
  BY DEF Typed, Shape
<1>2. run'[s] = [run[s] EXCEPT !.pc = pc, !.item = item, !.done = done]
      /\ \A t \in Collectors \ {s} : run'[t] = run[t]
  BY <1>1
<1>3. run'[s].pc = pc /\ run'[s].item = item /\ run'[s].done = done
      /\ run'[s].source = run[s].source /\ run'[s].stamp = run[s].stamp
      /\ run'[s].listed = run[s].listed
  BY <1>1, <1>2 DEF RunShape
<1>4. QED
  BY <1>1, <1>2, <1>3 DEF RunTyped

LEMMA TypedReads ==
    ASSUME Shape, Typed, NEW s \in Collectors, NEW pc \in {"open", "broken"} \cup Working,
           NEW item \in Item, NEW done \in SUBSET Keys,
           pc = "flagging" => item.review \in LeadIds,
           run' = [run EXCEPT ![s] = [run[s] EXCEPT !.pc = pc, !.item = item, !.done = done]],
           UNCHANGED <<tables, issued, now, request, dirty>>
    PROVE  Typed'
<1>1. RunTyped(run'[s], now) /\ \A t \in Collectors \ {s} : run'[t] = run[t]
  BY TypedRun
<1>2. s \in Sessions /\ now <= now /\ now' = now /\ issued' = issued
  BY LimitAssumption DEF Sessions, Typed
<1>3. issued' \in IssuedIds /\ now' \in 0..MaxTime
  BY <1>2 DEF Typed
<1>4. \A t \in Sessions : DraftsTyped(dirty'[t]) /\ dirty'[t] = dirty[t]
  BY DEF Typed
<1>5. QED
  BY <1>1, <1>2, <1>3, <1>4, TypedFrame

LEMMA BeginTyped ==
    ASSUME Transactions, Typed, NEW s \in Collectors, NEW source \in Sources, Begin(s, source)
    PROVE  Typed'
<1>1. /\ now < MaxTime /\ now' = now + 1 /\ UNCHANGED <<tables, issued, request, dirty>>
      /\ run' = [run EXCEPT ![s] = [NoRun EXCEPT !.pc = "open", !.source = source,
                                               !.stamp = now', !.listed = suppressed]]
  BY DEF Begin
<1>2. Shape /\ now \in 0..MaxTime /\ suppressed \subseteq Suppressions /\ s \in Sessions
  BY DEF Transactions, Typed, TablesTyped, Sessions
<1>3. now' \in 0..MaxTime /\ now <= now' /\ now' \in 0..now' /\ now' \in Nat
  BY <1>1, <1>2, LimitAssumption
<1>4. /\ run'[s].pc = "open" /\ run'[s].source = source /\ run'[s].stamp = now'
      /\ run'[s].listed = suppressed /\ run'[s].done = {} /\ run'[s].item = NoItem
      /\ \A t \in Collectors \ {s} : run'[t] = run[t]
  BY <1>1, <1>2 DEF NoRun, Shape
<1>5. RunTyped(run'[s], now')
  BY <1>2, <1>3, <1>4, EmptyTyped DEF RunTyped
<1>6. issued' \in IssuedIds /\ \A t \in Sessions : DraftsTyped(dirty'[t]) /\ dirty'[t] = dirty[t]
  BY <1>1 DEF Typed
<1>7. QED
  BY <1>1, <1>2, <1>3, <1>4, <1>5, <1>6, TypedFrame

LEMMA LookTyped ==
    ASSUME Transactions, Typed, NEW s \in Collectors, NEW k \in Keys, NEW c \in Content, Look(s, k, c)
    PROVE  Typed'
<1> DEFINE item == [NoItem EXCEPT !.key = k, !.content = c, !.id = Overlaid(s).record[k].id,
                                  !.own = Seen(s)!Own(k)]
<1>1. /\ UNCHANGED <<tables, issued, now, request, dirty>>
      /\ run' = [run EXCEPT ![s].pc = "storing", ![s].done = @ \cup {k}, ![s].item = item]
  BY DEF Look
<1>2. Shape /\ run[s].done \subseteq Keys
  BY DEF Transactions, Typed, RunTyped
<1>3. Overlaid(s).record[k].id \in Nat /\ Seen(s)!Own(k) \in LeadIds \cup {NoLead}
  BY <1>2, SeenTyped, RowTypes DEF Seen!Own
<1>4. item \in Item
  BY <1>3, EmptyTyped, ItemType
<1> HIDE DEF item
<1>5. run' = [run EXCEPT ![s] = [run[s] EXCEPT !.pc = "storing", !.item = item,
                                               !.done = run[s].done \cup {k}]]
  BY <1>1, <1>2 DEF Shape, RunShape
<1>6. /\ UNCHANGED <<tables, issued, now, request, dirty>>
      /\ "storing" \in {"open", "broken"} \cup Working /\ run[s].done \cup {k} \in SUBSET Keys
  BY <1>1, <1>2 DEF Working
<1>7. QED
  BY <1>2, <1>4, <1>5, <1>6, TypedReads

LEMMA MatchTyped ==
    ASSUME Transactions, Typed, NEW s \in Collectors, Match(s)
    PROVE  Typed'
<1>1. PICK target \in LeadIds \cup {NoLead}, review \in LeadIds \cup {NoLead},
           behind \in SUBSET LeadIds :
         run' = [run EXCEPT ![s].pc = IF target = NoLead THEN "creating" ELSE "gathering",
                            ![s].item = [run[s].item EXCEPT
                                   !.target = target, !.review = review,
                                   !.loaded = IF target = NoLead THEN NoRow
                                              ELSE Overlaid(s).lead[target],
                                   !.behind = behind]]
  <2> DEFINE item == run[s].item
             best == Seen(s)!BestMatch(item.key, item.content)
             auto == {l \in best : Seen(s)!IsAuto(l, item.content)}
             own  == {l \in LeadIds : l = item.own /\ Seen(s)!Live(l)}
             to   == IF auto # {} THEN auto ELSE own
  <2>1. PICK target \in IF to = {} THEN {NoLead} ELSE to,
             review \in IF best \ auto = {} THEN {NoLead} ELSE best \ auto :
          run' = [run EXCEPT ![s].pc = IF target = NoLead THEN "creating" ELSE "gathering",
                             ![s].item = [item EXCEPT
                                 !.target = target, !.review = review,
                                 !.loaded = IF target = NoLead THEN NoRow
                                            ELSE Overlaid(s).lead[target],
                                 !.behind = IF target = NoLead THEN Seen(s)!Behind(item.content)
                                            ELSE {}]]
    BY DEF Match
  <2>2. best \subseteq LeadIds /\ to \subseteq LeadIds
    <3>1. best \subseteq LeadIds
      BY DEF Seen!BestMatch, Seen!FindCandidates, Seen!LeadIds, LeadIds
    <3>2. QED
      BY <3>1
  <2>3. target \in LeadIds \cup {NoLead} /\ review \in LeadIds \cup {NoLead}
    BY <2>2
  <2>4. Seen(s)!Behind(item.content) \in SUBSET LeadIds
    BY DEF Seen!Behind, Seen!LeadIds, LeadIds
  <2>5. QED
    BY <2>1, <2>3, <2>4
<1>2. Shape /\ run[s].item \in Item /\ run[s].done \in SUBSET Keys
  BY DEF Transactions, Typed, RunTyped
<1>3. PICK loaded \in LeadRow :
         loaded = IF target = NoLead THEN NoRow ELSE Overlaid(s).lead[target]
  BY <1>2, SeenTyped, EmptyTyped
<1>4. PICK item : item = [run[s].item EXCEPT !.target = target, !.review = review,
                                             !.loaded = loaded, !.behind = behind]
  OBVIOUS
<1>5. item \in Item
  BY <1>2, <1>4, ItemType
<1>6. PICK pc \in {"creating", "gathering"} :
         pc = IF target = NoLead THEN "creating" ELSE "gathering"
  OBVIOUS
<1>7. run' = [run EXCEPT ![s].pc = pc, ![s].item = item]
  BY <1>1, <1>3, <1>4, <1>6
<1>8. run' = [run EXCEPT ![s] = [run[s] EXCEPT !.pc = pc, !.item = item, !.done = run[s].done]]
  BY <1>2, <1>7 DEF Shape, RunShape
<1>9. UNCHANGED <<tables, issued, now, request, dirty>>
  BY DEF Match
<1>10. QED
  BY <1>2, <1>5, <1>8, <1>9, TypedReads DEF Working

\* The candidates of a merge.
LEMMA SightingsTyped ==
    ASSUME Transactions, Typed, NEW s \in Collectors, run[s].pc \in Working,
           NEW l, NEW k \in Keys, NEW c \in Content
    PROVE  /\ Seen(s)!Sightings(l, k, c) # {}
           /\ \A x \in Seen(s)!Sightings(l, k, c) : x.content \in Content /\ x.collected \in 0..MaxTime
           /\ Seen(s)!Built(l, k) \in SUBSET Keys
<1>1. Seen(s)!Built(l, k) \in SUBSET Keys
  BY DEF Seen!Built
<1>2. run[s].stamp \in 0..MaxTime
  BY LimitAssumption DEF Typed, RunTyped
<1>3. \A j \in Keys : Loaded(s)[j].content \in Content /\ Loaded(s)[j].collected \in 0..MaxTime
  BY SeenTyped, RowTypes DEF Transactions
<1> DEFINE incoming == Seen(s)!Candidate(k, Seen(s)!RecordId(k), c, run[s].stamp)
           stored(j) == Seen(s)!Candidate(j, Loaded(s)[j].id, Loaded(s)[j].content,
                                          Loaded(s)[j].collected)
<1>4. Seen(s)!Sightings(l, k, c) = {stored(j) : j \in Seen(s)!Built(l, k) \ {k}} \cup {incoming}
  BY DEF Seen!Sightings
<1>5. incoming.content \in Content /\ incoming.collected \in 0..MaxTime
  BY <1>2 DEF Seen!Candidate
<1>6. \A j \in Keys : stored(j).content \in Content /\ stored(j).collected \in 0..MaxTime
  BY <1>3 DEF Seen!Candidate
<1> HIDE DEF incoming, stored
<1>7. QED
  BY <1>1, <1>4, <1>5, <1>6

LEMMA GatherTyped ==
    ASSUME Transactions, Typed, NEW s \in Collectors, Gather(s)
    PROVE  Typed'
<1>1. PICK l, k, c, C, row, from :
         /\ l = run[s].item.target /\ k = run[s].item.key /\ c = run[s].item.content
         /\ C = Seen(s)!Sightings(l, k, c)
         /\ row = Seen(s)!Applied(C, run[s].item.loaded.firstSeen)
         /\ from = Seen(s)!Built(l, k)
  OBVIOUS
<1>2. /\ run[s].pc = "gathering" /\ UNCHANGED <<tables, issued, now, request, dirty>>
      /\ run' = [run EXCEPT ![s].pc = "applying", ![s].item.merged = row, ![s].item.from = from]
  BY <1>1 DEF Gather
<1>3. Shape /\ ProgressOf(s) /\ run[s].item \in Item /\ run[s].done \in SUBSET Keys
  BY DEF Transactions, Typed, RunTyped
<1>4. k \in Keys /\ c \in Content /\ run[s].item.loaded.firstSeen \in 0..MaxTime
  BY <1>1, <1>2, <1>3, ItemType, RowTypes DEF ProgressOf, Working
<1>5. /\ C # {} /\ from \in SUBSET Keys
      /\ \A x \in C : x.content \in Content /\ x.collected \in 0..MaxTime
  BY <1>1, <1>2, <1>4, SightingsTyped DEF Working
<1>6. row \in LeadRow
  BY <1>1, <1>4, <1>5, AppliedTyped
<1>7. PICK item : item = [run[s].item EXCEPT !.merged = row, !.from = from]
  OBVIOUS
<1>8. item \in Item
  BY <1>3, <1>5, <1>6, <1>7, ItemType
<1>9. run' = [run EXCEPT ![s] = [run[s] EXCEPT !.pc = "applying", !.item = item,
                                               !.done = run[s].done]]
  BY <1>2, <1>3, <1>7 DEF Shape, RunShape
<1>10. UNCHANGED <<tables, issued, now, request, dirty>> /\ "applying" \in {"open", "broken"} \cup Working
  BY <1>2 DEF Working
<1>11. QED
  BY <1>3, <1>8, <1>9, <1>10, TypedReads

-----------------------------------------------------------------------------
(***************************************************************************)
(* Types: a collection writes.                                             *)
(***************************************************************************)
\* One row is written.
LEMMA PutTyped ==
    ASSUME Shape, Typed, NEW s \in Sessions, NEW table, NEW row, NEW value,
           Put(s, table, row, value),
           \/ table = "record" /\ row \in Keys /\ value \in RecordRow
           \/ table = "lead" /\ row \in LeadIds /\ value \in LeadRow
           \/ table = "link" /\ row \in LeadIds \X Keys /\ value \in {"merged", "review"}
           \/ table = "built" /\ row \in LeadIds /\ value \in SUBSET Keys
    PROVE  DraftsTyped(dirty'[s]) /\ \A t \in Sessions \ {s} : dirty'[t] = dirty[t]
<1> DEFINE new == Written(dirty[s][table], row, value)
<1>1. DraftsTyped(dirty[s]) /\ DirtyShape(dirty[s]) /\ DOMAIN dirty = Sessions
  BY DEF Typed, Shape
<1>2. dirty' = [dirty EXCEPT ![s][table] = new]
  BY DEF Put
<1> HIDE DEF new
<1>3. \A t \in Sessions \ {s} : dirty'[t] = dirty[t]
  BY <1>1, <1>2
<1>4. dirty'[s] = [dirty[s] EXCEPT ![table] = new]
  BY <1>1, <1>2
<1>5. CASE table = "record" /\ row \in Keys /\ value \in RecordRow
  <2>1. Partial(Keys, new, RecordRow)
    BY <1>1, <1>5, WrittenTyped DEF DraftsTyped, new
  <2>2. QED
    BY <1>1, <1>3, <1>4, <1>5, <2>1 DEF DraftsTyped, DirtyShape
<1>6. CASE table = "lead" /\ row \in LeadIds /\ value \in LeadRow
  <2>1. Partial(LeadIds, new, LeadRow)
    BY <1>1, <1>6, WrittenTyped DEF DraftsTyped, new
  <2>2. QED
    BY <1>1, <1>3, <1>4, <1>6, <2>1 DEF DraftsTyped, DirtyShape
<1>7. CASE table = "link" /\ row \in LeadIds \X Keys /\ value \in {"merged", "review"}
  <2>1. Partial(LeadIds \X Keys, new, {"merged", "review"})
    BY <1>1, <1>7, WrittenTyped DEF DraftsTyped, new
  <2>2. QED
    BY <1>1, <1>3, <1>4, <1>7, <2>1 DEF DraftsTyped, DirtyShape
<1>8. CASE table = "built" /\ row \in LeadIds /\ value \in SUBSET Keys
  <2>1. Partial(LeadIds, new, SUBSET Keys)
    BY <1>1, <1>8, WrittenTyped DEF DraftsTyped, new
  <2>2. QED
    BY <1>1, <1>3, <1>4, <1>8, <2>1 DEF DraftsTyped, DirtyShape
<1>9. QED
  BY <1>5, <1>6, <1>7, <1>8

\* A lead is written, and what it was merged from.
LEMMA PutLeadTyped ==
    ASSUME Shape, Typed, NEW s \in Sessions, NEW l \in LeadIds, NEW row \in LeadRow,
           NEW from \in SUBSET Keys,
           dirty' = [dirty EXCEPT ![s].lead = Written(@, l, row),
                                  ![s].built = Written(@, l, from)]
    PROVE  DraftsTyped(dirty'[s]) /\ \A t \in Sessions \ {s} : dirty'[t] = dirty[t]
<1>1. DraftsTyped(dirty[s]) /\ DirtyShape(dirty[s]) /\ DOMAIN dirty = Sessions
  BY DEF Typed, Shape
<1>2. Partial(LeadIds, Written(dirty[s].lead, l, row), LeadRow)
  BY <1>1, WrittenTyped DEF DraftsTyped
<1>3. Partial(LeadIds, Written(dirty[s].built, l, from), SUBSET Keys)
  BY <1>1, WrittenTyped DEF DraftsTyped
<1>4. /\ dirty'[s].lead = Written(dirty[s].lead, l, row)
      /\ dirty'[s].built = Written(dirty[s].built, l, from)
      /\ dirty'[s].record = dirty[s].record /\ dirty'[s].link = dirty[s].link
      /\ \A t \in Sessions \ {s} : dirty'[t] = dirty[t]
  BY <1>1 DEF DirtyShape
<1>5. QED
  BY <1>1, <1>2, <1>3, <1>4 DEF DraftsTyped

LEMMA TypedWrites ==
    ASSUME Shape, Typed, NEW s \in Collectors, NEW item \in Item,
           NEW pc \in {"open", "broken"} \cup Working, Continue(s, item, pc),
           pc = "flagging" => item.review \in LeadIds,
           issued' \in IssuedIds, DraftsTyped(dirty'[s]),
           \A t \in Sessions \ {s} : dirty'[t] = dirty[t]
    PROVE  Typed'
<1>1. PICK i \in Item : i = IF pc = "open" THEN NoItem ELSE item
  BY EmptyTyped
<1>2. run' = [run EXCEPT ![s].pc = pc, ![s].item = i] /\ UNCHANGED <<tables, now, request>>
  BY <1>1 DEF Continue
<1>3. run[s].done \in SUBSET Keys /\ now \in 0..MaxTime /\ now <= now
  BY LimitAssumption DEF Typed, RunTyped
<1>4. run' = [run EXCEPT ![s] = [run[s] EXCEPT !.pc = pc, !.item = i, !.done = run[s].done]]
  BY <1>2 DEF Shape, RunShape
<1>5. pc = "flagging" => i.review \in LeadIds
  BY <1>1
<1>6. RunTyped(run'[s], now) /\ \A t \in Collectors \ {s} : run'[t] = run[t]
  BY <1>3, <1>4, <1>5, TypedRun
<1>7. QED
  BY <1>2, <1>3, <1>6, TypedFrame

LEMMA StoreTyped ==
    ASSUME Transactions, Typed, NEW s \in Collectors, Store(s)
    PROVE  Typed'
<1>1. PICK k, row : /\ k = run[s].item.key
                    /\ row = Seen(s)!Upserted(k, run[s].item.content, Overlaid(s).record[k].lead)[k]
  OBVIOUS
<1>2. /\ run[s].pc = "storing" /\ run' = [run EXCEPT ![s].pc = "matching"]
      /\ UNCHANGED <<tables, now, request>>
      /\ Put(s, "record", k, row)
      /\ issued' = [lead |-> issued.lead + 0, record |-> Seen(s)!LastRecord(k)]
  BY <1>1 DEF Store, Step, Seen!Issue
<1>3. Shape /\ ProgressOf(s) /\ run[s].item \in Item /\ run[s].done \in SUBSET Keys /\ s \in Sessions
      /\ run[s].stamp \in 0..MaxTime /\ now \in 0..MaxTime /\ now <= now
      /\ issued.lead \in 0..MaxLeads /\ issued.record \in Nat
  BY LimitAssumption DEF Transactions, Typed, RunTyped, Sessions, IssuedIds
<1>4. k \in Keys /\ run[s].item.content \in Content
  BY <1>1, <1>2, <1>3, ItemType DEF ProgressOf, Working
<1>5. Loaded(s)[k] \in RecordRow /\ Overlaid(s).record[k] \in RecordRow
  BY <1>3, <1>4, SeenTyped
<1>6. Seen(s)!LastRecord(k) \in Nat /\ Seen(s)!RecordId(k) \in Nat
  BY <1>3, <1>5, RowTypes DEF Seen!LastRecord, Seen!RecordId, Seen!Stored
<1>7. row = [id |-> Seen(s)!RecordId(k), content |-> run[s].item.content,
             collected |-> run[s].stamp, lead |-> Overlaid(s).record[k].lead]
  BY <1>1, <1>4 DEF Seen!Upserted, Loaded
<1>8. row \in RecordRow
  BY <1>3, <1>4, <1>5, <1>6, <1>7, RowTypes
<1>9. DraftsTyped(dirty'[s]) /\ \A t \in Sessions \ {s} : dirty'[t] = dirty[t]
  BY <1>2, <1>3, <1>4, <1>8, PutTyped
<1>10. issued' \in IssuedIds
  BY <1>2, <1>3, <1>6 DEF IssuedIds
<1>11. run' = [run EXCEPT ![s] = [run[s] EXCEPT !.pc = "matching", !.item = run[s].item,
                                                !.done = run[s].done]]
  BY <1>2, <1>3 DEF Shape, RunShape
<1>12. "matching" \in {"open", "broken"} \cup Working /\ "matching" # "flagging"
  BY DEF Working
<1>13. RunTyped(run'[s], now) /\ \A t \in Collectors \ {s} : run'[t] = run[t]
  BY <1>3, <1>11, <1>12, TypedRun
<1>14. UNCHANGED <<tables, now, request>>
  BY <1>2
<1>15. QED
  BY <1>3, <1>9, <1>10, <1>13, <1>14, TypedFrame

LEMMA ApplyTyped ==
    ASSUME Transactions, Typed, NEW s \in Collectors, Apply(s)
    PROVE  Typed'
<1>1. PICK item, l, row : /\ item = run[s].item /\ l = item.target
                          /\ row = Patched(Overlaid(s).lead[l], item)
  OBVIOUS
<1>2. /\ run[s].pc = "applying" /\ UNCHANGED issued
      /\ dirty' = [dirty EXCEPT ![s].lead = Written(@, l, row),
                                ![s].built = Written(@, l, item.from)]
      /\ Continue(s, item, AfterMerge(item))
  BY <1>1 DEF Apply
<1>3. Shape /\ ProgressOf(s) /\ item \in Item /\ s \in Sessions
  BY <1>1 DEF Transactions, Typed, RunTyped, Sessions
<1>4. l \in LeadIds /\ item.from \in SUBSET Keys
  BY <1>1, <1>2, <1>3, ItemType DEF ProgressOf
<1>5. Overlaid(s).lead[l] \in LeadRow /\ item.merged \in LeadRow
  BY <1>3, <1>4, SeenTyped, ItemType
<1>6. row \in LeadRow
  <2>1. Overlaid(s).lead[l].content \in Content /\ item.merged.content \in Content
        /\ Overlaid(s).lead[l].firstSeen \in 0..MaxTime
        /\ Overlaid(s).lead[l].lastSeen \in 0..MaxTime /\ item.merged.lastSeen \in 0..MaxTime
    BY <1>5, RowTypes
  <2>2. row.content \in Content /\ row.firstSeen \in 0..MaxTime /\ row.lastSeen \in 0..MaxTime
        /\ row = [content |-> row.content, firstSeen |-> row.firstSeen, lastSeen |-> row.lastSeen]
    BY <1>1, <2>1 DEF Patched, Content
  <2>3. QED
    BY <2>2, RowTypes
<1>7. DraftsTyped(dirty'[s]) /\ \A t \in Sessions \ {s} : dirty'[t] = dirty[t]
  BY <1>2, <1>3, <1>4, <1>6, PutLeadTyped
<1>8. issued' \in IssuedIds /\ Continue(s, item, AfterMerge(item))
  BY <1>2 DEF Typed
<1>9. /\ AfterMerge(item) \in {"open", "broken"} \cup Working
      /\ AfterMerge(item) = "flagging" => item.review \in LeadIds
  BY <1>3, ItemType DEF AfterMerge, Working
<1>10. QED
  BY <1>3, <1>7, <1>8, <1>9, TypedWrites

LEMMA ApplyNothingTyped ==
    ASSUME Transactions, Typed, NEW s \in Collectors, ApplyNothing(s)
    PROVE  Typed'
<1>1. PICK item, l, from : /\ item = run[s].item /\ l = item.target
                           /\ from = Overlaid(s).built[l] \cup {item.key}
  OBVIOUS
<1>2. /\ run[s].pc = "applying" /\ issued' = issued /\ Put(s, "built", l, from)
      /\ Continue(s, item, AfterMerge(item))
  BY <1>1 DEF ApplyNothing
<1>3. Shape /\ ProgressOf(s) /\ item \in Item /\ s \in Sessions
  BY <1>1 DEF Transactions, Typed, RunTyped, Sessions
<1>4. l \in LeadIds /\ item.key \in Keys
  BY <1>1, <1>2, <1>3 DEF ProgressOf, Working
<1>5. from \in SUBSET Keys
  BY <1>1, <1>3, <1>4, SeenTyped
<1>6. DraftsTyped(dirty'[s]) /\ \A t \in Sessions \ {s} : dirty'[t] = dirty[t]
  BY <1>2, <1>3, <1>4, <1>5, PutTyped
<1>7. issued' \in IssuedIds
  BY <1>2 DEF Typed
<1>8. /\ AfterMerge(item) \in {"open", "broken"} \cup Working
      /\ AfterMerge(item) = "flagging" => item.review \in LeadIds
  BY <1>3, ItemType DEF AfterMerge, Working
<1>9. QED
  BY <1>2, <1>3, <1>6, <1>7, <1>8, TypedWrites

LEMMA CreateTyped ==
    ASSUME Transactions, Typed, NEW s \in Collectors, Create(s)
    PROVE  Typed'
<1>1. PICK k, l, item, row, row0 :
         /\ k = run[s].item.key /\ l = issued.lead + 1 /\ item = [run[s].item EXCEPT !.target = l]
         /\ row = Initial(s) /\ row0 = Overlaid(s).record[k]
  OBVIOUS
<1>2. /\ run[s].pc = "creating" /\ l \in LeadIds /\ Continue(s, item, "linking")
      /\ dirty' = [dirty EXCEPT ![s].lead = Written(@, l, row),
                                ![s].built = Written(@, l, {k})]
      /\ issued' = [issued EXCEPT !.lead = l]
  BY <1>1 DEF Create
<1>3. Shape /\ ProgressOf(s) /\ run[s].item \in Item /\ s \in Sessions /\ issued \in IssuedIds
  BY DEF Transactions, Typed, RunTyped, Sessions
<1>4. k \in Keys /\ run[s].item.content \in Content /\ item \in Item
  BY <1>1, <1>2, <1>3, ItemType DEF ProgressOf, Working
<1>5. row0.collected \in 0..MaxTime
  BY <1>1, <1>3, <1>4, SeenTyped, RowTypes
<1>6. row \in LeadRow
  <2>1. PICK c : c = Seen(s)!Candidate(k, row0.id, run[s].item.content, row0.collected)
    OBVIOUS
  <2>2. row = Seen(s)!Applied({c}, row0.collected)
    BY <1>1, <2>1 DEF Initial
  <2>3. c.content \in Content /\ c.collected \in 0..MaxTime
    BY <1>4, <1>5, <2>1 DEF Seen!Candidate
  <2>4. {c} # {} /\ \A x \in {c} : x.content \in Content /\ x.collected \in 0..MaxTime
    BY <2>3
  <2>5. QED
    BY <1>5, <2>2, <2>4, AppliedTyped
<1>7. DraftsTyped(dirty'[s]) /\ \A t \in Sessions \ {s} : dirty'[t] = dirty[t]
  <2>1. {k} \in SUBSET Keys
    BY <1>4
  <2>2. QED
    BY <1>2, <1>3, <1>6, <2>1, PutLeadTyped
<1>8. issued' \in IssuedIds
  <2>1. l \in 0..MaxLeads
    BY <1>2, LimitAssumption DEF LeadIds
  <2>2. QED
    BY <1>2, <1>3, <2>1 DEF IssuedIds
<1>9. "linking" \in {"open", "broken"} \cup Working
  BY DEF Working
<1>10. QED
  BY <1>2, <1>3, <1>4, <1>7, <1>8, <1>9, TypedWrites

LEMMA LinkTyped ==
    ASSUME Transactions, Typed, NEW s \in Collectors, Link(s)
    PROVE  Typed'
<1>1. PICK item, k, l, claimed, pc, rows :
         /\ item = run[s].item /\ k = item.key /\ l = item.target
         /\ claimed = [Overlaid(s).record[k] EXCEPT !.lead = l]
         /\ pc = IF item.review # NoLead THEN "flagging" ELSE "open"
         /\ rows = IF Seen(s)!LinkClaims(l, k) THEN Written(dirty[s].record, k, claimed)
                   ELSE dirty[s].record
  OBVIOUS
<1>2. /\ run[s].pc = "linking" /\ Continue(s, item, pc) /\ issued' = issued
      /\ dirty' = [dirty EXCEPT ![s].link = Written(@, <<l, k>>, "merged"),
                                ![s].record = IF Seen(s)!LinkClaims(l, k)
                                              THEN Written(@, k, claimed) ELSE @]
  BY <1>1 DEF Link
<1>3. Shape /\ ProgressOf(s) /\ item \in Item /\ s \in Sessions
      /\ DraftsTyped(dirty[s]) /\ DirtyShape(dirty[s]) /\ DOMAIN dirty = Sessions
  BY <1>1 DEF Transactions, Typed, RunTyped, Sessions, Shape
<1>4. k \in Keys /\ l \in LeadIds
  BY <1>1, <1>2, <1>3 DEF ProgressOf, Working
<1>5. claimed \in RecordRow
  BY <1>1, <1>3, <1>4, SeenTyped, RowTypes
<1>6. Partial(Keys, rows, RecordRow)
  BY <1>1, <1>3, <1>4, <1>5, WrittenTyped DEF DraftsTyped
<1>7. Partial(LeadIds \X Keys, Written(dirty[s].link, <<l, k>>, "merged"), {"merged", "review"})
  BY <1>3, <1>4, WrittenTyped DEF DraftsTyped
<1>8. /\ dirty'[s].record = rows /\ dirty'[s].lead = dirty[s].lead
      /\ dirty'[s].link = Written(dirty[s].link, <<l, k>>, "merged")
      /\ dirty'[s].built = dirty[s].built
      /\ \A t \in Sessions \ {s} : dirty'[t] = dirty[t]
  BY <1>1, <1>2, <1>3 DEF DirtyShape
<1>9. DraftsTyped(dirty'[s])
  BY <1>3, <1>6, <1>7, <1>8 DEF DraftsTyped
<1>10. issued' \in IssuedIds
  BY <1>2 DEF Typed
<1>11. pc \in {"open", "broken"} \cup Working /\ (pc = "flagging" => item.review \in LeadIds)
  BY <1>1, <1>3, ItemType DEF Working
<1>12. QED
  BY <1>2, <1>3, <1>8, <1>9, <1>10, <1>11, TypedWrites

LEMMA FlagTyped ==
    ASSUME Transactions, Typed, NEW s \in Collectors, Flag(s)
    PROVE  Typed'
<1>1. PICK item, pair : item = run[s].item /\ pair = <<item.review, item.key>>
  OBVIOUS
<1>2. /\ run[s].pc = "flagging" /\ issued' = issued /\ Put(s, "link", pair, "review")
      /\ Continue(s, item, "open") /\ Seen(s)!Live(item.review)
  BY <1>1 DEF Flag
<1>3. Shape /\ ProgressOf(s) /\ item \in Item /\ s \in Sessions
  BY <1>1 DEF Transactions, Typed, RunTyped, Sessions
<1>4. item.key \in Keys
  BY <1>1, <1>2, <1>3 DEF ProgressOf, Working
<1>5. item.review \in LeadIds
  BY <1>1, <1>2 DEF Typed, RunTyped
<1>6. pair \in LeadIds \X Keys
  BY <1>1, <1>4, <1>5
<1>7. DraftsTyped(dirty'[s]) /\ \A t \in Sessions \ {s} : dirty'[t] = dirty[t]
  BY <1>2, <1>3, <1>6, PutTyped
<1>8. issued' \in IssuedIds
  BY <1>2 DEF Typed
<1>9. QED
  BY <1>2, <1>3, <1>7, <1>8, TypedWrites

-----------------------------------------------------------------------------
(***************************************************************************)
(* Types: the end of a transaction, and requests.                          *)
(***************************************************************************)
\* A session ends: its rows are gone or committed, or it has none.
LEMMA TypedEnds ==
    ASSUME Shape, Typed, NEW s \in Collectors, NEW pc \in {"idle", "broken"},
           \/ run' = [run EXCEPT ![s] = NoRun] /\ pc = "idle"
           \/ run' = [run EXCEPT ![s].pc = pc, ![s].item = NoItem],
           dirty' = [dirty EXCEPT ![s] = Clean] \/ dirty' = dirty,
           TablesTyped', UNCHANGED <<issued, now, request>>
    PROVE  Typed'
<1>1. now \in Nat /\ NoItem \in Item /\ RunShape(run[s]) /\ RunTyped(run[s], now)
      /\ DOMAIN run = Collectors /\ DOMAIN dirty = Sessions
  BY LimitAssumption, EmptyTyped DEF Typed, Shape
<1>2. \A t \in Collectors \ {s} : run'[t] = run[t]
  BY <1>1
<1>3. RunTyped(run'[s], now)
  <2>1. CASE run' = [run EXCEPT ![s] = NoRun]
    <3>1. run'[s] = NoRun
      BY <1>1, <2>1
    <3>2. QED
      BY <1>1, <3>1, NoRunTyped
  <2>2. CASE run' = [run EXCEPT ![s].pc = pc, ![s].item = NoItem]
    <3>1. run'[s].pc = pc /\ run'[s].item = NoItem /\ run'[s].source = run[s].source
          /\ run'[s].stamp = run[s].stamp /\ run'[s].listed = run[s].listed
          /\ run'[s].done = run[s].done
      BY <1>1, <2>2 DEF RunShape
    <3>2. QED
      BY <1>1, <3>1 DEF RunTyped
  <2>3. QED
    BY <2>1, <2>2
<1>4. \A t \in Collectors : RunTyped(run'[t], now)
  BY <1>2, <1>3 DEF Typed
<1>5. \A t \in Sessions : DraftsTyped(dirty'[t])
  BY <1>1, EmptyTyped DEF Typed
<1>6. RequestTyped'
  BY DEF Typed, RequestTyped
<1>7. QED
  BY <1>4, <1>5, <1>6 DEF Typed

LEMMA PublishTyped ==
    ASSUME Shape, Typed, NEW s \in Sessions, Publish(s), suppressed' \subseteq Suppressions
    PROVE  TablesTyped'
<1>1. DraftsTyped(dirty[s]) /\ TablesTyped /\ DirtyShape(dirty[s])
  BY DEF Typed, Shape
<1>2. record' \in [Keys -> RecordRow]
  <2>1. record' = Over(dirty[s].record, record)
    BY DEF Publish, Overlaid
  <2>2. QED
    BY <1>1, <2>1 DEF Over, DraftsTyped, TablesTyped, Partial
<1>3. lead' \in [LeadIds -> LeadRow]
  <2>1. lead' = Over(dirty[s].lead, lead)
    BY DEF Publish, Overlaid
  <2>2. QED
    BY <1>1, <2>1 DEF Over, DraftsTyped, TablesTyped, Partial
<1>4. link' \in [LeadIds -> [Keys -> {"none", "merged", "review"}]]
  <2>1. ASSUME NEW l \in LeadIds, NEW k \in Keys
        PROVE  Overlaid(s).link[l][k] \in {"none", "merged", "review"}
    <3>1. Overlaid(s).link[l][k] = IF <<l, k>> \in DOMAIN dirty[s].link
                                   THEN dirty[s].link[<<l, k>>] ELSE link[l][k]
      BY DEF Overlaid
    <3>2. QED
      BY <1>1, <3>1 DEF DraftsTyped, TablesTyped, Partial
  <2>2. link' = [l \in LeadIds |-> [k \in Keys |->
                   IF lead'[l] = NoRow \/ record'[k] = NoRecord THEN "none"
                   ELSE Overlaid(s).link[l][k]]]
    BY DEF Publish
  <2>3. QED
    BY <2>1, <2>2
<1>5. past' \in [Keys -> SUBSET LeadIds]
  <2>1. \A k \in Keys : record[k].lead \in LeadIds \cup {NoLead} /\ past[k] \in SUBSET LeadIds
    BY <1>1, RowTypes DEF TablesTyped
  <2>2. past' = [k \in Keys |-> IF record'[k] = NoRecord THEN {}
                               ELSE past[k] \cup ({record[k].lead} \ {NoLead, record'[k].lead})]
    BY DEF Publish
  <2>3. QED
    BY <2>1, <2>2
<1>6. built' \in [LeadIds -> SUBSET Keys]
  <2>1. Overlaid(s).built = Over(dirty[s].built, built)
    BY DEF Overlaid
  <2>2. \A l \in LeadIds : Overlaid(s).built[l] \in SUBSET Keys
    BY <1>1, <2>1 DEF Over, DraftsTyped, TablesTyped, Partial
  <2>3. built' = [l \in LeadIds |-> IF lead'[l] = NoRow THEN {}
                                   ELSE {k \in Overlaid(s).built[l] : record'[k] # NoRecord}]
    BY DEF Publish
  <2>4. QED
    BY <2>2, <2>3
<1>7. QED
  BY <1>2, <1>3, <1>4, <1>5, <1>6 DEF TablesTyped

\* A statement of the request.
LEMMA TypedRequest ==
    ASSUME Typed, UNCHANGED <<issued, now, run>>, TablesTyped', RequestTyped',
           \A s \in Sessions \ {API} : dirty'[s] = dirty[s], DraftsTyped(dirty'[API])
    PROVE  Typed'
BY DEF Typed

\* Rows of suppressions are added for the present time.
LEMMA SuppressingTyped ==
    ASSUME Typed, NEW E \in SUBSET ({"email", "domain"} \X Values)
    PROVE  Committed!Suppressing(E) \subseteq Suppressions
<1>1. now \in 0..MaxTime /\ suppressed \subseteq Suppressions
  BY DEF Typed, TablesTyped
<1>2. \A e \in E : <<e[1], e[2], now>> \in Suppressions
  BY <1>1 DEF Suppressions
<1>3. QED
  BY <1>1, <1>2 DEF Committed!Suppressing

LEMMA ContactsTyped ==
    ASSUME Typed, NEW l \in LeadIds
    PROVE  Committed!Contacts(l) \in SUBSET ({"email", "domain"} \X Values)
<1>1. lead[l].content \in Content
  BY RowTypes DEF Typed, TablesTyped
<1>2. ASSUME NEW f \in {"email", "domain"}, lead[l].content[f] # NoValue
      PROVE  <<f, lead[l].content[f]>> \in {"email", "domain"} \X Values
  BY <1>1, <1>2 DEF Content, Fields, Exact
<1>3. QED
  BY <1>2 DEF Committed!Contacts, Committed!Suppressible

LEMMA RequestStepTyped ==
    ASSUME Transactions, Typed,
           Delete \/ (\E k \in Keys : Cascade(k)) \/ CommitDelete \/ (\E l \in LeadIds : Request(l))
    PROVE  Typed'
<1>1. Shape /\ API \in Sessions /\ TablesTyped /\ DraftsTyped(dirty[API]) /\ RequestTyped
      /\ Erasing
  BY DEF Transactions, Sessions, Typed
<1>2. ASSUME NEW l \in LeadIds, Request(l)
      PROVE  Typed'
  <2>1. /\ UNCHANGED <<tables, issued, now, run, dirty>>
        /\ request' = [pc |-> "deleting", lead |-> l, contacts |-> Committed!Contacts(l)]
    BY <1>2 DEF Request
  <2>2. RequestTyped'
    BY <2>1, ContactsTyped DEF RequestTyped
  <2>3. QED
    BY <1>1, <2>1, <2>2, TypedRequest DEF TablesTyped, tables
<1>3. CASE Delete
  <2>1. /\ request' = [request EXCEPT !.pc = "cascading"] /\ UNCHANGED <<tables, issued, now, run>>
        /\ Put(API, "lead", request.lead, NoRow) \/ UNCHANGED dirty
    BY <1>3 DEF Delete
  <2>2. request.lead \in LeadIds
    BY <1>1, <1>3 DEF Delete, Erasing
  <2>3. RequestTyped' /\ TablesTyped'
    BY <1>1, <2>1 DEF RequestTyped, TablesTyped, tables
  <2>4. DraftsTyped(dirty'[API]) /\ \A s \in Sessions \ {API} : dirty'[s] = dirty[s]
    BY <1>1, <2>1, <2>2, EmptyTyped, PutTyped
  <2>5. QED
    BY <2>1, <2>3, <2>4, TypedRequest
<1>4. ASSUME NEW k \in Keys, Cascade(k)
      PROVE  Typed'
  <2>1. UNCHANGED <<tables, issued, now, run, request>> /\ Put(API, "record", k, NoRecord)
    BY <1>4 DEF Cascade
  <2>2. RequestTyped' /\ TablesTyped'
    BY <1>1, <2>1 DEF RequestTyped, TablesTyped, tables
  <2>3. DraftsTyped(dirty'[API]) /\ \A s \in Sessions \ {API} : dirty'[s] = dirty[s]
    BY <1>1, <2>1, EmptyTyped, PutTyped
  <2>4. QED
    BY <2>1, <2>2, <2>3, TypedRequest
<1>5. CASE CommitDelete
  <2>1. /\ Publish(API) /\ suppressed' = Committed!Suppressing(request.contacts)
        /\ request' = NoRequest /\ UNCHANGED <<issued, now, run>>
    BY <1>5 DEF CommitDelete
  <2>2. request.contacts \in SUBSET ({"email", "domain"} \X Values)
    BY <1>1 DEF RequestTyped
  <2>3. TablesTyped'
    BY <1>1, <2>1, <2>2, SuppressingTyped, PublishTyped
  <2>4. RequestTyped'
    BY <2>1 DEF RequestTyped, NoRequest
  <2>5. dirty' = [dirty EXCEPT ![API] = Clean]
    BY <2>1 DEF Publish
  <2>6. DraftsTyped(dirty'[API]) /\ \A s \in Sessions \ {API} : dirty'[s] = dirty[s]
    BY <1>1, <2>5, EmptyTyped DEF Shape
  <2>7. QED
    BY <2>1, <2>3, <2>4, <2>6, TypedRequest
<1>6. QED
  BY <1>2, <1>3, <1>4, <1>5

LEMMA TypedNext ==
    ASSUME Transactions, Typed, [Next]_vars
    PROVE  Typed'
<1>1. Shape /\ API \in Sessions /\ Collectors \subseteq Sessions /\ API \notin Collectors
      /\ TablesTyped
  BY Constants DEF Transactions, Sessions, Typed
<1>2. ASSUME NEW s \in Collectors, Break(s)
      PROVE  Typed'
  <2>1. /\ dirty' = [dirty EXCEPT ![s] = Clean] /\ UNCHANGED <<tables, issued, now, request>>
        /\ run' = [run EXCEPT ![s].pc = "broken", ![s].item = NoItem]
    BY <1>2 DEF Break, Rollback
  <2>2. TablesTyped'
    BY <1>1, <2>1 DEF TablesTyped, tables
  <2>3. QED
    BY <1>1, <2>1, <2>2, TypedEnds
<1>3. ASSUME NEW s \in Collectors, Ingest(s)
      PROVE  Typed'
  <2>1. CASE StoreBreaks(s) \/ ApplyBreaks(s) \/ CreateBreaks(s) \/ LinkBreaks(s)
    BY <1>2, <2>1 DEF StoreBreaks, ApplyBreaks, CreateBreaks, LinkBreaks
  <2>2. QED
    BY <1>3, <2>1, StoreTyped, MatchTyped, GatherTyped, ApplyTyped, ApplyNothingTyped,
       CreateTyped, LinkTyped, FlagTyped DEF Ingest
<1>4. ASSUME NEW s \in Collectors, Finish(s) \/ Fail(s) \/ Abort(s)
      PROVE  Typed'
  <2>1. run' = [run EXCEPT ![s] = NoRun] /\ UNCHANGED <<issued, now, request>>
    BY <1>4 DEF Finish, Fail, Abort
  <2>2. dirty' = [dirty EXCEPT ![s] = Clean] \/ dirty' = dirty
    BY <1>4 DEF Finish, Publish, Fail, Abort, Rollback
  <2>3. TablesTyped'
    <3>1. CASE Finish(s)
      BY <1>1, <3>1, PublishTyped DEF Finish, TablesTyped
    <3>2. CASE Fail(s) \/ Abort(s)
      BY <1>1, <3>2 DEF Fail, Abort, Rollback, TablesTyped, tables
    <3>3. QED
      BY <1>4, <3>1, <3>2
  <2>4. QED
    BY <1>1, <2>1, <2>2, <2>3, TypedEnds
<1>5. ASSUME NEW s \in Sessions, Victim(s)
      PROVE  Typed'
  <2>1. CASE s \in Collectors
    BY <1>1, <1>2, <1>5, <2>1 DEF Victim
  <2>2. CASE s = API
    <3>1. /\ dirty' = [dirty EXCEPT ![API] = Clean] /\ UNCHANGED <<tables, issued, now, run>>
          /\ request' = NoRequest
      BY <1>5, <2>2 DEF Victim, Rollback
    <3>2. TablesTyped' /\ RequestTyped'
      BY <1>1, <3>1 DEF TablesTyped, tables, RequestTyped, NoRequest
    <3>3. DraftsTyped(dirty'[API]) /\ \A t \in Sessions \ {API} : dirty'[t] = dirty[t]
      BY <1>1, <3>1, EmptyTyped DEF Shape
    <3>4. QED
      BY <3>1, <3>2, <3>3, TypedRequest
  <2>3. QED
    BY <2>1, <2>2 DEF Sessions
<1>6. ASSUME NEW e \in OptOuts, Suppress(e)
      PROVE  Typed'
  <2>1. {e} \in SUBSET ({"email", "domain"} \X Values)
    BY OptOutsAssumption
  <2>2. /\ suppressed' = Committed!Suppressing({e})
        /\ UNCHANGED <<record, lead, link, issued, now, past, built, run, request, dirty>>
    BY <1>6 DEF Suppress
  <2>3. TablesTyped'
    BY <1>1, <2>1, <2>2, SuppressingTyped DEF TablesTyped
  <2>4. QED
    BY <2>2, <2>3 DEF Typed, RequestTyped
<1>7. CASE Next
  <2>1. ASSUME NEW s \in Collectors, NEW o \in Offers, Look(s, o[1], o[2])
        PROVE  Typed'
    <3>1. o[1] \in Keys /\ o[2] \in Content
      BY OffersAssumption
    <3>2. QED
      BY <2>1, <3>1, LookTyped
  <2>2. ASSUME NEW l \in LeadIds, NotFound(l)
        PROVE  Typed'
    BY <2>2 DEF NotFound, vars, tables, Typed, TablesTyped, RequestTyped
  <2>3. QED
    BY <1>3, <1>4, <1>5, <1>6, <1>7, <2>1, <2>2, BeginTyped, RequestStepTyped DEF Next, Erase
<1>8. CASE UNCHANGED vars
  BY <1>8 DEF vars, Typed, TablesTyped, RequestTyped
<1>9. QED
  BY <1>7, <1>8

LEMMA TypedInit == Init => Typed
<1> SUFFICES ASSUME Init
             PROVE  Typed
  OBVIOUS
<1>1. /\ record = [k \in Keys |-> NoRecord] /\ lead = [l \in LeadIds |-> NoRow]
      /\ link = [l \in LeadIds |-> [k \in Keys |-> "none"]] /\ suppressed = {}
      /\ issued = [lead |-> 0, record |-> 0] /\ now = 0
      /\ past = [k \in Keys |-> {}] /\ built = [l \in LeadIds |-> {}]
      /\ run = [s \in Collectors |-> NoRun] /\ dirty = [s \in Sessions |-> Clean]
      /\ request = NoRequest
  BY DEF Init, Committed!Init, NoRecord, NoRow, LeadIds, Committed!LeadIds
<1>2. TablesTyped
  BY <1>1, EmptyTyped DEF TablesTyped
<1>3. RequestTyped
  BY <1>1 DEF RequestTyped, NoRequest
<1>4. issued \in IssuedIds /\ now \in 0..MaxTime /\ now \in Nat
  BY <1>1, LimitAssumption DEF IssuedIds
<1>5. \A s \in Collectors : RunTyped(run[s], now)
  BY <1>1, <1>4, NoRunTyped
<1>6. \A s \in Sessions : DraftsTyped(dirty[s])
  BY <1>1, EmptyTyped
<1>7. QED
  BY <1>2, <1>3, <1>4, <1>5, <1>6 DEF Typed

-----------------------------------------------------------------------------
(***************************************************************************)
(* One collection at a time: what a lead was last merged from.             *)
(***************************************************************************)
OneCollector == \A s, t \in Collectors : s = t

\* The lead of a record, and the records that a lead was last merged from, as
\* collection s sees them.
LeadOf(s, k) == IF k \in DOMAIN dirty[s].record THEN dirty[s].record[k].lead ELSE record[k].lead
BuiltOf(s, l) == IF l \in DOMAIN dirty[s].built THEN dirty[s].built[l] ELSE built[l]

\* Also between two statements of s, whose next one may be to rebuild the lead
\* item.target, or to move the record item.key into it.
CompleteOf(s) ==
    LET i == run[s].item IN
    /\ \A k \in Keys : LeadOf(s, k) \in LeadIds => k \in BuiltOf(s, LeadOf(s, k))
    /\ \A k \in DOMAIN dirty[s].record : record[k].id = 0 /\ LeadOf(s, k) \in LeadIds
                                            => LeadOf(s, k) \in DOMAIN dirty[s].built
    /\ DOMAIN dirty[s].lead \subseteq DOMAIN dirty[s].built
    /\ run[s].pc = "applying" =>
          /\ i.key \in i.from
          /\ \A k \in Keys : LeadOf(s, k) = i.target => k \in i.from
    /\ run[s].pc = "linking" =>
          i.target \in DOMAIN dirty[s].built /\ i.key \in dirty[s].built[i.target]

Complete ==
    /\ DOMAIN built = LeadIds /\ DOMAIN dirty[API].built = {}
    /\ \A k \in Keys : record[k].lead \in LeadIds => k \in built[record[k].lead]
    /\ \A s \in Collectors : CompleteOf(s)

LEMMA CleanBuilt == DOMAIN Clean.built = {}
BY DEF Clean

\* A lead that a record belongs to has been issued, and so has the record's id.
LEMMA LeadOfKnown ==
    ASSUME Transactions, History, NEW s \in Collectors, NEW k \in Keys, LeadOf(s, k) \in LeadIds
    PROVE  /\ LeadOf(s, k) <= issued.lead
           /\ k \in DOMAIN dirty[s].record \/ record[k].id # 0
<1>1. \A l \in LeadIds : lead[l].firstSeen # 0 => l <= issued.lead
  BY DEF History
<1>2. record[k].lead \in LeadIds => /\ record[k].id # 0 /\ lead[record[k].lead].firstSeen # 0
  BY Constants DEF Transactions, Rows, Linked, NoRecord, Committed!NoRecord, NoLead, Committed!NoLead
<1>3. CASE k \notin DOMAIN dirty[s].record
  BY <1>1, <1>2, <1>3 DEF LeadOf
<1>4. CASE k \in DOMAIN dirty[s].record
  <2>1. LeadOf(s, k) = dirty[s].record[k].lead
    BY <1>4 DEF LeadOf
  <2>2. Kept(s, k) \/ Unowned(s, k) \/ Claimed(s, k)
    BY <1>4 DEF Transactions, OwnedOf
  <2>3. CASE Kept(s, k)
    BY <1>1, <1>2, <1>4, <2>1, <2>3 DEF Kept
  <2>4. CASE Unowned(s, k)
    BY <2>1, <2>4, Constants DEF Unowned
  <2>5. CASE Claimed(s, k)
    <3>1. \A l \in DOMAIN dirty[s].lead : l <= issued.lead
      BY DEF History, LeadsOf
    <3>2. QED
      BY <1>1, <1>4, <2>1, <2>5, <3>1 DEF Claimed
  <2>6. QED
    BY <2>2, <2>3, <2>4, <2>5
<1>5. QED
  BY <1>3, <1>4

\* Only s moves, and it commits nothing.
LEMMA CompleteFrame ==
    ASSUME OneCollector, Complete, NEW s \in Collectors, UNCHANGED <<record, built>>,
           dirty'[API].built = dirty[API].built, CompleteOf(s)'
    PROVE  Complete'
<1>1. \A t \in Collectors : t = s
  BY DEF OneCollector
<1>2. QED
  BY <1>1 DEF Complete

\* A statement of s that writes no record and no lead.
LEMMA CompleteQuiet ==
    ASSUME OneCollector, Complete, NEW s \in Collectors, UNCHANGED <<record, built>>,
           dirty'[API].built = dirty[API].built,
           dirty'[s].record = dirty[s].record, dirty'[s].lead = dirty[s].lead,
           dirty'[s].built = dirty[s].built,
           run'[s].pc \notin {"applying", "linking"}
    PROVE  Complete'
<1>1. /\ \A k \in Keys : LeadOf(s, k)' = LeadOf(s, k)
      /\ \A k \in DOMAIN dirty[s].record : LeadOf(s, k)' = LeadOf(s, k)
      /\ \A l : BuiltOf(s, l)' = BuiltOf(s, l)
  BY DEF LeadOf, BuiltOf
<1>2. CompleteOf(s)'
  BY <1>1 DEF Complete, CompleteOf
<1>3. QED
  BY <1>2, CompleteFrame

LEMMA CompleteRollback ==
    ASSUME OneCollector, Complete, NEW s \in Collectors, UNCHANGED <<record, built>>,
           dirty'[API].built = dirty[API].built, dirty'[s] = Clean,
           run'[s].pc \notin {"applying", "linking"}
    PROVE  Complete'
<1>1. CompleteOf(s)'
  BY CleanFacts, CleanBuilt DEF Complete, CompleteOf, LeadOf, BuiltOf
<1>2. QED
  BY <1>1, CompleteFrame

LEMMA CompleteStore ==
    ASSUME OneCollector, Transactions, Complete, NEW s \in Collectors, Store(s)
    PROVE  Complete'
<1>1. PICK k : k = run[s].item.key
  OBVIOUS
<1>2. k \in Keys /\ StoredRecord(s, k) /\ dirty'[s].lead = dirty[s].lead /\ StepOf(s)
      /\ run'[s].pc = "matching"
  BY <1>1, StoreEffect
<1>3. Shape /\ s \in Sessions /\ API \in Sessions /\ s # API
  BY Constants DEF Transactions, Sessions
<1>4. UNCHANGED <<record, built>> /\ dirty'[s].built = dirty[s].built /\ dirty'[API] = dirty[API]
  <2>1. PICK row : Put(s, "record", k, row)
    BY <1>1 DEF Store
  <2>2. dirty'[s].built = dirty[s].built /\ dirty'[API] = dirty[API]
    BY <1>3, <2>1 DEF Put, Shape, DirtyShape
  <2>3. QED
    BY <2>2 DEF Store, Step, tables
<1>5. /\ \A j \in Keys : LeadOf(s, j)' = LeadOf(s, j)
      /\ \A l : BuiltOf(s, l)' = BuiltOf(s, l)
  <2>1. /\ DOMAIN dirty'[s].record = DOMAIN dirty[s].record \cup {k}
        /\ \A j \in DOMAIN dirty[s].record : dirty'[s].record[j] = dirty[s].record[j]
        /\ dirty'[s].record[k].lead = record[k].lead
    BY <1>2 DEF StoredRecord
  <2>2. QED
    BY <1>4, <2>1 DEF LeadOf, BuiltOf
<1>6. record[k].id = 0 => record[k].lead \notin LeadIds
  BY <1>2, Constants DEF Transactions, Rows, NoRecord, Committed!NoRecord, NoLead, Committed!NoLead
<1>7. CompleteOf(s)'
  <2>1. CompleteOf(s) /\ DOMAIN dirty[s].record \subseteq Keys
    BY <1>3 DEF Complete, Shape, DirtyShape
  <2>2. ASSUME NEW j \in DOMAIN dirty'[s].record, record[j].id = 0, LeadOf(s, j) \in LeadIds
        PROVE  LeadOf(s, j) \in DOMAIN dirty[s].built
    <3>1. j \in DOMAIN dirty[s].record \/ j = k
      BY <1>2 DEF StoredRecord
    <3>2. k \notin DOMAIN dirty[s].record => LeadOf(s, k) = record[k].lead
      BY DEF LeadOf
    <3>3. QED
      BY <1>6, <2>1, <2>2, <3>1, <3>2 DEF CompleteOf
  <2>3. DOMAIN dirty'[s].record \subseteq Keys
    BY <1>2, <2>1 DEF StoredRecord
  <2>4. QED
    BY <1>2, <1>4, <1>5, <2>1, <2>2, <2>3 DEF CompleteOf
<1>8. QED
  BY <1>4, <1>7, CompleteFrame

\* What candidates_for has read is every record of the lead.
LEMMA CompleteGather ==
    ASSUME OneCollector, Transactions, History, Complete, NEW s \in Collectors, Gather(s)
    PROVE  Complete'
<1> DEFINE item == run[s].item
           from == Seen(s)!Built(item.target, item.key)
<1>1. /\ run[s].pc = "gathering" /\ UNCHANGED <<record, built, dirty>>
      /\ run' = [run EXCEPT ![s].pc = "applying",
                            ![s].item.merged = Seen(s)!Applied(
                                Seen(s)!Sightings(item.target, item.key, item.content),
                                item.loaded.firstSeen),
                            ![s].item.from = from]
  BY DEF Gather, tables
<1>2. Shape /\ Rows /\ ProgressOf(s) /\ DraftsOf(s)
  BY DEF Transactions
<1> HIDE DEF from
<1>3. /\ run'[s].pc = "applying" /\ run'[s].item.key = item.key
      /\ run'[s].item.target = item.target /\ run'[s].item.from = from
  BY <1>1, <1>2 DEF Shape, RunShape
<1>4. item.key \in Keys /\ item.target \in LeadIds
  BY <1>1, <1>2 DEF ProgressOf, Working
<1>5. item.key \in from
  BY DEF from, Seen!Built
<1>6. ASSUME NEW k \in Keys, LeadOf(s, k) = item.target
      PROVE  k \in from
  <2>1. CASE k = item.key
    BY <1>5, <2>1
  <2>2. CASE k # item.key
    <3>1. Loaded(s)[k] = Overlaid(s).record[k]
      BY <2>2 DEF Loaded
    <3>2. Overlaid(s).record[k].lead = item.target /\ Overlaid(s).record[k].id # 0
      <4>1. CASE k \in DOMAIN dirty[s].record
        BY <1>2, <1>6, <4>1, SeenRecord DEF LeadOf, DraftsOf
      <4>2. CASE k \notin DOMAIN dirty[s].record
        <5>1. record[k].id # 0
          BY <1>4, <1>6, <4>2, LeadOfKnown
        <5>2. QED
          BY <1>2, <1>6, <4>2, <5>1, SeenRecord DEF LeadOf
      <4>3. QED
        BY <4>1, <4>2
    <3>3. QED
      BY <3>1, <3>2 DEF from, Seen!Built, Seen!Stored
  <2>3. QED
    BY <2>1, <2>2
<1>7. /\ \A k : LeadOf(s, k)' = LeadOf(s, k)
      /\ \A l : BuiltOf(s, l)' = BuiltOf(s, l)
  BY <1>1 DEF LeadOf, BuiltOf
<1>8. CompleteOf(s)'
  <2>1. CompleteOf(s)
    BY DEF Complete
  <2> HIDE DEF item
  <2>2. \A k \in Keys : LeadOf(s, k) = item.target => k \in from
    BY <1>6
  <2>3. dirty' = dirty /\ record' = record
    BY <1>1
  <2>4. QED
    BY <1>3, <1>5, <1>7, <2>1, <2>2, <2>3 DEF CompleteOf
<1>9. QED
  BY <1>1, <1>8, CompleteFrame

\* A statement of s that writes lead l, or finds that it need not.
LEMMA CompleteLead ==
    ASSUME OneCollector, Complete, NEW s \in Collectors, NEW l \in LeadIds, NEW from,
           UNCHANGED <<record, built>>, dirty'[API].built = dirty[API].built,
           dirty'[s].record = dirty[s].record,
           DOMAIN dirty'[s].lead \subseteq DOMAIN dirty[s].lead \cup {l},
           dirty'[s].built = Written(dirty[s].built, l, from),
           run[s].item.key \in from,
           \A k \in Keys : LeadOf(s, k) = l => k \in from,
           run'[s].pc # "applying",
           run'[s].pc = "linking" => run'[s].item.target = l /\ run'[s].item.key = run[s].item.key
    PROVE  Complete'
<1>1. PICK old, new : old = dirty[s].built /\ new = dirty'[s].built
  OBVIOUS
<1>2. /\ DOMAIN new = DOMAIN old \cup {l} /\ new[l] = from
      /\ \A m \in DOMAIN old : m # l => new[m] = old[m]
  BY <1>1 DEF Written, Over
<1>3. /\ \A k : LeadOf(s, k)' = LeadOf(s, k)
      /\ BuiltOf(s, l)' = from /\ \A m : m # l => BuiltOf(s, m)' = BuiltOf(s, m)
  BY <1>1, <1>2 DEF LeadOf, BuiltOf
<1>4. CompleteOf(s)
  BY DEF Complete
<1>5. CompleteOf(s)'
  <2>1. DOMAIN dirty[s].built \subseteq DOMAIN dirty'[s].built /\ l \in DOMAIN dirty'[s].built
        /\ dirty'[s].built[l] = from
    BY <1>1, <1>2
  <2>2. \A k \in Keys : LeadOf(s, k) \in LeadIds => k \in BuiltOf(s, LeadOf(s, k))'
    BY <1>3, <1>4 DEF CompleteOf
  <2>3. QED
    BY <1>3, <1>4, <2>1, <2>2 DEF CompleteOf
<1>6. QED
  BY <1>5, CompleteFrame

LEMMA CompleteApply ==
    ASSUME OneCollector, Transactions, Complete, NEW s \in Collectors, Apply(s)
    PROVE  Complete'
<1> DEFINE item == run[s].item
<1>0. PICK l : l = item.target
  OBVIOUS
<1>1. PICK row : dirty' = [dirty EXCEPT ![s].lead = Written(@, l, row),
                                        ![s].built = Written(@, l, item.from)]
  BY <1>0 DEF Apply
<1>2. run[s].pc = "applying" /\ Continue(s, item, AfterMerge(item))
  BY DEF Apply
<1>3. Shape /\ ProgressOf(s) /\ ItemShape(item) /\ DirtyShape(dirty[s])
      /\ s \in Sessions /\ API \in Sessions /\ s # API
  BY Constants DEF Transactions, Shape, RunShape, ItemShape, Sessions
<1>4. l \in LeadIds
  BY <1>0, <1>2, <1>3 DEF ProgressOf
<1> HIDE DEF item
<1>5. Continued(s, item, AfterMerge(item)) /\ UNCHANGED <<tables, now, request>>
  BY <1>2, <1>3, ContinueFacts
<1>6. /\ dirty'[s].record = dirty[s].record
      /\ DOMAIN dirty'[s].lead = DOMAIN dirty[s].lead \cup {l}
      /\ \A t \in Sessions \ {s} : dirty'[t] = dirty[t]
  BY <1>1, <1>3, WriteLead
<1>7. dirty'[s].built = Written(dirty[s].built, l, item.from)
  BY <1>1, <1>3 DEF Shape, DirtyShape
<1>8. run'[s].pc # "applying" /\ (run'[s].pc = "linking" => run'[s].item = item)
  BY <1>5 DEF Continued, AfterMerge
<1>9. item.key \in item.from /\ \A k \in Keys : LeadOf(s, k) = l => k \in item.from
  BY <1>0, <1>2 DEF item, Complete, CompleteOf
<1>10. QED
  BY <1>0, <1>3, <1>4, <1>5, <1>6, <1>7, <1>8, <1>9, CompleteLead DEF item, tables

LEMMA CompleteApplyNothing ==
    ASSUME OneCollector, Transactions, Complete, NEW s \in Collectors, ApplyNothing(s)
    PROVE  Complete'
<1> DEFINE item == run[s].item
<1>0. PICK l : l = item.target
  OBVIOUS
<1> DEFINE from == Overlaid(s).built[l] \cup {item.key}
<1>1. /\ run[s].pc = "applying" /\ Continue(s, item, AfterMerge(item))
      /\ Put(s, "built", l, from)
  BY <1>0 DEF ApplyNothing
<1>2. Shape /\ ProgressOf(s) /\ ItemShape(item) /\ DirtyShape(dirty[s])
      /\ s \in Sessions /\ API \in Sessions /\ s # API
  BY Constants DEF Transactions, Shape, RunShape, ItemShape, Sessions
<1>3. l \in LeadIds
  BY <1>0, <1>1, <1>2 DEF ProgressOf
<1>4. item.key \in from /\ \A k \in Keys : LeadOf(s, k) = l => k \in from
  <2>1. Overlaid(s).built = Over(dirty[s].built, built)
    BY DEF Overlaid
  <2>2. Overlaid(s).built[l] = BuiltOf(s, l)
    BY <1>3, <2>1 DEF Complete, Over, BuiltOf
  <2>3. QED
    BY <1>3, <2>2 DEF Complete, CompleteOf
<1> HIDE DEF item, from
<1>5. Continued(s, item, AfterMerge(item)) /\ UNCHANGED <<tables, now, request>>
  BY <1>1, <1>2, ContinueFacts
<1>6. /\ dirty'[s].record = dirty[s].record /\ dirty'[s].lead = dirty[s].lead
      /\ dirty'[s].built = Written(dirty[s].built, l, from)
      /\ dirty'[API] = dirty[API]
  BY <1>1, <1>2 DEF Put, Shape, DirtyShape
<1>7. run'[s].pc # "applying" /\ (run'[s].pc = "linking" => run'[s].item = item)
  BY <1>5 DEF Continued, AfterMerge
<1>8. QED
  BY <1>0, <1>3, <1>4, <1>5, <1>6, <1>7, CompleteLead DEF item, tables

\* No record belongs yet to a lead that is created.
LEMMA CompleteCreate ==
    ASSUME OneCollector, Transactions, History, Complete, NEW s \in Collectors, Create(s)
    PROVE  Complete'
<1> DEFINE l == issued.lead + 1
           item == [run[s].item EXCEPT !.target = l]
           row == Initial(s)
<1>1. /\ run[s].pc = "creating" /\ l \in LeadIds /\ Continue(s, item, "linking")
      /\ dirty' = [dirty EXCEPT ![s].lead = Written(@, l, row),
                                ![s].built = Written(@, l, {run[s].item.key})]
      /\ issued' = [issued EXCEPT !.lead = l]
  BY DEF Create
<1>2. l \in LeadIds /\ Continue(s, item, "linking")
  BY <1>1
<1>3. Shape /\ ItemShape(run[s].item) /\ DirtyShape(dirty[s]) /\ issued.lead \in Nat
      /\ s \in Sessions /\ API \in Sessions /\ s # API
  BY Constants DEF Transactions, Shape, RunShape, ItemShape, Sessions, History
<1>4. ItemShape(item) /\ item.target = l /\ item.key = run[s].item.key
  BY <1>3 DEF ItemShape
<1>0. \A m \in LeadIds : m <= issued.lead => m # l
  BY <1>3 DEF LeadIds
<1> HIDE DEF item, l, row
<1>5. Continued(s, item, "linking") /\ UNCHANGED <<tables, now, request>>
  BY <1>2, <1>3, <1>4, ContinueFacts
<1>6. /\ dirty'[s].record = dirty[s].record
      /\ DOMAIN dirty'[s].lead = DOMAIN dirty[s].lead \cup {l}
      /\ \A t \in Sessions \ {s} : dirty'[t] = dirty[t]
  BY <1>1, <1>3, WriteLead
<1>7. dirty'[s].built = Written(dirty[s].built, l, {run[s].item.key})
  BY <1>1, <1>3 DEF Shape, DirtyShape
<1>8. \A k \in Keys : LeadOf(s, k) # l
  BY <1>0, <1>2, LeadOfKnown
<1>9. QED
  BY <1>2, <1>3, <1>4, <1>5, <1>6, <1>7, <1>8, CompleteLead DEF Continued, tables

LEMMA CompleteLink ==
    ASSUME OneCollector, Transactions, Complete, NEW s \in Collectors, Link(s)
    PROVE  Complete'
<1>0. PICK k, l : k = run[s].item.key /\ l = run[s].item.target
  OBVIOUS
<1>1. /\ run[s].pc = "linking" /\ k \in Keys /\ k \in DOMAIN dirty[s].record /\ l \in LeadIds
      /\ LinkStepOf(s, k, <<l, k>>, "merged") /\ LinkedRecord(s, k, l)
  BY <1>0, LinkEffect
<1>2. PICK tab : dirty' = [dirty EXCEPT ![s].link = Written(@, <<l, k>>, "merged"),
                                        ![s].record = tab]
  BY <1>0 DEF Link
<1>3. Shape /\ s \in Sessions /\ API \in Sessions /\ s # API
  BY Constants DEF Transactions, Sessions
<1>4. /\ dirty'[s].built = dirty[s].built /\ dirty'[API] = dirty[API]
      /\ UNCHANGED <<record, built>>
  BY <1>2, <1>3 DEF Shape, DirtyShape, Link, Continue, tables
<1>5. /\ DOMAIN dirty'[s].record = DOMAIN dirty[s].record /\ dirty'[s].lead = dirty[s].lead
      /\ run'[s].pc \in {"open", "flagging"}
  BY <1>1 DEF LinkStepOf
<1>6. CompleteOf(s) /\ l \in DOMAIN dirty[s].built /\ k \in dirty[s].built[l]
      /\ DOMAIN dirty[s].record \subseteq Keys
  BY <1>0, <1>1, <1>3 DEF Complete, CompleteOf, Shape, DirtyShape
<1>7. /\ \A m : BuiltOf(s, m)' = BuiltOf(s, m)
      /\ \A j : j # k => LeadOf(s, j)' = LeadOf(s, j)
      /\ LeadOf(s, k)' = l \/ LeadOf(s, k)' = LeadOf(s, k)
  BY <1>1, <1>4, <1>5 DEF BuiltOf, LeadOf, LinkedRecord
<1>8. BuiltOf(s, l) = dirty[s].built[l]
  BY <1>6 DEF BuiltOf
<1>9. CompleteOf(s)'
  BY <1>4, <1>5, <1>6, <1>7, <1>8 DEF CompleteOf
<1>10. QED
  BY <1>4, <1>9, CompleteFrame

\* What is committed is what s saw.
LEMMA CompleteFinish ==
    ASSUME OneCollector, Transactions, Complete, NEW s \in Collectors, Finish(s)
    PROVE  Complete'
<1>1. /\ Publish(s) /\ run' = [run EXCEPT ![s] = NoRun]
      /\ UNCHANGED <<suppressed, issued, now, request>>
  BY DEF Finish
<1>2. Shape /\ s \in Sessions /\ API \in Sessions /\ s # API
  BY Constants DEF Transactions, Sessions
<1>3. /\ dirty'[s] = Clean /\ dirty'[API] = dirty[API]
      /\ \A k \in Keys : record'[k] = IF k \in DOMAIN dirty[s].record
                                     THEN dirty[s].record[k] ELSE record[k]
  BY <1>1, <1>2, PublishFacts
<1>4. run'[s].pc = "idle"
  BY <1>1, <1>2 DEF Shape, NoRun
<1>5. Rows' /\ Linked'
  BY FinishStep DEF Transactions
<1>6. DOMAIN built = LeadIds /\ CompleteOf(s)
  BY DEF Complete
<1>7. /\ DOMAIN built' = LeadIds
      /\ \A l \in LeadIds : lead'[l] # NoRow =>
             \A k \in BuiltOf(s, l) : record'[k] # NoRecord => k \in built'[l]
  <2>1. built' = [l \in LeadIds |-> IF lead'[l] = NoRow THEN {}
                                    ELSE {k \in Over(dirty[s].built, built)[l] : record'[k] # NoRecord}]
    BY <1>1 DEF Publish, Overlaid
  <2>2. \A l \in LeadIds : Over(dirty[s].built, built)[l] = BuiltOf(s, l)
    BY <1>6 DEF Over, BuiltOf
  <2>3. QED
    BY <2>1, <2>2
<1>8. \A k \in Keys : record'[k].lead = LeadOf(s, k)
  BY <1>3 DEF LeadOf
<1>9. ASSUME NEW k \in Keys, record'[k].lead \in LeadIds
      PROVE  k \in built'[record'[k].lead]
  <2>1. record'[k] # NoRecord /\ record'[k].id # 0
    BY <1>5, <1>9, Constants DEF Rows, NoRecord, Committed!NoRecord, NoLead, Committed!NoLead
  <2>2. lead'[record'[k].lead] # NoRow
    BY <1>5, <2>1 DEF Linked, NoRow, Committed!NoRow
  <2>3. k \in BuiltOf(s, record'[k].lead)
    BY <1>6, <1>8, <1>9 DEF CompleteOf
  <2>4. QED
    BY <1>7, <1>9, <2>1, <2>2, <2>3
<1>10. CompleteOf(s)'
  BY <1>3, <1>4, <1>9, CleanFacts, CleanBuilt DEF CompleteOf, LeadOf, BuiltOf
<1>11. \A t \in Collectors : t = s
  BY DEF OneCollector
<1>12. QED
  BY <1>3, <1>6, <1>7, <1>9, <1>10, <1>11 DEF Complete

\* A statement of the request that commits nothing.
LEMMA CompleteRequest ==
    ASSUME Complete, UNCHANGED <<record, built, run>>, DOMAIN dirty'[API].built = {},
           \A t \in Collectors : dirty'[t] = dirty[t]
    PROVE  Complete'
<1>1. ASSUME NEW s \in Collectors
      PROVE  CompleteOf(s)'
  <2>1. CompleteOf(s) /\ dirty'[s] = dirty[s]
    BY DEF Complete
  <2>2. /\ \A k : LeadOf(s, k)' = LeadOf(s, k)
        /\ \A l : BuiltOf(s, l)' = BuiltOf(s, l)
    BY <2>1 DEF LeadOf, BuiltOf
  <2>3. QED
    BY <2>1, <2>2 DEF CompleteOf
<1>2. QED
  BY <1>1 DEF Complete

\* A deletion takes records out of what s sees, and moves none.
LEMMA CompleteCommitDelete ==
    ASSUME Transactions, History, Complete, CommitDelete
    PROVE  Complete'
<1>1. Publish(API) /\ UNCHANGED <<issued, now, run>>
  BY DEF CommitDelete
<1>2. Shape /\ Rows /\ Erasing /\ Exclusive /\ API \in Sessions /\ Collectors \subseteq Sessions
  BY DEF Transactions, Sessions
<1>3. /\ dirty'[API] = Clean /\ \A t \in Collectors : dirty'[t] = dirty[t]
      /\ \A k \in Keys : record'[k] = IF k \in DOMAIN dirty[API].record
                                     THEN dirty[API].record[k] ELSE record[k]
      /\ \A l \in LeadIds : lead'[l] = IF l \in DOMAIN dirty[API].lead
                                       THEN dirty[API].lead[l] ELSE lead[l]
  BY <1>1, <1>2, Constants, PublishFacts
<1>4. Transactions'
  BY CommitDeleteStep
<1>5. \A k \in Keys : record'[k] = record[k] \/ record'[k] = NoRecord
  BY <1>2, <1>3 DEF Erasing
<1>6. /\ DOMAIN built' = LeadIds
      /\ \A l \in LeadIds : lead'[l] # NoRow =>
             \A k \in built[l] : record'[k] # NoRecord => k \in built'[l]
  <2>1. built' = [l \in LeadIds |-> IF lead'[l] = NoRow THEN {}
                                    ELSE {k \in Over(dirty[API].built, built)[l] :
                                              record'[k] # NoRecord}]
    BY <1>1 DEF Publish, Overlaid
  <2>2. \A l \in LeadIds : Over(dirty[API].built, built)[l] = built[l]
    BY DEF Over, Complete
  <2>3. QED
    BY <2>1, <2>2
<1>7. NoRecord.lead \notin LeadIds /\ NoRecord.id = 0 /\ NoRow.firstSeen = 0
  BY Constants DEF NoRecord, Committed!NoRecord, NoLead, Committed!NoLead, NoRow, Committed!NoRow
<1>8. ASSUME NEW k \in Keys, record'[k].lead \in LeadIds
      PROVE  record'[k] = record[k] /\ k \in built'[record'[k].lead]
  <2>1. record'[k] # NoRecord /\ record'[k] = record[k] /\ record'[k].id # 0
    BY <1>4, <1>5, <1>7, <1>8 DEF Transactions, Rows
  <2>2. lead'[record'[k].lead] # NoRow
    BY <1>4, <1>7, <2>1 DEF Transactions, Linked
  <2>3. k \in built[record[k].lead]
    BY <1>8, <2>1 DEF Complete
  <2>4. QED
    BY <1>6, <1>8, <2>1, <2>2, <2>3
<1>9. ASSUME NEW s \in Collectors
      PROVE  CompleteOf(s)'
  <2>1. CompleteOf(s) /\ dirty'[s] = dirty[s] /\ run' = run
    BY <1>1, <1>3 DEF Complete
  <2>2. \A k \in DOMAIN dirty[s].record : k \in Keys /\ record'[k] = record[k]
    BY <1>2, <1>3, Constants DEF Exclusive, Shape, DirtyShape
  <2>3. ASSUME NEW k \in Keys, LeadOf(s, k)' \in LeadIds
        PROVE  LeadOf(s, k)' = LeadOf(s, k)
    BY <1>8, <2>1, <2>3 DEF LeadOf
  <2>4. ASSUME NEW k \in Keys, LeadOf(s, k)' \in LeadIds
        PROVE  k \in BuiltOf(s, LeadOf(s, k))'
    <3>1. PICK l \in LeadIds : l = LeadOf(s, k)'
      BY <2>4
    <3>2. l = LeadOf(s, k) /\ k \in BuiltOf(s, l)
      BY <2>1, <2>3, <3>1 DEF CompleteOf
    <3>3. CASE l \in DOMAIN dirty[s].built
      BY <2>1, <3>1, <3>2, <3>3 DEF BuiltOf
    <3>4. CASE l \notin DOMAIN dirty[s].built
      <4>1. k \in built[l]
        BY <3>2, <3>4 DEF BuiltOf
      <4>2. record'[k] # NoRecord /\ lead'[l] # NoRow
        <5>1. CASE k \notin DOMAIN dirty[s].record
          <6>1. record'[k].lead = l
            BY <2>1, <3>1, <5>1 DEF LeadOf
          <6>2. record'[k] # NoRecord /\ record'[k].id # 0
            BY <1>4, <1>7, <6>1 DEF Transactions, Rows
          <6>3. QED
            BY <1>4, <1>7, <6>1, <6>2 DEF Transactions, Linked
        <5>2. CASE k \in DOMAIN dirty[s].record
          <6>1. record[k].id # 0 /\ record'[k] = record[k]
            BY <2>1, <2>2, <3>2, <3>4, <5>2 DEF CompleteOf
          <6>2. dirty'[s].record[k].lead = l /\ l \notin DOMAIN dirty'[s].lead
            BY <2>1, <3>1, <3>4, <5>2 DEF LeadOf, CompleteOf
          <6>3. (Kept(s, k) \/ Unowned(s, k) \/ Claimed(s, k))'
            BY <1>4, <2>1, <5>2 DEF Transactions, OwnedOf
          <6>4. lead'[l].firstSeen # 0
            BY <1>4, <6>1, <6>2, <6>3 DEF Transactions, Linked, Kept, Unowned, Claimed
          <6>5. QED
            BY <1>7, <6>1, <6>4
        <5>3. QED
          BY <5>1, <5>2
      <4>3. k \in built'[l]
        BY <1>6, <4>1, <4>2
      <4>4. QED
        BY <2>1, <3>1, <3>4, <4>3 DEF BuiltOf
    <3>5. QED
      BY <3>3, <3>4
  <2>5. \A k \in DOMAIN dirty[s].record : record'[k] = record[k] /\ LeadOf(s, k)' = LeadOf(s, k)
    BY <2>1, <2>2 DEF LeadOf
  <2>6. run[s].pc = "applying" => run[s].item.target \in LeadIds
    BY DEF Transactions, ProgressOf
  <2>7. run[s].pc = "applying" =>
            \A k \in Keys : LeadOf(s, k)' = run[s].item.target => k \in run[s].item.from
    BY <2>1, <2>3, <2>6 DEF CompleteOf
  <2>8. QED
    BY <2>1, <2>4, <2>5, <2>7 DEF CompleteOf
<1>10. QED
  BY <1>3, <1>6, <1>8, <1>9, CleanBuilt DEF Complete

LEMMA CompleteNext ==
    ASSUME OneCollector, Transactions, History, Complete, [Next]_vars
    PROVE  Complete'
<1>0. /\ Shape /\ API \in Sessions /\ Collectors \subseteq Sessions /\ API \notin Collectors
      /\ DOMAIN dirty[API].built = {}
  BY Constants DEF Transactions, Sessions, Complete
<1>1. ASSUME UNCHANGED <<record, built, dirty, run>>
      PROVE  Complete'
  BY <1>0, <1>1, CompleteRequest
<1>2. ASSUME NEW s \in Collectors, UNCHANGED <<record, built, dirty>>,
             run'[s].pc \notin {"applying", "linking"}
      PROVE  Complete'
  BY <1>2, CompleteQuiet
<1>3. ASSUME NEW s \in Collectors, Rollback(s), run'[s].pc \notin {"applying", "linking"}
      PROVE  Complete'
  <2>1. UNCHANGED <<record, built>> /\ dirty'[s] = Clean /\ dirty'[API] = dirty[API]
    BY <1>0, <1>3 DEF Rollback, tables, Shape
  <2>2. QED
    BY <1>3, <2>1, CompleteRollback
<1>4. ASSUME NEW s \in Collectors, Break(s)
      PROVE  Complete'
  <2>1. run'[s].pc = "broken"
    BY <1>0, <1>4 DEF Break, Shape, RunShape
  <2>2. QED
    BY <1>3, <1>4, <2>1 DEF Break
<1>5. ASSUME NEW s \in Collectors, Ingest(s)
      PROVE  Complete'
  <2>1. CASE StoreBreaks(s) \/ ApplyBreaks(s) \/ CreateBreaks(s) \/ LinkBreaks(s)
    BY <1>4, <2>1 DEF StoreBreaks, ApplyBreaks, CreateBreaks, LinkBreaks
  <2>2. CASE Match(s)
    <3>1. UNCHANGED <<record, built, dirty>>
      BY <2>2 DEF Match, tables
    <3>2. run'[s].pc \in {"creating", "gathering"}
      BY <1>0, <2>2 DEF Match, Shape, RunShape
    <3>3. QED
      BY <1>2, <3>1, <3>2
  <2>3. CASE Flag(s)
    <3>1. UNCHANGED <<record, built>> /\ Continue(s, run[s].item, "open")
          /\ Put(s, "link", <<run[s].item.review, run[s].item.key>>, "review")
      BY <2>3 DEF Flag, Continue, tables
    <3>2. run'[s].pc = "open"
      BY <1>0, <3>1 DEF Continue, Shape, RunShape
    <3>3. /\ dirty'[s].record = dirty[s].record /\ dirty'[s].lead = dirty[s].lead
          /\ dirty'[s].built = dirty[s].built /\ dirty'[API] = dirty[API]
      BY <1>0, <3>1 DEF Put, Shape, DirtyShape
    <3>4. QED
      BY <3>1, <3>2, <3>3, CompleteQuiet
  <2>4. QED
    BY <1>5, <2>1, <2>2, <2>3, CompleteStore, CompleteGather, CompleteApply,
       CompleteApplyNothing, CompleteCreate, CompleteLink DEF Ingest
<1>6. ASSUME NEW s \in Collectors, Finish(s) \/ Fail(s) \/ Abort(s)
      PROVE  Complete'
  <2>1. CASE Finish(s)
    BY <2>1, CompleteFinish
  <2>2. CASE Fail(s)
    <3>1. UNCHANGED <<record, built, dirty>> /\ run'[s].pc = "idle"
      BY <1>0, <2>2 DEF Fail, tables, Shape, NoRun
    <3>2. QED
      BY <1>2, <3>1
  <2>3. CASE Abort(s)
    <3>1. Rollback(s) /\ run'[s].pc = "idle"
      BY <1>0, <2>3 DEF Abort, Shape, NoRun
    <3>2. QED
      BY <1>3, <3>1
  <2>4. QED
    BY <1>6, <2>1, <2>2, <2>3
<1>7. ASSUME Erase
      PROVE  Complete'
  <2>1. ASSUME NEW table \in {"record", "lead"}, NEW row, NEW value, Put(API, table, row, value)
        PROVE  /\ dirty'[API].built = dirty[API].built
               /\ \A t \in Collectors : dirty'[t] = dirty[t]
    BY <1>0, <2>1 DEF Put, Shape, DirtyShape
  <2>2. CASE Delete
    <3>1. UNCHANGED <<record, built, run>>
      BY <2>2 DEF Delete, tables
    <3>2. UNCHANGED dirty \/ Put(API, "lead", request.lead, NoRow)
      BY <2>2 DEF Delete
    <3>3. QED
      BY <1>0, <2>1, <3>1, <3>2, CompleteRequest
  <2>3. ASSUME NEW k \in Keys, Cascade(k)
        PROVE  Complete'
    <3>1. UNCHANGED <<record, built, run>> /\ Put(API, "record", k, NoRecord)
      BY <2>3 DEF Cascade, tables
    <3>2. QED
      BY <1>0, <2>1, <3>1, CompleteRequest
  <2>4. CASE CommitDelete
    BY <2>4, CompleteCommitDelete
  <2>5. QED
    BY <1>7, <2>2, <2>3, <2>4 DEF Erase
<1>8. ASSUME NEW s \in Sessions, Victim(s)
      PROVE  Complete'
  <2>1. CASE s \in Collectors
    BY <1>0, <1>4, <1>8, <2>1 DEF Victim
  <2>2. CASE s = API
    <3>1. /\ UNCHANGED <<record, built, run>> /\ dirty'[API] = Clean
          /\ \A t \in Collectors : dirty'[t] = dirty[t]
      BY <1>0, <1>8, <2>2 DEF Victim, Rollback, tables, Shape
    <3>2. QED
      BY <3>1, CleanBuilt, CompleteRequest
  <2>3. QED
    BY <2>1, <2>2 DEF Sessions
<1>9. CASE Next
  <2>1. ASSUME NEW s \in Collectors, NEW source, Begin(s, source)
        PROVE  Complete'
    <3>1. UNCHANGED <<record, built, dirty>> /\ run'[s].pc = "open"
      BY <1>0, <2>1 DEF Begin, tables, Shape, NoRun
    <3>2. QED
      BY <1>2, <3>1
  <2>2. ASSUME NEW s \in Collectors, NEW k, NEW c, Look(s, k, c)
        PROVE  Complete'
    <3>1. UNCHANGED <<record, built, dirty>> /\ run'[s].pc = "storing"
      BY <1>0, <2>2 DEF Look, tables, Shape, RunShape
    <3>2. QED
      BY <1>2, <3>1
  <2>3. ASSUME (\E l \in LeadIds : Request(l) \/ NotFound(l)) \/ \E e \in OptOuts : Suppress(e)
        PROVE  Complete'
    BY <1>1, <2>3 DEF Request, NotFound, Suppress, tables, vars
  <2>4. QED
    BY <1>5, <1>6, <1>7, <1>8, <1>9, <2>1, <2>2, <2>3 DEF Next
<1>10. CASE UNCHANGED vars
  BY <1>1, <1>10 DEF vars
<1>11. QED
  BY <1>9, <1>10

LEMMA CompleteInit == Init => Complete
<1> SUFFICES ASSUME Init
             PROVE  Complete
  OBVIOUS
<1>1. /\ record = [k \in Keys |-> NoRecord] /\ built = [l \in LeadIds |-> {}]
      /\ run = [s \in Collectors |-> NoRun] /\ dirty = [s \in Sessions |-> Clean]
      /\ API \in Sessions /\ Collectors \subseteq Sessions
  BY DEF Init, Committed!Init, NoRecord, LeadIds, Committed!LeadIds, Sessions
<1>2. NoRecord.lead \notin LeadIds
  BY Constants DEF NoRecord, Committed!NoRecord, NoLead, Committed!NoLead
<1>3. ASSUME NEW s \in Collectors
      PROVE  CompleteOf(s)
  <2>1. dirty[s] = Clean /\ run[s].pc = "idle"
    BY <1>1, NoRunFacts
  <2>2. \A k \in Keys : LeadOf(s, k) \notin LeadIds
    BY <1>1, <1>2, <2>1, CleanFacts DEF LeadOf
  <2>3. QED
    BY <2>1, <2>2, CleanFacts DEF CompleteOf
<1>4. QED
  BY <1>1, <1>2, <1>3, CleanBuilt DEF Complete

-----------------------------------------------------------------------------
(***************************************************************************)
(* One collection at a time: an exact match is missed only behind a full   *)
(* lookup.                                                                 *)
(***************************************************************************)
\* A lead that s sees has an email, domain or phone of the record that is about
\* to get a lead of its own only if the lookup was full before it.
AloneOf(s) ==
    run[s].pc = "creating" =>
        \A m \in LeadIds : Overlaid(s).lead[m].firstSeen # 0 =>
            \A f \in Exact : Same(run[s].item.content, Overlaid(s).lead[m].content, f)
                                => m \in run[s].item.behind

Alone == \A s \in Collectors : AloneOf(s)

\* A session matches as everybody does.
LEMMA SeenConfidence ==
    ASSUME NEW s, NEW a, NEW b
    PROVE  Seen(s)!Confidence(a, b) = Confidence(a, b)
BY DEF Confidence, Seen!Confidence, NameConfidence, Seen!NameConfidence, Same, Seen!Same,
       Fingerprint, Seen!Fingerprint, EXACT_CONFIDENCE, Seen!EXACT_CONFIDENCE,
       NAME_SIMILARITY_THRESHOLD, Seen!NAME_SIMILARITY_THRESHOLD,
       NAME_CONFIDENCE_CAP, Seen!NAME_CONFIDENCE_CAP

\* Confidence is a percentage, and at least 90 on an exact match.
LEMMA ConfidenceType ==
    ASSUME NEW a \in Content, NEW b \in Content
    PROVE  /\ Confidence(a, b) \in 0..100
           /\ \A f \in Exact : Same(a, b, f) => Confidence(a, b) >= 90
<1>1. ASSUME NEW d \in Content PROVE Fingerprint(d, "name") \in Values \cup {NoValue}
  BY <1>1 DEF Fingerprint, Content, Fields
<1>2. NameConfidence(a, b) \in 0..100
  <2> DEFINE x == Fingerprint(a, "name")
             y == Fingerprint(b, "name")
  <2>1. CASE x = NoValue \/ y = NoValue
    BY <2>1 DEF NameConfidence
  <2>2. CASE x # NoValue /\ y # NoValue
    <3>1. Similarity[x][y] \in 0..100
      BY <1>1, <2>2, SimilarityAssumption
    <3> HIDE DEF x, y
    <3>2. NameConfidence(a, b) \in {0, 80, Similarity[x][y]}
      BY <2>2 DEF NameConfidence, NAME_SIMILARITY_THRESHOLD, NAME_CONFIDENCE_CAP, x, y
    <3>3. QED
      BY <3>1, <3>2
  <2>3. QED
    BY <2>1, <2>2
<1>3. Confidence(a, b) \in {100, 95, 90, NameConfidence(a, b)}
  BY DEF Confidence, EXACT_CONFIDENCE
<1>4. ASSUME NEW f \in Exact, Same(a, b, f) PROVE Confidence(a, b) \in {100, 95, 90}
  BY <1>4 DEF Exact, Confidence, EXACT_CONFIDENCE
<1>5. QED
  BY <1>2, <1>3, <1>4

\* The leads that a session sees and that match c, and those of them that only
\* resemble it and are older than m.
Hits(s, c) ==
    {l \in LeadIds : /\ Overlaid(s).lead[l].firstSeen # 0
                     /\ Confidence(c, Overlaid(s).lead[l].content) > 0}

Alike(s, c, m) ==
    {l \in LeadIds : /\ l < m /\ Overlaid(s).lead[l].firstSeen # 0
                     /\ Confidence(c, Overlaid(s).lead[l].content) \in 1..84}

\* What find_candidates returns to session s, and what it leaves out.
LEMMA SeenCandidates ==
    ASSUME NEW s, NEW c
    PROVE  /\ Seen(s)!FindCandidates(c)
                  = {l \in Hits(s, c) : Cardinality({m \in Hits(s, c) : m < l}) < Limit}
           /\ Seen(s)!Behind(c) = {m \in LeadIds : Cardinality(Alike(s, c, m)) >= Limit}
<1>1. \A S : Seen(s)!Cardinality(S) = Cardinality(S)
  BY DEF Seen!Cardinality, Cardinality
<1>2. \A m : Seen(s)!Live(m) <=> Overlaid(s).lead[m].firstSeen # 0
  BY DEF Seen!Live
<1>3. Seen(s)!LeadIds = LeadIds
  BY DEF Seen!LeadIds, LeadIds
<1>4. {l \in Seen(s)!LeadIds : Seen(s)!Live(l) /\ Seen(s)!Confidence(c, Overlaid(s).lead[l].content) > 0}
          = Hits(s, c)
  BY <1>2, <1>3, SeenConfidence DEF Hits
<1>5. Seen(s)!FindCandidates(c)
          = {l \in Hits(s, c) : Cardinality({m \in Hits(s, c) : m < l}) < Limit}
  BY <1>1, <1>4 DEF Seen!FindCandidates
<1>6. \A m : {l \in Seen(s)!LeadIds : l < m /\ Seen(s)!Resembles(l, c)} = Alike(s, c, m)
  BY <1>2, <1>3, SeenConfidence DEF Alike, Seen!Resembles, Seen!AUTO_MERGE_THRESHOLD
<1>7. Seen(s)!Behind(c) = {m \in LeadIds : Cardinality(Alike(s, c, m)) >= Limit}
  BY <1>1, <1>3, <1>6 DEF Seen!Behind
<1>8. QED
  BY <1>5, <1>7

\* A lookup that misses the lead m, which would merge, and finds no other that
\* would, has been filled by older leads that only resemble c: the oldest of
\* those that would merge has no others before it.
LEMMA SeenMissed ==
    ASSUME Shape, Typed, NEW s \in Collectors, NEW c \in Content, NEW m \in LeadIds,
           Overlaid(s).lead[m].firstSeen # 0, Confidence(c, Overlaid(s).lead[m].content) >= 85,
           \A e \in Seen(s)!FindCandidates(c) : Confidence(c, Overlaid(s).lead[e].content) < 85
    PROVE  m \in Seen(s)!Behind(c)
<1> DEFINE conf(n) == Confidence(c, Overlaid(s).lead[n].content)
           exact == {n \in Hits(s, c) : conf(n) >= 85}
<1>1. \A n \in LeadIds : n \in Nat /\ conf(n) \in 0..100
  <2> SUFFICES ASSUME NEW n \in LeadIds
               PROVE  n \in Nat /\ conf(n) \in 0..100
    OBVIOUS
  <2>1. Overlaid(s).lead[n].content \in Content
    BY SeenTyped, RowTypes
  <2>2. QED
    BY <2>1, ConfidenceType, LimitAssumption DEF LeadIds
<1>2. m \in exact
  BY <1>1 DEF Hits
<1>3. exact \in SUBSET Nat /\ exact # {}
  BY <1>1, <1>2 DEF Hits
<1>4. PICK e \in exact : \A n \in exact : e <= n
  BY <1>3, Minimum
<1>5. e \in LeadIds /\ e \in Nat /\ m \in Nat /\ e <= m
  BY <1>1, <1>2, <1>4 DEF Hits
<1>6. {n \in Hits(s, c) : n < e} \subseteq Alike(s, c, m)
  <2> SUFFICES ASSUME NEW n \in Hits(s, c), n < e
               PROVE  n \in LeadIds /\ n < m /\ Overlaid(s).lead[n].firstSeen # 0 /\ conf(n) \in 1..84
    BY DEF Alike
  <2>1. n \in LeadIds /\ n \in Nat /\ conf(n) \in 0..100 /\ conf(n) > 0
        /\ Overlaid(s).lead[n].firstSeen # 0
    BY <1>1 DEF Hits
  <2>2. n \notin exact
    BY <1>4, <1>5, <2>1
  <2>3. QED
    BY <1>5, <2>1, <2>2
<1>7. IsFiniteSet(Alike(s, c, m))
  <2>1. Alike(s, c, m) \subseteq 1..MaxLeads
    BY DEF Alike, LeadIds
  <2>2. IsFiniteSet(1..MaxLeads)
    <3>1. 1 \in Int /\ MaxLeads \in Int
      BY LimitAssumption
    <3>2. QED
      BY <3>1, FS_Interval
  <2>3. QED
    BY <2>1, <2>2, FS_Subset
<1>8. /\ Cardinality({n \in Hits(s, c) : n < e}) \in Nat /\ Cardinality(Alike(s, c, m)) \in Nat
      /\ Cardinality({n \in Hits(s, c) : n < e}) <= Cardinality(Alike(s, c, m))
  BY <1>6, <1>7, FS_Subset, FS_CardinalityType
<1>9. ~(Cardinality({n \in Hits(s, c) : n < e}) < Limit)
  <2>1. conf(e) \in 0..100 /\ conf(e) >= 85
    BY <1>1, <1>4, <1>5
  <2>2. e \notin Seen(s)!FindCandidates(c)
    BY <2>1
  <2>3. QED
    BY <1>4, <2>2, SeenCandidates
<1>10. Cardinality(Alike(s, c, m)) >= Limit
  BY <1>8, <1>9, LimitAssumption
<1>11. QED
  BY <1>10, SeenCandidates

\* A candidate is a live lead.
LEMMA SeenCandidate ==
    ASSUME NEW s, NEW c, NEW l \in Seen(s)!FindCandidates(c)
    PROVE  l \in LeadIds /\ Overlaid(s).lead[l].firstSeen # 0
<1>1. l \in Hits(s, c)
  <2>1. Seen(s)!FindCandidates(c)
            = {n \in Hits(s, c) : Cardinality({m \in Hits(s, c) : m < n}) < Limit}
    BY SeenCandidates
  <2>2. QED
    BY <2>1
<1>2. QED
  BY <1>1 DEF Hits

\* Of several candidates one is the best.
LEMMA SeenBest ==
    ASSUME Shape, Typed, NEW s \in Collectors, NEW k, NEW c \in Content,
           NEW l \in Seen(s)!FindCandidates(c), l # Seen(s)!Own(k)
    PROVE  \E b \in Seen(s)!BestMatch(k, c) :
               /\ Confidence(c, Overlaid(s).lead[b].content) \in 0..100
               /\ Confidence(c, Overlaid(s).lead[b].content) >= Confidence(c, Overlaid(s).lead[l].content)
<1> DEFINE M == Seen(s)!FindCandidates(c) \ {Seen(s)!Own(k)}
           conf(n) == Confidence(c, Overlaid(s).lead[n].content)
           T == {100 - conf(n) : n \in M}
<1>1. l \in M /\ M \subseteq LeadIds
  BY SeenCandidate
<1>2. \A n \in M : n \in Nat /\ conf(n) \in 0..100
  <2> SUFFICES ASSUME NEW n \in M PROVE n \in Nat /\ conf(n) \in 0..100
    OBVIOUS
  <2>1. n \in LeadIds
    BY <1>1
  <2>2. n \in Nat
    BY <2>1, LimitAssumption DEF LeadIds
  <2>3. Overlaid(s).lead[n].content \in Content
    BY <2>1, SeenTyped, RowTypes
  <2>4. QED
    BY <2>2, <2>3, ConfidenceType
<1>3. Seen(s)!BestMatch(k, c) =
          {n \in M : \A m \in M : conf(m) < conf(n) \/ (conf(m) = conf(n) /\ n <= m)}
  BY SeenConfidence DEF Seen!BestMatch
<1> HIDE DEF M, conf
<1>4. T \in SUBSET Nat /\ T # {}
  BY <1>1, <1>2
<1>5. PICK x \in T : \A y \in T : x <= y
  BY <1>4, Minimum
<1> DEFINE U == {n \in M : 100 - conf(n) = x}
<1>6. U \in SUBSET Nat /\ U # {}
  BY <1>2, <1>5
<1>7. PICK b \in U : \A n \in U : b <= n
  BY <1>6, Minimum
<1>8. ASSUME NEW m \in M
      PROVE  conf(m) < conf(b) \/ (conf(m) = conf(b) /\ b <= m)
  <2>1. 100 - conf(m) \in T
    OBVIOUS
  <2>2. x <= 100 - conf(m) /\ x = 100 - conf(b)
    BY <1>5, <1>7, <2>1
  <2>3. conf(m) \in 0..100 /\ conf(b) \in 0..100
    BY <1>2, <1>7
  <2>4. conf(m) <= conf(b)
    BY <2>2, <2>3
  <2>5. conf(m) = conf(b) => m \in U
    BY <2>2
  <2>6. QED
    BY <1>7, <2>3, <2>4, <2>5
<1>9. b \in Seen(s)!BestMatch(k, c)
  BY <1>3, <1>7, <1>8
<1>10. conf(b) >= conf(l) /\ conf(b) \in 0..100
  BY <1>1, <1>2, <1>7, <1>8
<1>11. QED
  BY <1>9, <1>10 DEF conf

\* A record gets a lead of its own only if its lookup has found no exact match.
LEMMA AloneMatch ==
    ASSUME Transactions, Typed, NEW s \in Collectors, Match(s)
    PROVE  AloneOf(s)'
<1>1. PICK k, c, own : k = run[s].item.key /\ c = run[s].item.content /\ own = run[s].item.own
  OBVIOUS
<1> DEFINE best == Seen(s)!BestMatch(k, c)
           auto == {l \in best : Seen(s)!IsAuto(l, c)}
           kept == {l \in LeadIds : l = own /\ Seen(s)!Live(l)}
           to   == IF auto # {} THEN auto ELSE kept
<1>2. PICK target \in IF to = {} THEN {NoLead} ELSE to,
           review \in IF best \ auto = {} THEN {NoLead} ELSE best \ auto :
         run' = [run EXCEPT ![s].pc = IF target = NoLead THEN "creating" ELSE "gathering",
                            ![s].item = [run[s].item EXCEPT
                                   !.target = target, !.review = review,
                                   !.loaded = IF target = NoLead THEN NoRow
                                              ELSE Overlaid(s).lead[target],
                                   !.behind = IF target = NoLead THEN Seen(s)!Behind(c)
                                              ELSE {}]]
  BY <1>1 DEF Match
<1>3. /\ run[s].pc = "matching" /\ UNCHANGED <<lead, dirty>> /\ Shape /\ ProgressOf(s)
      /\ run[s].item \in Item
  BY DEF Match, tables, Transactions, Typed, RunTyped
<1>4. k \in Keys /\ c \in Content
  BY <1>1, <1>3, ItemType DEF ProgressOf, Working
<1>5. /\ run'[s].pc = IF target = NoLead THEN "creating" ELSE "gathering"
      /\ run'[s].item.content = c
      /\ target = NoLead => run'[s].item.behind = Seen(s)!Behind(c)
  BY <1>1, <1>2, <1>3 DEF Shape, RunShape
<1>6. best \subseteq LeadIds
  BY DEF Seen!BestMatch, Seen!FindCandidates, Seen!LeadIds, LeadIds
<1>7. \A l : Overlaid(s).lead[l]' = Overlaid(s).lead[l]
  BY <1>3 DEF Overlaid
<1>8. SUFFICES ASSUME target = NoLead, NEW m \in LeadIds, Overlaid(s).lead[m].firstSeen # 0,
                      NEW f \in Exact, Same(c, Overlaid(s).lead[m].content, f)
               PROVE  m \in Seen(s)!Behind(c)
  BY <1>5, <1>7 DEF AloneOf
<1> HIDE DEF best
<1>9. auto = {} /\ kept = {}
  BY <1>2, <1>6, <1>8, Constants
<1>10. Seen(s)!Own(k) = own
  <2>1. Loaded(s)[k] = [Overlaid(s).record[k] EXCEPT !.lead = own]
    BY <1>1, <1>4 DEF Loaded
  <2>2. Overlaid(s).record[k] \in RecordRow
    BY <1>3, <1>4, SeenTyped
  <2>3. QED
    BY <2>1, <2>2, RowTypes DEF Seen!Own
<1>11. Overlaid(s).lead[m].content \in Content
  BY <1>3, <1>8, SeenTyped, RowTypes
<1>12. /\ Confidence(c, Overlaid(s).lead[m].content) \in 0..100
       /\ Confidence(c, Overlaid(s).lead[m].content) >= 90
  BY <1>4, <1>8, <1>11, ConfidenceType
<1>13. ASSUME NEW e \in Seen(s)!FindCandidates(c)
       PROVE  Confidence(c, Overlaid(s).lead[e].content) < 85
  <2>1. e \in LeadIds /\ Overlaid(s).lead[e].firstSeen # 0
    BY SeenCandidate
  <2>2. e # own
    BY <1>9, <2>1 DEF Seen!Live
  <2>3. PICK b \in best :
           /\ Confidence(c, Overlaid(s).lead[b].content) \in 0..100
           /\ Confidence(c, Overlaid(s).lead[b].content) >= Confidence(c, Overlaid(s).lead[e].content)
    BY <1>3, <1>4, <1>10, <2>2, SeenBest DEF best
  <2>4. Confidence(c, Overlaid(s).lead[e].content) \in 0..100
    BY <1>3, <1>4, <2>1, SeenTyped, RowTypes, ConfidenceType
  <2>5. ~Seen(s)!IsAuto(b, c)
    BY <1>9, <2>3
  <2>6. ~(Confidence(c, Overlaid(s).lead[b].content) >= 85)
    BY <2>5, SeenConfidence DEF Seen!IsAuto, Seen!AutoMerge, Seen!AUTO_MERGE_THRESHOLD
  <2>7. QED
    BY <2>3, <2>4, <2>6
<1>14. Confidence(c, Overlaid(s).lead[m].content) >= 85
  BY <1>12
<1>15. QED
  BY <1>3, <1>4, <1>8, <1>13, <1>14, SeenMissed

\* Somebody else moves: leads may be gone, and no others are there.
LEMMA AloneFrame ==
    ASSUME Transactions, Transactions', Alone, UNCHANGED run,
           \A s \in Collectors : dirty'[s] = dirty[s],
           \A l \in LeadIds : lead'[l] = lead[l] \/ lead'[l].firstSeen = 0
    PROVE  Alone'
<1>1. SUFFICES ASSUME NEW s \in Collectors
               PROVE  AloneOf(s)'
  BY DEF Alone
<1>2. Overlaid(s).lead' = Over(dirty[s].lead, lead') /\ Overlaid(s).lead = Over(dirty[s].lead, lead)
  BY DEF Overlaid
<1>3. DOMAIN lead = LeadIds /\ DOMAIN lead' = LeadIds
  BY DEF Transactions, Shape
<1>4. \A m \in LeadIds : \/ Overlaid(s).lead[m]' = Overlaid(s).lead[m]
                         \/ Overlaid(s).lead[m]'.firstSeen = 0
  <2>1. PICK old, new, d : old = lead /\ new = lead' /\ d = dirty[s].lead
    OBVIOUS
  <2>2. \A m \in LeadIds : \/ Over(d, new)[m] = Over(d, old)[m] \/ Over(d, new)[m].firstSeen = 0
    BY <1>3, <2>1 DEF Over
  <2>3. QED
    BY <1>2, <2>1, <2>2
<1>5. run'[s] = run[s]
  OBVIOUS
<1>6. QED
  BY <1>4, <1>5 DEF Alone, AloneOf

LEMMA AloneNext ==
    ASSUME OneCollector, Transactions, Transactions', Typed, Alone, [Next]_vars
    PROVE  Alone'
<1>1. Shape /\ API \in Sessions /\ Collectors \subseteq Sessions /\ API \notin Collectors
  BY Constants DEF Transactions, Sessions
<1>2. ASSUME NEW s \in Collectors, run'[s].pc # "creating"
      PROVE  Alone'
  BY <1>2 DEF OneCollector, Alone, AloneOf
<1>3. ASSUME UNCHANGED <<run, lead>>, \A s \in Collectors : dirty'[s] = dirty[s]
      PROVE  Alone'
  BY <1>3, AloneFrame
<1>4. ASSUME NEW s \in Collectors, Break(s)
      PROVE  Alone'
  BY <1>1, <1>2, <1>4 DEF Break, Shape, RunShape
<1>5. ASSUME NEW s \in Collectors, Ingest(s)
      PROVE  Alone'
  <2>1. CASE StoreBreaks(s) \/ ApplyBreaks(s) \/ CreateBreaks(s) \/ LinkBreaks(s)
    BY <1>4, <2>1 DEF StoreBreaks, ApplyBreaks, CreateBreaks, LinkBreaks
  <2>2. CASE Match(s)
    BY <2>2, AloneMatch DEF OneCollector, Alone
  <2>3. CASE Store(s) \/ Gather(s)
    BY <1>1, <1>2, <2>3 DEF Store, Step, Gather, Shape, RunShape
  <2>4. ASSUME NEW item, NEW pc \in {"linking", "flagging", "open"}, Continue(s, item, pc)
        PROVE  Alone'
    BY <1>1, <1>2, <2>4 DEF Continue, Shape, RunShape
  <2>5. CASE Apply(s) \/ ApplyNothing(s)
    <3>1. \A item : AfterMerge(item) \in {"linking", "flagging", "open"}
      BY DEF AfterMerge
    <3>2. QED
      BY <2>4, <2>5, <3>1 DEF Apply, ApplyNothing
  <2>6. CASE Create(s) \/ Link(s) \/ Flag(s)
    BY <2>4, <2>6 DEF Create, Link, Flag
  <2>7. QED
    BY <1>5, <2>1, <2>2, <2>3, <2>5, <2>6 DEF Ingest
<1>6. ASSUME NEW s \in Collectors, Finish(s) \/ Fail(s) \/ Abort(s)
      PROVE  Alone'
  <2>1. run' = [run EXCEPT ![s] = NoRun]
    BY <1>6 DEF Finish, Fail, Abort
  <2>2. QED
    BY <1>1, <1>2, <2>1, NoRunFacts DEF Shape
<1>7. ASSUME Erase
      PROVE  Alone'
  <2>1. ASSUME NEW table, NEW row, NEW value, Put(API, table, row, value)
        PROVE  \A s \in Collectors : dirty'[s] = dirty[s]
    BY <1>1, <2>1 DEF Put, Shape
  <2>2. CASE Delete
    BY <1>3, <2>1, <2>2 DEF Delete, tables
  <2>3. ASSUME NEW k \in Keys, Cascade(k)
        PROVE  Alone'
    BY <1>3, <2>1, <2>3 DEF Cascade, tables
  <2>4. CASE CommitDelete
    <3>1. Publish(API) /\ UNCHANGED run
      BY <2>4 DEF CommitDelete
    <3>2. \A s \in Collectors : dirty'[s] = dirty[s]
      BY <1>1, <3>1, PublishFacts
    <3>3. \A l \in LeadIds : lead'[l] = IF l \in DOMAIN dirty[API].lead
                                       THEN dirty[API].lead[l] ELSE lead[l]
      BY <1>1, <3>1, PublishFacts
    <3>4. \A l \in DOMAIN dirty[API].lead : dirty[API].lead[l].firstSeen = 0
      BY DEF Transactions, Erasing, NoRow, Committed!NoRow
    <3>5. QED
      BY <3>1, <3>2, <3>3, <3>4, AloneFrame
  <2>5. QED
    BY <1>7, <2>2, <2>3, <2>4 DEF Erase
<1>8. ASSUME NEW s \in Sessions, Victim(s)
      PROVE  Alone'
  <2>1. CASE s \in Collectors
    BY <1>1, <1>4, <1>8, <2>1 DEF Victim
  <2>2. CASE s = API
    BY <1>1, <1>3, <1>8, <2>2 DEF Victim, Rollback, tables, Shape
  <2>3. QED
    BY <2>1, <2>2 DEF Sessions
<1>9. CASE Next
  <2>1. ASSUME NEW s \in Collectors, NEW source, Begin(s, source)
        PROVE  Alone'
    BY <1>1, <1>2, <2>1 DEF Begin, Shape, NoRun
  <2>2. ASSUME NEW s \in Collectors, NEW k, NEW c, Look(s, k, c)
        PROVE  Alone'
    BY <1>1, <1>2, <2>2 DEF Look, Shape, RunShape
  <2>3. ASSUME (\E l \in LeadIds : Request(l) \/ NotFound(l)) \/ \E e \in OptOuts : Suppress(e)
        PROVE  Alone'
    BY <1>3, <2>3 DEF Request, NotFound, Suppress, tables, vars
  <2>4. QED
    BY <1>5, <1>6, <1>7, <1>8, <1>9, <2>1, <2>2, <2>3 DEF Next
<1>10. CASE UNCHANGED vars
  BY <1>3, <1>10 DEF vars, tables
<1>11. QED
  BY <1>9, <1>10

\* The only step that writes a lead that s has not yet seen is to create it.
LEMMA OnlyCreateAdds ==
    ASSUME OneCollector, Transactions, History, Next, NEW s \in Collectors, NEW l \in LeadIds,
           issued.lead < l, l \in DOMAIN dirty'[s].lead \ DOMAIN dirty[s].lead
    PROVE  Create(s)
<1>1. Shape /\ API \in Sessions /\ Collectors \subseteq Sessions /\ API \notin Collectors
      /\ \A t \in Collectors : t = s
  BY Constants DEF Transactions, Sessions, OneCollector
<1>2. dirty'[s].lead # dirty[s].lead /\ dirty'[s] # Clean /\ dirty'[s] # dirty[s]
  BY CleanFacts
<1>3. \A table, row, value : table # "lead" => ~Put(s, table, row, value)
  BY <1>1, <1>2 DEF Put, Shape, DirtyShape
<1>4. \A table, row, value : ~Put(API, table, row, value)
  BY <1>1, <1>2 DEF Put, Shape
<1>5. ~(dirty' = dirty) /\ ~(dirty' = [dirty EXCEPT ![s] = Clean])
      /\ ~(dirty' = [dirty EXCEPT ![API] = Clean])
  BY <1>1, <1>2 DEF Shape
<1>6. ~Break(s) /\ ~Abort(s) /\ ~Finish(s) /\ ~Fail(s)
  BY <1>5 DEF Break, Abort, Finish, Fail, Rollback, Publish
<1>7. ASSUME Apply(s)
      PROVE  FALSE
  <2>1. PICK m, row, rows : /\ m = run[s].item.target
                            /\ dirty' = [dirty EXCEPT ![s].lead = Written(@, m, row),
                                                      ![s].built = rows]
    BY <1>7 DEF Apply
  <2>2. run[s].pc = "applying" /\ Overlaid(s).lead[m] # NoRow
    BY <1>7, <2>1 DEF Apply
  <2>3. m \in LeadIds
    BY <2>1, <2>2 DEF Transactions, ProgressOf
  <2>4. DOMAIN dirty'[s].lead = DOMAIN dirty[s].lead \cup {m}
    BY <1>1, <2>1, WriteLead
  <2>5. l = m /\ m \notin DOMAIN dirty[s].lead
    BY <2>4
  <2>6. lead[m] # NoRow
    BY <1>1, <2>2, <2>3, <2>5, SeenLead
  <2>7. lead[m].firstSeen # 0
    BY <2>3, <2>6 DEF Transactions, Rows
  <2>8. m <= issued.lead /\ issued.lead \in Nat /\ m \in Nat
    BY <2>3, <2>7, LimitAssumption DEF History, LeadIds
  <2>9. QED
    BY <2>5, <2>8
<1>8. ~Link(s)
  BY <1>1, <1>2 DEF Link, Shape, DirtyShape
<1>9. Ingest(s) => Create(s)
  BY <1>3, <1>5, <1>6, <1>7, <1>8
     DEF Ingest, Store, StoreBreaks, Match, Gather, ApplyNothing, ApplyBreaks, CreateBreaks,
         Flag, LinkBreaks
<1>10. ~Erase
  BY <1>4, <1>5 DEF Erase, Delete, Cascade, CommitDelete, Publish
<1>11. \A t \in Sessions : ~Victim(t)
  BY <1>1, <1>5, <1>6 DEF Victim, Rollback, Sessions
<1>12. /\ \A source : ~Begin(s, source)
       /\ \A k, c : ~Look(s, k, c)
       /\ \A m : ~Request(m) /\ ~NotFound(m)
       /\ \A e : ~Suppress(e)
  BY <1>5 DEF Begin, Look, Request, NotFound, Suppress, vars
<1>13. QED
  BY <1>1, <1>6, <1>9, <1>10, <1>11, <1>12 DEF Next

LEMMA NewLeadStep ==
    ASSUME OneCollector, Transactions, History, Typed, Alone, Next,
           NEW s \in Collectors, NEW l \in LeadIds,
           issued.lead < l, l \in DOMAIN dirty'[s].lead \ DOMAIN dirty[s].lead,
           NEW m \in LeadIds, Overlaid(s).lead[m] # NoRow, NEW f \in Exact
    PROVE  Same(dirty'[s].lead[l].content, Overlaid(s).lead[m].content, f)
               => m \in run[s].item.behind
<1>1. Create(s)
  BY OnlyCreateAdds
<1>2. PICK n, row, rows, c : /\ row = Initial(s) /\ c = run[s].item.content /\ n = issued.lead + 1
                             /\ dirty' = [dirty EXCEPT ![s].lead = Written(@, n, row),
                                                       ![s].built = rows]
  BY <1>1 DEF Create
<1>3. run[s].pc = "creating" /\ Shape
  BY <1>1 DEF Create, Transactions
<1>4. l = n /\ dirty'[s].lead[l] = row
  <2>1. dirty' = [dirty EXCEPT ![s].lead = Written(@, n, row), ![s].built = rows]
    BY <1>2
  <2>2. DOMAIN dirty'[s].lead = DOMAIN dirty[s].lead \cup {n}
    BY <1>3, <2>1, WriteLead
  <2>3. dirty'[s].lead = Written(dirty[s].lead, n, row)
    <3>1. s \in Sessions /\ DOMAIN dirty = Sessions
          /\ DOMAIN dirty[s] = {"record", "lead", "link", "built"}
      BY <1>3 DEF Sessions, Shape, DirtyShape
    <3>2. QED
      BY <2>1, <3>1
  <2>4. PICK new : new = dirty'[s].lead
    OBVIOUS
  <2>5. new[n] = row
    BY <2>3, <2>4 DEF Written, Over
  <2>6. QED
    BY <2>2, <2>4, <2>5
<1>5. row.content[f] = NoValue \/ row.content[f] = c[f]
  <2>1. PICK x : x = Seen(s)!Candidate(run[s].item.key, Overlaid(s).record[run[s].item.key].id, c,
                                       Overlaid(s).record[run[s].item.key].collected)
    OBVIOUS
  <2>2. row.content = Seen(s)!Merge({x}) /\ x.content = c
    BY <1>2, <2>1 DEF Initial, Seen!Applied, Seen!Candidate
  <2>3. f \in Fields
    BY DEF Fields
  <2>4. QED
    BY <2>2, <2>3, MergeFrom
<1>6. Overlaid(s).lead[m].firstSeen # 0
  <2>1. CASE m \in DOMAIN dirty[s].lead
    BY <1>3, <2>1, SeenLead DEF Transactions, DraftsOf
  <2>2. CASE m \notin DOMAIN dirty[s].lead
    BY <1>3, <2>2, SeenLead DEF Transactions, Rows
  <2>3. QED
    BY <2>1, <2>2
<1>7. Same(c, Overlaid(s).lead[m].content, f) => m \in run[s].item.behind
  BY <1>2, <1>3, <1>6 DEF Alone, AloneOf
<1>8. QED
  BY <1>4, <1>5, <1>7 DEF Same, Fingerprint

-----------------------------------------------------------------------------
(***************************************************************************)
(* The theorems.                                                           *)
(***************************************************************************)
\* What sessions hold while they wait for each other, and what they have
\* committed, is consistent: the invariant that the rest follows from.
THEOREM TransactionsHold == Spec => []Transactions
<1>1. Transactions /\ [Next]_vars => Transactions'
  BY TransactionsNext
<1>2. QED
  BY <1>1, TransactionsInit, PTL DEF Spec

\* Overlapping collections and deletions commit no record without its lead:
\* what run_collection and delete_lead leave behind fits together, whatever the
\* order of their statements, their deadlocks and their rollbacks.
THEOREM OwnersAreLinked == Spec => []OwnerLinked
<1>1. Transactions => OwnerLinked
  <2>1. ASSUME Transactions, NEW k \in Keys, Committed!Stored(k)
        PROVE  /\ Committed!Own(k) # NoLead /\ Committed!Live(Committed!Own(k))
               /\ link[Committed!Own(k)][k] # "none"
    <3>1. /\ record[k].lead \in LeadIds /\ lead[record[k].lead].firstSeen # 0
          /\ link[record[k].lead][k] # "none"
      BY <2>1 DEF Transactions, Linked, Committed!Stored
    <3>2. QED
      BY <3>1, Constants DEF Committed!Own, Committed!Live
  <2>2. QED
    BY <2>1 DEF OwnerLinked
<1>2. QED
  BY <1>1, TransactionsHold, PTL

\* No row of lead_merges survives its lead or its record, although a link is
\* inserted while another session deletes.
THEOREM LinksAreKnown == Spec => []LinksKnown
<1>1. Transactions => LinksKnown
  BY DEF Transactions
<1>2. QED
  BY <1>1, TransactionsHold, PTL

\* A contact that is suppressed before a collection begins is in none of the
\* records that the collection stores, whatever is suppressed, deleted and
\* collected beside it.
THEOREM SuppressionsAreHeeded == Spec => []RecordsClean
<1>1. Init => Listing /\ RecordsClean
  BY ListingInit
<1>2. Transactions /\ Listing /\ RecordsClean /\ [Next]_vars => (Listing /\ RecordsClean)'
  BY ListingNext
<1>3. QED
  BY <1>1, <1>2, TransactionsHold, PTL DEF Spec

\* Merging settles although collections overlap: a record that one of them has
\* moved out of a lead is never moved back, by none of the others either.
THEOREM RecordsNeverReturn == Spec => []NeverReturns
<1>1. Init => History
  BY HistoryInit
<1>2. Transactions /\ History /\ [Next]_vars => History'
  BY HistoryNext
<1>3. History => NeverReturns
  BY DEF History, Departures, NeverReturns, Committed!NeverReturns, Committed!Own
<1>4. QED
  BY <1>1, <1>2, <1>3, TransactionsHold, PTL DEF Spec

\* The tables, what every session has written and the locals of every collection
\* have the types of their columns and variables, whatever overlaps.
THEOREM CollectionsTyped == Spec => []TypeOK
<1>1. Transactions /\ Typed /\ [Next]_vars => Typed'
  BY TypedNext
<1>2. QED
  BY <1>1, TypedInit, TypedIs, TransactionsHold, PTL DEF Spec

\* As long as collections run one at a time, a lead is rebuilt from all of its
\* records: what _remerge has read is still so when the lead is written and
\* committed, although leads and their records are deleted in between.  With two
\* collectors it fails: a record may join a lead that the other is rebuilding.
THEOREM LeadsAreComplete == Spec => [](OneCollector => LeadsComplete)
<1>1. Init => (OneCollector => Complete)
  BY CompleteInit
<1>2. Transactions /\ History /\ (OneCollector => Complete) /\ [Next]_vars
          => (OneCollector => Complete)'
  BY CompleteNext DEF OneCollector
<1>3. (OneCollector => Complete) => (OneCollector => LeadsComplete)
  BY DEF Complete, LeadsComplete, Committed!Own
<1>4. Transactions /\ History /\ [Next]_vars => History'
  BY HistoryNext
<1>5. QED
  BY <1>1, <1>2, <1>3, <1>4, HistoryInit, TransactionsHold, PTL DEF Spec

\* As long as collections run one at a time, a record with an email, domain or
\* phone of some lead gets a lead of its own only if Limit older leads that
\* resemble it filled its lookup, although leads are deleted between the lookup
\* and the INSERT.  With two collectors it fails: both may have looked before
\* either has committed.
THEOREM CollectedLeadsAreNew ==
    ASSUME OneCollector
    PROVE  Spec => NewLeadIsNew
<1> DEFINE A == \A s \in Collectors : \A l \in LeadIds :
                    issued.lead < l /\ l \in DOMAIN dirty'[s].lead \ DOMAIN dirty[s].lead =>
                        \A m \in LeadIds : Overlaid(s).lead[m] # NoRow =>
                            \A f \in Exact :
                                Same(dirty'[s].lead[l].content, Overlaid(s).lead[m].content, f)
                                    => m \in run[s].item.behind
<1>1. Transactions /\ Typed /\ [Next]_vars => Typed'
  BY TypedNext
<1>2. Transactions /\ History /\ [Next]_vars => History'
  BY HistoryNext
<1>3. Transactions /\ Transactions' /\ Typed /\ Alone /\ [Next]_vars => Alone'
  BY AloneNext
<1>4. Init => Alone
  <2>1. Init => \A s \in Collectors : run[s].pc = "idle"
    BY NoRunFacts DEF Init
  <2>2. QED
    BY <2>1 DEF Alone, AloneOf
<1>5. Transactions /\ History /\ Typed /\ Alone /\ [Next]_vars => [A]_vars
  BY NewLeadStep
<1>6. [][A]_vars => NewLeadIsNew
  BY DEF NewLeadIsNew
<1>7. QED
  BY <1>1, <1>2, <1>3, <1>4, <1>5, <1>6, HistoryInit, TypedInit, TransactionsHold, PTL DEF Spec
=============================================================================
