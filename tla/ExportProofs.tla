---------------------------- MODULE ExportProofs ----------------------------
(***************************************************************************)
(* What the run checks of Export on a table of three rows, proved for any  *)
(* table, page size, filter and number of writers.                         *)
(***************************************************************************)
EXTENDS Export, FiniteSetTheorems, TLAPS

Ended == {"done", "missing", "broken"}

\* The sequence is ahead of every row.
Fresh == \A i \in Ids : i > lastId => rows[i].state = "free"

OutIds == {out[k].id : k \in 1..Len(out)}
BatchIds == {b.id : b \in batch}

-----------------------------------------------------------------------------
(***************************************************************************)
(* The invariant.                                                          *)
(***************************************************************************)
\* What was given lies up to the cursor, what was fetched beyond it.
PageInv ==
    /\ pc = "idle" => out = <<>> /\ stays = {}
    /\ pc \in {"idle", "counting", "paging", "done"} => batch = {}
    /\ \A k \in 1..Len(out) : ~Before(query.kind, cursor, out[k].id)
    /\ \A b \in batch : Before(query.kind, cursor, b.id)
    /\ GivenInOrder

\* A row that stays is given already, in the page, or beyond the page, which
\* then is full.
StayInv ==
    /\ \A i \in stays : rows[i].state = "live" /\ Matches(query.filter, rows[i].data)
    /\ query.kind = "detail" => /\ stays \subseteq {query.start + 1} /\ query.limit = 1
                                /\ pc \in {"counting", "paging"} => cursor = query.start
    /\ pc \in {"counting", "paging"} => \A i \in stays : i \in OutIds \/ Before(query.kind, cursor, i)
    /\ pc = "yielding" => \A i \in stays :
           \/ i \in OutIds \cup BatchIds
           \/ full /\ query.kind # "detail" /\ \A b \in batch : Before(query.kind, b.id, i)
    /\ NothingMissed

VersionInv ==
    /\ pc \notin Ended \cup {"idle"} =>
           \A i \in Ids : rows[i].state = "live" => [id |-> i, data |-> rows[i].data] \in versions
    /\ \A b \in batch : b \in versions /\ Matches(query.filter, b.data)
    /\ OnlyWhatWasThere

\* While nobody commits, what the command line counted is what stays.
CountInv ==
    query.kind = "cli" /\ quiet =>
        /\ stays = Hits(query.filter)
        /\ OutIds \cup BatchIds \subseteq Hits(query.filter)
        /\ pc \in {"paging", "yielding", "done"} => total = Cardinality(Hits(query.filter))

-----------------------------------------------------------------------------
(***************************************************************************)
(* Lemmas.                                                                 *)
(***************************************************************************)
\* The order of a listing is a strict total order on ids and cursors.
LEMMA BeforeOrder ==
    ASSUME NEW kind, NEW i \in Int, NEW j \in Int, NEW k \in Int
    PROVE  /\ ~Before(kind, i, i)
           /\ Before(kind, i, j) \/ i = j \/ Before(kind, j, i)
           /\ Before(kind, i, j) /\ Before(kind, j, k) => Before(kind, i, k)
           /\ ~Before(kind, j, i) /\ Before(kind, j, k) => Before(kind, i, k)
BY SMT DEF Before

LEMMA StartIsBefore ==
    ASSUME NEW kind, NEW i \in Ids
    PROVE  Before(kind, Start(kind), i) /\ Start(kind) \in 0..(MaxId + 1)
BY SizesAssumption, SMT DEF Before, Start, Ids

\* A page is the whole of what is left if it is not full; what it leaves out
\* comes after it.
LEMMA FirstOfFacts ==
    ASSUME NEW S, NEW kind, NEW n \in Nat \ {0}, NEW B \in FirstOf(S, kind, n), IsFiniteSet(S)
    PROVE  /\ B \subseteq S /\ IsFiniteSet(B) /\ Cardinality(B) \in Nat
           /\ Cardinality(B) <= n
           /\ Cardinality(B) # n => B = S
           /\ B = {} => S = {}
           /\ \A i \in B, j \in S \ B : Before(kind, i, j)
<1>1. B \subseteq S /\ Cardinality(B) <= n /\ (Cardinality(B) < n => B = S)
        /\ \A i \in B, j \in S \ B : Before(kind, i, j)
  BY DEF FirstOf
<1>2. IsFiniteSet(B) /\ Cardinality(B) \in Nat
  BY <1>1, FS_Subset, FS_CardinalityType
<1>3. Cardinality(B) # n => B = S
  BY <1>1, <1>2
<1>4. B = {} => S = {}
  BY <1>3, FS_EmptySet
<1>5. QED
  BY <1>1, <1>2, <1>3, <1>4

LEMMA HitsFinite ==
    ASSUME NEW filter, NEW S \in SUBSET Hits(filter)
    PROVE  IsFiniteSet(S) /\ Hits(filter) \subseteq Ids
<1>1. Hits(filter) \subseteq Ids
  BY DEF Hits
<1>2. IsFiniteSet(Ids)
  BY SizesAssumption, FS_Interval DEF Ids
<1>3. QED
  BY <1>1, <1>2, FS_Subset

LEMMA PageSizeType ==
    ASSUME NEW limit \in Limits, PageSize(limit) # None
    PROVE  PageSize(limit) \in Nat \ {0}
BY SizesAssumption, RequestsAssumption DEF PageSize

LEMMA NoQueryType == NoQuery \in Query /\ Nothing \in Contents
BY SizesAssumption DEF NoQuery, NoFilter, Query, Filter, Nothing, Contents

-----------------------------------------------------------------------------
(***************************************************************************)
(* Types.                                                                  *)
(***************************************************************************)
LEMMA BeginType ==
    ASSUME TypeOK, NEW kind \in {"export", "cli", "leads", "jobs", "detail"}, NEW filter \in Filter,
           NEW limit \in Nat \ {0}, NEW start \in 0..(MaxId + 1), Begin(kind, filter, limit, start)
    PROVE  TypeOK'
<1>1. query' \in Query
  BY DEF Begin, Query
<1>2. {i \in Hits(filter) : Before(kind, start, i) /\ (kind = "detail" => i = start + 1)} \subseteq Ids
  BY DEF Hits
<1>3. \A i \in Ids : [id |-> i, data |-> rows[i].data] \in Given
  BY DEF TypeOK, Row, Given
<1>4. QED
  BY <1>1, <1>2, <1>3 DEF Begin, TypeOK, table

\* The reads that can begin.
LEMMA BeginFacts ==
    ASSUME ListLeads \/ ListJobs \/ StreamExport \/ CliExport \/ GetLead
    PROVE  \E kind \in {"export", "cli", "leads", "jobs", "detail"}, filter \in Filter,
              limit \in Nat \ {0}, start \in 0..(MaxId + 1) :
               /\ Begin(kind, filter, limit, start)
               /\ kind = "detail" => limit = 1
               /\ kind = "cli" => start = Start("cli")
<1>1. \A i \in Cursors : i \in 0..(MaxId + 1)
  BY RequestsAssumption, SizesAssumption DEF Ids
<1>2. \A kind : Start(kind) \in 0..(MaxId + 1)
  BY SizesAssumption DEF Start
<1>3. CASE ListLeads
  <2>1. PICK filter \in Filters, limit \in Limits, start \in Cursors \cup {Start("leads")} :
            PageSize(limit) # None /\ Begin("leads", filter, PageSize(limit), start)
    BY <1>3 DEF ListLeads
  <2>2. filter \in Filter /\ PageSize(limit) \in Nat \ {0} /\ start \in 0..(MaxId + 1)
    BY <2>1, <1>1, <1>2, PageSizeType, RequestsAssumption
  <2>3. QED
    BY <2>1, <2>2
<1>4. CASE ListJobs
  <2>1. PICK filter \in Filters, limit \in Limits, start \in Cursors \cup {Start("jobs")} :
            PageSize(limit) # None /\ Begin("jobs", filter, PageSize(limit), start)
    BY <1>4 DEF ListJobs
  <2>2. filter \in Filter /\ PageSize(limit) \in Nat \ {0} /\ start \in 0..(MaxId + 1)
    BY <2>1, <1>1, <1>2, PageSizeType, RequestsAssumption
  <2>3. QED
    BY <2>1, <2>2
<1>5. CASE StreamExport
  <2>1. PICK filter \in Filters : Begin("export", filter, BATCH_SIZE, Start("export"))
    BY <1>5 DEF StreamExport
  <2>2. QED
    BY <2>1, <1>2, RequestsAssumption, SizesAssumption
<1>6. CASE CliExport
  <2>1. PICK filter \in Filters : Begin("cli", filter, BATCH_SIZE, Start("cli"))
    BY <1>6 DEF CliExport
  <2>2. QED
    BY <2>1, <1>2, RequestsAssumption, SizesAssumption
<1>7. CASE GetLead
  <2>1. PICK i \in Ids : Begin("detail", NoFilter, 1, i - 1)
    BY <1>7 DEF GetLead
  <2>2. i - 1 \in 0..(MaxId + 1) /\ 1 \in Nat \ {0}
    BY SizesAssumption DEF Ids
  <2>3. NoFilter \in Filter
    BY DEF NoFilter, Filter
  <2>4. QED
    BY <2>1, <2>2, <2>3
<1>8. QED
  BY <1>3, <1>4, <1>5, <1>6, <1>7

\* What a statement that commits, and one that does not, makes of the table.
LEMMA WriteFacts ==
    ASSUME TypeOK, Fresh, Write
    PROVE  /\ rows' \in [Ids -> Row] /\ lastId' \in 0..MaxId /\ changes' \in 0..MaxChanges
           /\ UNCHANGED reader
           /\ \/ Committed
              \/ /\ UNCHANGED history
                 /\ \A i \in Ids : /\ rows'[i].state = "live" <=> rows[i].state = "live"
                                   /\ rows[i].state = "live" => rows'[i].data = rows[i].data
<1> USE DEF TypeOK, Row
<1>1. CASE \E w \in Writers : Insert(w)
  <2>1. PICK w \in Writers : Insert(w)
    BY <1>1
  <2>2. PICK data \in Samples :
            rows' = [rows EXCEPT ![lastId + 1] = [state |-> "open", writer |-> w, data |-> data]]
    BY <2>1 DEF Insert
  <2>3. lastId' \in 0..MaxId /\ data \in Contents
    BY <2>1, <2>2, SizesAssumption, RequestsAssumption DEF Insert
  <2>4. rows' \in [Ids -> Row]
    BY <2>2, <2>3
  <2>5. \A i \in Ids : /\ rows'[i].state = "live" <=> rows[i].state = "live"
                       /\ rows[i].state = "live" => rows'[i].data = rows[i].data
    <3>1. lastId + 1 \in Ids => rows[lastId + 1].state = "free"
      BY DEF Fresh
    <3>2. \A i \in Ids : i # lastId + 1 => rows'[i] = rows[i]
      BY <2>2
    <3>3. lastId + 1 \in Ids => rows'[lastId + 1].state = "open"
      BY <2>2
    <3>4. QED
      BY <3>1, <3>2, <3>3
  <2>6. QED
    BY <2>1, <2>3, <2>4, <2>5 DEF Insert
<1>2. ASSUME NEW w \in Writers, NEW state \in {"live", "gone"}, Settle(w, state)
      PROVE  rows' \in [Ids -> Row]
  BY <1>2 DEF Settle
<1>3. CASE \E w \in Writers : Commit(w)
  BY <1>2, <1>3 DEF Commit
<1>4. CASE \E w \in Writers : Rollback(w)
  <2>1. PICK w \in Writers : Rollback(w)
    BY <1>4
  <2>2. \A i \in Ids : /\ rows'[i].state = "live" <=> rows[i].state = "live"
                       /\ rows[i].state = "live" => rows'[i] = rows[i]
    BY <2>1 DEF Rollback, Settle
  <2>3. QED
    BY <1>2, <2>1, <2>2 DEF Rollback
<1>5. CASE \E i \in Ids : Rebuild(i)
  <2>1. PICK i \in Ids : Rebuild(i)
    BY <1>5
  <2>2. PICK data \in Samples : rows' = [rows EXCEPT ![i].data = data]
    BY <2>1 DEF Rebuild
  <2>3. data \in Contents
    BY <2>2, RequestsAssumption
  <2>4. rows' \in [Ids -> Row]
    BY <2>2, <2>3
  <2>5. QED
    BY <2>1, <2>4, SizesAssumption DEF Rebuild
<1>6. CASE \E i \in Ids : Delete(i)
  <2>1. PICK i \in Ids : Delete(i)
    BY <1>6
  <2>2. rows' \in [Ids -> Row]
    BY <2>1, NoQueryType DEF Delete
  <2>3. QED
    BY <2>1, <2>2, SizesAssumption DEF Delete
<1>7. QED
  BY <1>1, <1>3, <1>4, <1>5, <1>6 DEF Write

LEMMA InitType == Init => TypeOK /\ Fresh
<1>1. ASSUME Init
      PROVE  TypeOK
  <2>1. [i \in Ids |-> [state |-> "free", writer |-> None, data |-> Nothing]] \in [Ids -> Row]
    BY NoQueryType DEF Row
  <2>2. <<>> \in Seq(Given)
    OBVIOUS
  <2>3. query \in Query /\ cursor \in 0..(MaxId + 1) /\ lastId \in 0..MaxId /\ changes \in 0..MaxChanges
    BY <1>1, NoQueryType, SizesAssumption DEF Init
  <2>4. QED
    BY <1>1, <2>1, <2>2, <2>3 DEF Init, TypeOK
<1>2. ASSUME Init
      PROVE  Fresh
  BY <1>2 DEF Init, Fresh
<1>3. QED
  BY <1>1, <1>2

LEMMA FreshStep == TypeOK /\ Fresh /\ [Next]_vars => Fresh'
<1> SUFFICES ASSUME TypeOK, Fresh, [Next]_vars
             PROVE  Fresh'
  OBVIOUS
<1>1. CASE \E w \in Writers : Insert(w)
  <2>1. PICK w \in Writers : Insert(w)
    BY <1>1
  <2>2. \A i \in Ids : i # lastId + 1 => rows'[i] = rows[i]
    BY <2>1 DEF Insert, TypeOK
  <2>3. lastId' = lastId + 1 /\ lastId \in Nat
    BY <2>1, SizesAssumption DEF Insert, TypeOK
  <2>4. QED
    BY <2>2, <2>3 DEF Fresh, Ids
<1>2. CASE \E w \in Writers : Commit(w) \/ Rollback(w)
  <2>1. PICK w \in Writers : Commit(w) \/ Rollback(w)
    BY <1>2
  <2>2. lastId' = lastId /\ \A i \in Ids : rows[i].state = "free" => rows'[i] = rows[i]
    BY <2>1 DEF Commit, Rollback, Settle
  <2>3. QED
    BY <2>2 DEF Fresh
<1>3. CASE \E i \in Ids : Rebuild(i) \/ Delete(i)
  <2>1. PICK i \in Ids : Rebuild(i) \/ Delete(i)
    BY <1>3
  <2>2. lastId' = lastId /\ rows[i].state = "live" /\ \A j \in Ids : j # i => rows'[j] = rows[j]
    BY <2>1 DEF Rebuild, Delete, TypeOK
  <2>3. QED
    BY <2>2 DEF Fresh
<1>4. CASE UNCHANGED table
  BY <1>4 DEF table, Fresh
<1>5. QED
  BY <1>1, <1>2, <1>3, <1>4
     DEF Next, Write, Read, vars, ListLeads, ListJobs, StreamExport, CliExport, GetLead, Begin,
         Count, Fetch, Yield, Break

LEMMA TypeStep == TypeOK /\ Fresh /\ [Next]_vars => TypeOK'
<1> SUFFICES ASSUME TypeOK, Fresh, [Next]_vars
             PROVE  TypeOK'
  OBVIOUS
<1>1. CASE Write
  <2>1. rows' \in [Ids -> Row] /\ lastId' \in 0..MaxId /\ changes' \in 0..MaxChanges /\ UNCHANGED reader
    BY <1>1, WriteFacts
  <2>2. stays' \in SUBSET Ids /\ versions' \in SUBSET Given /\ quiet' \in BOOLEAN
    <3>1. CASE Committed
      <4>1. \A i \in Ids : [id |-> i, data |-> rows'[i].data] \in Given
        BY <2>1 DEF Given, Row
      <4>2. {[id |-> i, data |-> rows'[i].data] : i \in {j \in Ids : rows'[j].state = "live"}} \subseteq Given
        BY <4>1
      <4>3. QED
        BY <3>1, <4>2 DEF Committed, TypeOK
    <3>2. CASE UNCHANGED history
      BY <3>2 DEF history, TypeOK
    <3>3. QED
      BY <1>1, <3>1, <3>2, WriteFacts
  <2>3. QED
    BY <2>1, <2>2 DEF TypeOK, reader
<1>2. CASE ListLeads \/ ListJobs \/ StreamExport \/ CliExport \/ GetLead
  BY <1>2, BeginFacts, BeginType
<1>3. CASE Count
  <2>1. Cardinality(Hits(query.filter)) \in Nat
    BY HitsFinite, FS_CardinalityType
  <2>2. QED
    BY <1>3, <2>1 DEF Count, TypeOK, table, history
<1>4. CASE Fetch
  <2>1. \A B \in SUBSET Ids : Fetched(B) \subseteq Given
    BY DEF Fetched, Given, TypeOK, Row
  <2>2. PICK B \in FirstOf({i \in Hits(query.filter) : Before(query.kind, cursor, i)},
                           query.kind, query.limit) :
            batch' = Fetched(B) /\ full' = (Cardinality(B) = query.limit)
    BY <1>4 DEF Fetch
  <2>3. B \subseteq Ids
    BY <2>2 DEF FirstOf, Hits
  <2>4. full' \in BOOLEAN
    BY <2>2
  <2>5. QED
    BY <1>4, <2>1, <2>2, <2>3, <2>4 DEF Fetch, TypeOK, table, history
<1>5. CASE Yield
  <2>1. PICK row \in batch :
            out' = Append(out, row) /\ cursor' = row.id /\ batch' = batch \ {row}
            /\ pc' = AfterRow(batch \ {row})
    BY <1>5 DEF Yield
  <2>2. row \in Given /\ row.id \in 0..(MaxId + 1)
    BY SizesAssumption DEF TypeOK, Given, Ids
  <2>3. QED
    BY <1>5, <2>1, <2>2 DEF Yield, TypeOK, AfterRow, table, history
<1>6. CASE Break
  BY <1>6 DEF Break, TypeOK, table, history
<1>7. CASE UNCHANGED vars
  BY <1>7 DEF vars, table, reader, history, TypeOK
<1>8. QED
  BY <1>1, <1>2, <1>3, <1>4, <1>5, <1>6, <1>7 DEF Next, Read

\* Readers, writers and history keep their types.
THEOREM TypeCorrect == Spec => []TypeOK
BY InitType, TypeStep, FreshStep, PTL DEF Spec

-----------------------------------------------------------------------------
(***************************************************************************)
(* The steps of the reader, in the words of the invariant.                 *)
(***************************************************************************)
\* What Fetch takes from the table.
LEMMA FetchFacts ==
    ASSUME TypeOK, Fetch
    PROVE  \E B \in SUBSET Hits(query.filter) :
               LET S == {i \in Hits(query.filter) : Before(query.kind, cursor, i)}
               IN  /\ B \subseteq S /\ batch' = Fetched(B)
                   /\ ~full' => B = S
                   /\ full' /\ query.limit = 1 => \E i \in B : B = {i}
                   /\ B = {} => S = {}
                   /\ \A i \in B, j \in S \ B : Before(query.kind, i, j)
                   /\ pc' = IF query.kind = "detail" /\ query.start + 1 \notin B THEN "missing"
                            ELSE IF B = {} THEN "done" ELSE "yielding"
<1> DEFINE S == {i \in Hits(query.filter) : Before(query.kind, cursor, i)}
<1>1. PICK B \in FirstOf(S, query.kind, query.limit) :
          /\ batch' = Fetched(B)
          /\ full' = (Cardinality(B) = query.limit)
          /\ pc' = IF query.kind = "detail" /\ query.start + 1 \notin B THEN "missing"
                   ELSE IF B = {} THEN "done" ELSE "yielding"
  BY DEF Fetch
<1>2. IsFiniteSet(S) /\ S \subseteq Hits(query.filter)
  BY HitsFinite
<1>3. query.limit \in Nat \ {0}
  BY DEF TypeOK, Query
<1>4. /\ B \subseteq S /\ IsFiniteSet(B) /\ (Cardinality(B) # query.limit => B = S)
      /\ (B = {} => S = {}) /\ \A i \in B, j \in S \ B : Before(query.kind, i, j)
  BY <1>1, <1>2, <1>3, FirstOfFacts
<1>5. full' /\ query.limit = 1 => \E i \in B : B = {i}
  BY <1>1, <1>4, FS_Singleton
<1>6. ~full' => B = S
  BY <1>1, <1>4
<1>7. B \in SUBSET Hits(query.filter)
  BY <1>2, <1>4
<1>8. QED
  BY <1>1, <1>4, <1>5, <1>6, <1>7

\* The row that Yield gives.
LEMMA YieldFacts ==
    ASSUME TypeOK, Yield
    PROVE  \E row \in batch :
               /\ row \in Given /\ out' = Append(out, row) /\ cursor' = row.id
               /\ Len(out') = Len(out) + 1 /\ out'[Len(out) + 1] = row
               /\ \A k \in 1..Len(out) : out'[k] = out[k]
               /\ \A other \in batch : other = row \/ Before(query.kind, row.id, other.id)
               /\ batch' = batch \ {row}
               /\ pc' = AfterRow(batch \ {row})
               /\ OutIds' = OutIds \cup {row.id}
<1>1. PICK row \in batch :
          /\ \A other \in batch \ {row} : Before(query.kind, row.id, other.id)
          /\ out' = Append(out, row) /\ cursor' = row.id
          /\ batch' = batch \ {row}
          /\ pc' = AfterRow(batch \ {row})
  BY DEF Yield
<1>2. row \in Given /\ out \in Seq(Given)
  BY DEF TypeOK
<1>3. /\ Len(out') = Len(out) + 1 /\ out'[Len(out) + 1] = row /\ Len(out) \in Nat
      /\ \A k \in 1..Len(out) : out'[k] = out[k]
  BY <1>1, <1>2
<1>4. OutIds' = OutIds \cup {row.id}
  <2>1. 1..Len(out') = 1..Len(out) \cup {Len(out) + 1}
    BY <1>3
  <2>2. QED
    BY <2>1, <1>3 DEF OutIds
<1>5. QED
  BY <1>1, <1>2, <1>3, <1>4

\* The order of a page is kept over what is added to it.
LEMMA PageStep ==
    ASSUME TypeOK, Fresh, PageInv, [Next]_vars
    PROVE  PageInv'
<1> USE DEF PageInv, GivenInOrder
<1>1. CASE Write
  <2>1. UNCHANGED reader
    BY <1>1, WriteFacts
  <2>2. stays' \subseteq stays
    BY <1>1, WriteFacts DEF Committed, history
  <2>3. QED
    BY <2>1, <2>2 DEF reader
<1>2. CASE ListLeads \/ ListJobs \/ StreamExport \/ CliExport \/ GetLead
  <2>1. pc = "idle" /\ out' = out /\ batch' = batch /\ pc' \in {"counting", "paging"}
    BY <1>2, BeginFacts DEF Begin
  <2>2. QED
    BY <2>1
<1>3. CASE Count
  BY <1>3 DEF Count, history
<1>4. CASE Fetch
  <2>1. PICK B \in SUBSET Hits(query.filter) :
            /\ batch' = Fetched(B)
            /\ \A i \in B : Before(query.kind, cursor, i)
            /\ pc' = IF query.kind = "detail" /\ query.start + 1 \notin B THEN "missing"
                     ELSE IF B = {} THEN "done" ELSE "yielding"
    BY <1>4, FetchFacts
  <2>2. \A b \in batch' : Before(query.kind, cursor, b.id)
    BY <2>1 DEF Fetched
  <2>3. pc' = "done" => batch' = {}
    BY <2>1 DEF Fetched
  <2>4. pc' \in {"done", "missing", "yielding"}
    BY <2>1
  <2>5. QED
    BY <1>4, <2>2, <2>3, <2>4 DEF Fetch
<1>5. CASE Yield
  <2>1. PICK row \in batch :
            /\ row \in Given /\ cursor' = row.id
            /\ Len(out') = Len(out) + 1 /\ out'[Len(out) + 1] = row
            /\ \A k \in 1..Len(out) : out'[k] = out[k]
            /\ \A other \in batch : other = row \/ Before(query.kind, row.id, other.id)
            /\ batch' = batch \ {row}
            /\ pc' = AfterRow(batch \ {row})
    BY <1>5, YieldFacts
  <2>2. query' = query /\ cursor \in Int /\ row.id \in Int /\ Len(out) \in Nat
        /\ \A k \in 1..Len(out) : out[k].id \in Int
    <3>1. \A given \in Given : given.id \in Int
      BY DEF Given, Ids
    <3>2. \A k \in 1..Len(out) : out[k] \in Given
      BY DEF TypeOK
    <3>3. query' = query /\ cursor \in Int /\ Len(out) \in Nat
      BY <1>5, SizesAssumption DEF Yield, TypeOK
    <3>4. QED
      BY <2>1, <3>1, <3>2, <3>3
  <2>3. Before(query.kind, cursor, row.id)
    BY <2>1
  <2>4. \A k \in 1..Len(out) : Before(query.kind, out[k].id, row.id)
    BY <2>2, <2>3, BeforeOrder
  <2>0. \A k \in 1..Len(out') : k = Len(out) + 1 \/ k \in 1..Len(out)
    <3>1. Len(out') = Len(out) + 1 /\ Len(out) \in Nat
      BY <2>1, <2>2
    <3> HIDE DEF PageInv, GivenInOrder
    <3>2. ASSUME NEW n \in Nat, NEW k \in 1..(n + 1)
          PROVE  k = n + 1 \/ k \in 1..n
      BY SMT
    <3>3. QED
      BY ONLY <3>1, <3>2
  <2>5. \A k \in 1..Len(out') : ~Before(query'.kind, cursor', out'[k].id)
    <3> SUFFICES ASSUME NEW k \in 1..Len(out')
                 PROVE  ~Before(query.kind, row.id, out'[k].id)
      BY <2>1, <2>2
    <3>1. CASE k = Len(out) + 1
      BY <3>1, <2>1, <2>2, BeforeOrder
    <3>2. CASE k \in 1..Len(out)
      BY <3>2, <2>1, <2>2, <2>4, BeforeOrder
    <3>3. QED
      BY <3>1, <3>2, <2>1, <2>2
  <2>6. \A j, k \in 1..Len(out') : j < k => Before(query'.kind, out'[j].id, out'[k].id)
    <3> SUFFICES ASSUME NEW j \in 1..Len(out'), NEW k \in 1..Len(out'), j < k
                 PROVE  Before(query.kind, out'[j].id, out'[k].id)
      BY <2>2
    <3>1. CASE k = Len(out) + 1
      BY <3>1, <2>1, <2>2, <2>4
    <3>2. CASE k \in 1..Len(out)
      <4>1. j \in 1..Len(out) /\ out'[j] = out[j] /\ out'[k] = out[k]
        BY <3>2, <2>1, <2>2
      <4>2. QED
        BY <3>2, <4>1
    <3>3. QED
      BY <3>1, <3>2, <2>0
  <2>7. \A b \in batch' : Before(query'.kind, cursor', b.id)
    BY <2>1, <2>2
  <2>8. pc' \in {"idle", "counting", "paging", "done"} => batch' = {}
    BY <2>1 DEF AfterRow
  <2>9. pc' # "idle"
    BY <2>1 DEF AfterRow
  <2>10. QED
    BY <2>5, <2>6, <2>7, <2>8, <2>9
<1>6. CASE Break
  BY <1>6 DEF Break, history
<1>7. CASE UNCHANGED vars
  BY <1>7 DEF vars, reader, history
<1>8. QED
  BY <1>1, <1>2, <1>3, <1>4, <1>5, <1>6, <1>7 DEF Next, Read

\* No row is given twice or out of order.
THEOREM RowsInOrder == Spec => []GivenInOrder
<1>1. Init => PageInv
  BY DEF Init, PageInv, GivenInOrder
<1>2. PageInv => GivenInOrder
  BY DEF PageInv
<1>3. QED
  BY <1>1, <1>2, InitType, TypeStep, FreshStep, PageStep, PTL DEF Spec

-----------------------------------------------------------------------------
(***************************************************************************)
(* Nothing is missed.                                                      *)
(***************************************************************************)
LEMMA StayFetch ==
    ASSUME TypeOK, PageInv, StayInv, Fetch
    PROVE  StayInv'
<1>1. PICK B \in SUBSET Hits(query.filter) :
          LET S == {i \in Hits(query.filter) : Before(query.kind, cursor, i)}
          IN  /\ B \subseteq S /\ batch' = Fetched(B)
              /\ ~full' => B = S
              /\ full' /\ query.limit = 1 => \E i \in B : B = {i}
              /\ B = {} => S = {}
              /\ \A i \in B, j \in S \ B : Before(query.kind, i, j)
              /\ pc' = IF query.kind = "detail" /\ query.start + 1 \notin B THEN "missing"
                       ELSE IF B = {} THEN "done" ELSE "yielding"
  BY FetchFacts
<1>2. UNCHANGED <<rows, query, cursor, out, stays>> /\ pc = "paging"
  BY DEF Fetch, table, history
<1>3. BatchIds' = B
  <2>1. \A b \in batch' : b.id \in B
    BY <1>1 DEF Fetched
  <2>2. \A i \in B : [id |-> i, data |-> rows[i].data] \in batch'
    BY <1>1 DEF Fetched
  <2>3. \A i \in B : i \in BatchIds'
    <3>1. TAKE i \in B
    <3>2. [id |-> i, data |-> rows[i].data].id = i
      OBVIOUS
    <3>3. QED
      BY <2>2, <3>2 DEF BatchIds
  <2>4. QED
    BY <2>1, <2>3 DEF BatchIds
<1>4. \A i \in stays : i \in Ids /\ i \in Hits(query.filter)
  BY DEF StayInv, TypeOK, Hits
<1>5. \A i \in stays : i \in OutIds \/ Before(query.kind, cursor, i)
  BY <1>2 DEF StayInv
<1>6. ASSUME NEW i \in stays
      PROVE  \/ i \in OutIds \cup B
             \/ full' /\ \A b \in B : Before(query.kind, b, i)
  BY <1>1, <1>4, <1>5
<1>7. B = {} => stays \subseteq OutIds
  BY <1>1, <1>4, <1>5
<1>8. ASSUME query.kind = "detail"
      PROVE  /\ \A i \in stays : i \in OutIds \cup B
             /\ query.start + 1 \notin B => query.start + 1 \notin stays
  <2>1. stays \subseteq {query.start + 1} /\ query.limit = 1 /\ cursor = query.start
    BY <1>2, <1>8 DEF StayInv
  <2>2. query.start \in Int /\ Hits(query.filter) \subseteq Int
    BY DEF TypeOK, Query, Hits, Ids
  <2>3. ASSUME query.start + 1 \in stays
        PROVE  query.start + 1 \in B
    <3>1. query.start + 1 \in Hits(query.filter) /\ Before(query.kind, cursor, query.start + 1)
      BY <1>4, <1>8, <2>1, <2>2, <2>3 DEF Before
    <3>2. CASE ~full'
      BY <3>1, <3>2, <1>1
    <3>3. CASE full'
      <4>1. PICK j \in B : B = {j}
        BY <3>3, <1>1, <2>1
      <4>2. Before(query.kind, cursor, j) /\ j \in Int
        BY <4>1, <1>1, <2>2
      <4>3. query.start + 1 # j => Before(query.kind, j, query.start + 1)
        BY <4>1, <3>1, <1>1
      <4>4. QED
        BY <4>1, <4>2, <4>3, <1>8, <2>1, <2>2 DEF Before
    <3>4. QED
      BY <3>2, <3>3
  <2>4. QED
    BY <2>1, <2>3
<1>9. OutIds' = OutIds
  BY <1>2 DEF OutIds
<1>10. pc' = "yielding" => \A i \in stays' :
           \/ i \in OutIds' \cup BatchIds'
           \/ full' /\ query'.kind # "detail" /\ \A b \in batch' : Before(query'.kind, b.id, i)
  <2>1. \A b \in batch' : b.id \in B
    BY <1>1 DEF Fetched
  <2>2. QED
    BY <1>2, <1>3, <1>6, <1>8, <1>9, <2>1
<1>11. NothingMissed'
  <2>1. pc' = "done" => B = {}
    BY <1>1
  <2>2. pc' = "missing" => query.kind = "detail" /\ query.start + 1 \notin B
    BY <1>1
  <2>3. QED
    BY <2>1, <2>2, <1>2, <1>7, <1>8, <1>9 DEF NothingMissed, OutIds
<1>12. pc' \notin {"counting", "paging"}
  BY <1>1
<1>13. QED
  BY <1>2, <1>10, <1>11, <1>12 DEF StayInv

LEMMA StayYield ==
    ASSUME TypeOK, PageInv, StayInv, Yield
    PROVE  StayInv'
<1>1. PICK row \in batch :
          /\ cursor' = row.id
          /\ \A other \in batch : other = row \/ Before(query.kind, row.id, other.id)
          /\ batch' = batch \ {row}
          /\ pc' = AfterRow(batch \ {row})
          /\ OutIds' = OutIds \cup {row.id}
  BY YieldFacts
<1>2. UNCHANGED <<rows, query, stays, full>> /\ pc = "yielding"
  BY DEF Yield, table, history
<1>3. \A i \in stays :
          \/ i \in OutIds \cup BatchIds
          \/ full /\ query.kind # "detail" /\ \A b \in batch : Before(query.kind, b.id, i)
  BY <1>2 DEF StayInv
<1>4. BatchIds \subseteq BatchIds' \cup {row.id}
  BY <1>1 DEF BatchIds
<1>5. \A i \in stays :
          \/ i \in OutIds' \cup BatchIds'
          \/ full /\ query.kind # "detail" /\ \A b \in batch : Before(query.kind, b.id, i)
  BY <1>1, <1>3, <1>4
<1>6. CASE batch' # {}
  <2>1. pc' = "yielding"
    BY <1>1, <1>6 DEF AfterRow
  <2>2. QED
    BY <2>1, <1>1, <1>2, <1>5 DEF StayInv, NothingMissed
<1>7. CASE batch' = {}
  <2>1. BatchIds' = {}
    BY <1>7 DEF BatchIds
  <2>2. \A i \in stays : \/ i \in OutIds'
                         \/ full /\ query.kind # "detail" /\ Before(query.kind, cursor', i)
    BY <2>1, <1>1, <1>5
  <2>3. pc' = IF full /\ query.kind # "detail" THEN "paging" ELSE "done"
    BY <1>1, <1>7 DEF AfterRow
  <2>4. NothingMissed'
    BY <2>2, <2>3, <1>2 DEF NothingMissed, OutIds
  <2>5. QED
    BY <2>2, <2>3, <2>4, <1>2 DEF StayInv
<1>8. QED
  BY <1>6, <1>7

LEMMA StayStep ==
    ASSUME TypeOK, Fresh, PageInv, StayInv, [Next]_vars
    PROVE  StayInv'
<1>1. CASE Write /\ pc \notin Ended
  <2>1. UNCHANGED reader
    BY <1>1, WriteFacts
  <2>2. \A i \in stays' : i \in stays /\ rows'[i].state = "live" /\ Matches(query.filter, rows'[i].data)
    BY <1>1, WriteFacts DEF Committed, history, StayInv, TypeOK
  <2>3. OutIds' = OutIds /\ BatchIds' = BatchIds
    BY <2>1 DEF reader, OutIds, BatchIds
  <2>4. QED
    BY <1>1, <2>1, <2>2, <2>3 DEF StayInv, NothingMissed, reader, Ended
<1>2. CASE ListLeads \/ ListJobs \/ StreamExport \/ CliExport \/ GetLead
  <2>1. PICK kind \in {"export", "cli", "leads", "jobs", "detail"}, filter \in Filter,
             limit \in Nat \ {0}, start \in 0..(MaxId + 1) :
            Begin(kind, filter, limit, start) /\ (kind = "detail" => limit = 1)
    BY <1>2, BeginFacts
  <2>2. /\ query'.kind = kind /\ query'.limit = limit /\ query'.start = start /\ query'.filter = filter
        /\ cursor' = start /\ rows' = rows /\ pc' \in {"counting", "paging"}
    BY <2>1 DEF Begin, table
  <2>3. \A i \in stays' : /\ i \in Hits(filter) /\ Before(kind, start, i)
                          /\ kind = "detail" => i = start + 1
    BY <2>1 DEF Begin
  <2>4. QED
    BY <2>1, <2>2, <2>3 DEF StayInv, NothingMissed, Hits
<1>3. CASE Count
  <2>1. UNCHANGED <<rows, query, cursor, batch, full, out, stays>> /\ pc = "counting" /\ pc' = "paging"
    BY <1>3 DEF Count, history, table
  <2>2. OutIds' = OutIds
    BY <2>1 DEF OutIds
  <2>3. QED
    BY <2>1, <2>2 DEF StayInv, NothingMissed
<1>4. CASE Break
  BY <1>4 DEF Break, history, table, StayInv, NothingMissed, OutIds, BatchIds
<1>5. CASE UNCHANGED vars
  BY <1>5 DEF vars, reader, history, table, StayInv, NothingMissed, OutIds, BatchIds
<1>6. QED
  BY <1>1, <1>2, <1>3, <1>4, <1>5, StayFetch, StayYield DEF Next, Read, Ended

\* What is there from beginning to end of a read is in it, however many pages
\* it takes and whatever is committed in between.
THEOREM ReadsMissNothing == Spec => []NothingMissed
<1>1. Init => PageInv /\ StayInv
  BY DEF Init, PageInv, GivenInOrder, StayInv, NothingMissed, NoQuery
<1>2. StayInv => NothingMissed
  BY DEF StayInv
<1>3. QED
  BY <1>1, <1>2, InitType, TypeStep, FreshStep, PageStep, StayStep, PTL DEF Spec
-----------------------------------------------------------------------------
(***************************************************************************)
(* Every row is given as some commit left it.                              *)
(***************************************************************************)
LEMMA VersionFetch ==
    ASSUME TypeOK, PageInv, VersionInv, Fetch
    PROVE  VersionInv'
<1>1. PICK B \in SUBSET Hits(query.filter) : batch' = Fetched(B)
  BY FetchFacts
<1>2. UNCHANGED <<rows, query, out, versions>> /\ pc = "paging"
  BY DEF Fetch, table, history
<1>3. ASSUME NEW b \in batch'
      PROVE  b \in versions /\ Matches(query.filter, b.data)
  <2>1. PICK i \in B : b = [id |-> i, data |-> rows[i].data]
    BY <1>1, <1>3 DEF Fetched
  <2>2. i \in Ids /\ rows[i].state = "live" /\ Matches(query.filter, rows[i].data)
    BY <2>1, <1>1 DEF Hits
  <2>3. [id |-> i, data |-> rows[i].data] \in versions
    BY <2>2, <1>2 DEF VersionInv, Ended
  <2>4. QED
    BY <2>1, <2>2, <2>3
<1>4. \A i \in Ids : rows[i].state = "live" => [id |-> i, data |-> rows[i].data] \in versions
  BY <1>2 DEF VersionInv, Ended
<1>5. OnlyWhatWasThere'
  BY <1>2 DEF VersionInv, OnlyWhatWasThere
<1>6. QED
  BY <1>2, <1>3, <1>4, <1>5 DEF VersionInv

LEMMA VersionYield ==
    ASSUME TypeOK, PageInv, VersionInv, Yield
    PROVE  VersionInv'
<1>1. PICK row \in batch :
          /\ Len(out') = Len(out) + 1 /\ out'[Len(out) + 1] = row
          /\ \A k \in 1..Len(out) : out'[k] = out[k]
          /\ batch' = batch \ {row}
  BY YieldFacts
<1>2. UNCHANGED <<rows, query, versions>> /\ pc = "yielding"
  BY DEF Yield, table, history
<1>3. row \in versions /\ Matches(query.filter, row.data)
  BY <1>1 DEF VersionInv
<1>4. Len(out) \in Nat
  BY DEF TypeOK
<1>5. ASSUME NEW k \in 1..(Len(out) + 1)
      PROVE  k \in 1..Len(out) \/ k = Len(out) + 1
  BY <1>4, <1>5
<1>6. OnlyWhatWasThere'
  BY <1>1, <1>2, <1>3, <1>5 DEF VersionInv, OnlyWhatWasThere
<1>7. \A i \in Ids : rows[i].state = "live" => [id |-> i, data |-> rows[i].data] \in versions
  BY <1>2 DEF VersionInv, Ended
<1>8. \A b \in batch' : b \in versions /\ Matches(query.filter, b.data)
  BY <1>1 DEF VersionInv
<1>9. QED
  BY <1>2, <1>6, <1>7, <1>8 DEF VersionInv

LEMMA VersionStep ==
    ASSUME TypeOK, Fresh, PageInv, VersionInv, [Next]_vars
    PROVE  VersionInv'
<1>1. CASE Write /\ pc \notin Ended
  <2>1. UNCHANGED <<pc, query, batch, out>>
    BY <1>1, WriteFacts DEF reader
  <2>2. CASE Committed
    <3>1. versions \subseteq versions'
      BY <2>2 DEF Committed
    <3>2. \A i \in Ids : rows'[i].state = "live" => [id |-> i, data |-> rows'[i].data] \in versions'
      BY <2>2 DEF Committed
    <3>3. QED
      BY <2>1, <3>1, <3>2 DEF VersionInv, OnlyWhatWasThere
  <2>3. CASE /\ UNCHANGED history
             /\ \A i \in Ids : /\ rows'[i].state = "live" <=> rows[i].state = "live"
                               /\ rows[i].state = "live" => rows'[i].data = rows[i].data
    BY <2>1, <2>3 DEF history, VersionInv, OnlyWhatWasThere
  <2>4. QED
    BY <1>1, <2>2, <2>3, WriteFacts
<1>2. CASE ListLeads \/ ListJobs \/ StreamExport \/ CliExport \/ GetLead
  <2>1. PICK kind, filter, limit, start : Begin(kind, filter, limit, start)
    BY <1>2, BeginFacts
  <2>2. UNCHANGED <<rows, batch, out>> /\ batch = {} /\ out = <<>>
    BY <2>1 DEF Begin, table, PageInv
  <2>3. \A i \in Ids : rows[i].state = "live" => [id |-> i, data |-> rows[i].data] \in versions'
    BY <2>1 DEF Begin
  <2>4. QED
    BY <2>2, <2>3 DEF VersionInv, OnlyWhatWasThere
<1>3. CASE Count
  BY <1>3 DEF Count, history, table, VersionInv, OnlyWhatWasThere, Ended
<1>4. CASE Break
  BY <1>4 DEF Break, history, table, VersionInv, OnlyWhatWasThere, Ended
<1>5. CASE UNCHANGED vars
  BY <1>5 DEF vars, reader, history, table, VersionInv, OnlyWhatWasThere
<1>6. QED
  BY <1>1, <1>2, <1>3, <1>4, <1>5, VersionFetch, VersionYield DEF Next, Read, Ended

\* What a read gives was committed while it ran or before, as one commit left
\* it, and matches the filter.
THEOREM NothingMadeUp == Spec => []OnlyWhatWasThere
<1>1. Init => PageInv /\ VersionInv
  BY DEF Init, PageInv, GivenInOrder, VersionInv, OnlyWhatWasThere
<1>2. VersionInv => OnlyWhatWasThere
  BY DEF VersionInv
<1>3. QED
  BY <1>1, <1>2, InitType, TypeStep, FreshStep, PageStep, VersionStep, PTL DEF Spec

-----------------------------------------------------------------------------
(***************************************************************************)
(* The number the command line reports.                                    *)
(***************************************************************************)
LEMMA CountStep ==
    ASSUME TypeOK, Fresh, PageInv, CountInv, [Next]_vars
    PROVE  CountInv'
<1>1. CASE Write /\ pc \notin Ended
  <2>1. UNCHANGED <<pc, query, batch, out, total>>
    BY <1>1, WriteFacts DEF reader
  <2>2. CASE Committed
    BY <2>2 DEF Committed, CountInv
  <2>3. CASE /\ UNCHANGED history
             /\ \A i \in Ids : /\ rows'[i].state = "live" <=> rows[i].state = "live"
                               /\ rows[i].state = "live" => rows'[i].data = rows[i].data
    <3>1. Hits(query.filter)' = Hits(query.filter)
      BY <2>1, <2>3 DEF Hits
    <3>2. OutIds' = OutIds /\ BatchIds' = BatchIds
      BY <2>1 DEF OutIds, BatchIds
    <3>3. UNCHANGED <<stays, quiet>>
      BY <2>3 DEF history
    <3>4. QED
      BY <2>1, <3>1, <3>2, <3>3 DEF CountInv
  <2>4. QED
    BY <1>1, <2>2, <2>3, WriteFacts
<1>2. CASE ListLeads \/ ListJobs \/ StreamExport \/ CliExport \/ GetLead
  <2>1. PICK kind, filter, limit, start : /\ Begin(kind, filter, limit, start)
                                          /\ kind = "cli" => start = Start("cli")
    BY <1>2, BeginFacts
  <2>2. UNCHANGED <<rows, batch, out>> /\ batch = {} /\ out = <<>>
    BY <2>1 DEF Begin, table, PageInv
  <2>3. query'.kind = kind /\ query'.filter = filter /\ (kind = "cli" => pc' = "counting")
    BY <2>1 DEF Begin
  <2>4. Hits(query.filter)' = Hits(filter)
    BY <2>2, <2>3 DEF Hits
  <2>5. kind = "cli" => stays' = Hits(filter)
    <3>1. \A i \in Ids : Before("cli", 0, i)
      BY DEF Before, Ids
    <3>2. kind = "cli" => stays' = {i \in Hits(filter) : Before("cli", 0, i)}
      BY <2>1 DEF Begin, Start
    <3>3. QED
      BY <3>1, <3>2 DEF Hits
  <2>6. OutIds' = {} /\ BatchIds' = {}
    BY <2>2 DEF OutIds, BatchIds
  <2>7. QED
    BY <2>3, <2>4, <2>5, <2>6 DEF CountInv
<1>3. CASE Count
  <2>1. UNCHANGED <<rows, query, batch, out, stays, quiet>>
    BY <1>3 DEF Count, table, history
  <2>2. Hits(query.filter)' = Hits(query.filter) /\ OutIds' = OutIds /\ BatchIds' = BatchIds
    BY <2>1 DEF Hits, OutIds, BatchIds
  <2>3. total' = Cardinality(Hits(query.filter))
    BY <1>3 DEF Count
  <2>4. QED
    BY <2>1, <2>2, <2>3 DEF CountInv
<1>4. CASE Fetch
  <2>1. PICK B \in SUBSET Hits(query.filter) : batch' = Fetched(B)
    BY <1>4, FetchFacts
  <2>2. UNCHANGED <<rows, query, out, stays, quiet, total>> /\ pc = "paging"
    BY <1>4 DEF Fetch, table, history
  <2>3. Hits(query.filter)' = Hits(query.filter) /\ OutIds' = OutIds
    BY <2>2 DEF Hits, OutIds
  <2>4. BatchIds' \subseteq Hits(query.filter)
    <3>1. \A b \in batch' : b.id \in B
      BY <2>1 DEF Fetched
    <3>2. QED
      BY <2>1, <3>1 DEF BatchIds
  <2>5. QED
    BY <2>2, <2>3, <2>4 DEF CountInv
<1>5. CASE Yield
  <2>1. PICK row \in batch : batch' = batch \ {row} /\ OutIds' = OutIds \cup {row.id}
    BY <1>5, YieldFacts
  <2>2. UNCHANGED <<rows, query, stays, quiet, total>> /\ pc = "yielding"
    BY <1>5 DEF Yield, table, history
  <2>3. Hits(query.filter)' = Hits(query.filter)
    BY <2>2 DEF Hits
  <2>4. OutIds' \cup BatchIds' \subseteq OutIds \cup BatchIds
    BY <2>1 DEF BatchIds
  <2>5. QED
    BY <2>2, <2>3, <2>4 DEF CountInv
<1>6. CASE Break
  <2>1. UNCHANGED <<rows, query, batch, out, stays, quiet>> /\ pc' = "broken"
    BY <1>6 DEF Break, table, history
  <2>2. Hits(query.filter)' = Hits(query.filter) /\ OutIds' = OutIds /\ BatchIds' = BatchIds
    BY <2>1 DEF Hits, OutIds, BatchIds
  <2>3. QED
    BY <2>1, <2>2 DEF CountInv
<1>7. CASE UNCHANGED vars
  <2>1. UNCHANGED <<rows, query, batch, out, stays, quiet, total, pc>>
    BY <1>7 DEF vars, reader, table, history
  <2>2. Hits(query.filter)' = Hits(query.filter) /\ OutIds' = OutIds /\ BatchIds' = BatchIds
    BY <2>1 DEF Hits, OutIds, BatchIds
  <2>3. QED
    BY <2>1, <2>2 DEF CountInv
<1>8. QED
  BY <1>1, <1>2, <1>3, <1>4, <1>5, <1>6, <1>7 DEF Next, Read, Ended

\* The ids of what was given are as many as the rows that were given.
LEMMA OutIdsCounted ==
    ASSUME TypeOK, GivenInOrder
    PROVE  Cardinality(OutIds) = Len(out)
<1> DEFINE D == 1..Len(out)
           f == [k \in D |-> out[k].id]
<1>1. Len(out) \in Nat
  BY DEF TypeOK
<1>2. \A k \in D : out[k].id \in Int
  <2>1. \A k \in D : out[k] \in Given
    BY DEF TypeOK
  <2>2. QED
    BY <2>1 DEF Given, Ids
<1>3. ASSUME NEW j \in D, NEW k \in D, j < k
      PROVE  out[j].id # out[k].id
  <2>1. Before(query.kind, out[j].id, out[k].id)
    BY <1>3 DEF GivenInOrder
  <2>2. QED
    BY <1>2, <2>1 DEF Before
<1>4. \A j, k \in D : f[j] = f[k] => j = k
  BY <1>1, <1>3
<1>5. f \in Injection(D, OutIds)
  BY <1>4 DEF Injection, IsInjective, OutIds
<1>6. f \in Surjection(D, OutIds)
  BY <1>5 DEF Surjection, Injection, OutIds
<1>7. ExistsBijection(D, OutIds)
  BY <1>5, <1>6 DEF ExistsBijection, Bijection
<1>8. QED
  BY <1>1, <1>7, FS_CountingElements

\* "Wrote N leads" is right when nothing was committed during the export.
THEOREM CountsWhatItWrites == Spec => []CountExact
<1>1. Init => PageInv /\ StayInv /\ CountInv
  BY DEF Init, PageInv, GivenInOrder, StayInv, NothingMissed, NoQuery, CountInv
<1>2. TypeOK /\ PageInv /\ StayInv /\ CountInv => CountExact
  <2> SUFFICES ASSUME TypeOK, PageInv, StayInv, CountInv,
                      pc = "done", query.kind = "cli", quiet
               PROVE  total = Len(out)
    BY DEF CountExact
  <2>1. stays = Hits(query.filter) /\ OutIds \subseteq Hits(query.filter)
    BY DEF CountInv
  <2>2. stays \subseteq OutIds
    BY DEF StayInv, NothingMissed, OutIds
  <2>3. total = Cardinality(OutIds)
    BY <2>1, <2>2 DEF CountInv
  <2>4. QED
    BY <2>3, OutIdsCounted DEF PageInv
<1>3. QED
  BY <1>1, <1>2, InitType, TypeStep, FreshStep, PageStep, StayStep, CountStep, PTL DEF Spec
=============================================================================
