----------------------------- MODULE LeadStore -----------------------------
(***************************************************************************)
(* The catalogue of leads: the tables source_records, leads, lead_merges   *)
(* and suppressions, what a collection does with each record (_ingest in   *)
(* src/app/pipeline/runner.py), and erasure, suppression and retention.    *)
(*                                                                         *)
(* One collection runs at a time here, and requests come between           *)
(* collections; every action is then a transaction or a part of one that   *)
(* nobody else sees.                                                       *)
(***************************************************************************)
EXTENDS Deduplication

CONSTANTS
    Sources, NoSource,
    Priority,     \* Priority[s]: the configured priority of source s
    Keys,         \* keys of records, (source_id, record_key)
    SourceOf,     \* SourceOf[k]: the source of the record with key k
    Offers,       \* <<key, content>>: what sources may deliver
    OptOuts,      \* <<kind, value>>: contacts suppressed by request
    Limit,        \* candidates a lookup returns at most
    MaxLeads,     \* bound: lead ids handed out
    MaxTime       \* bound: collections

ASSUME SourcesAssumption == NoSource \notin Sources /\ Priority \in [Sources -> Int]
ASSUME KeysAssumption == SourceOf \in [Keys -> Sources]
ASSUME OffersAssumption == Offers \subseteq Keys \X Content
ASSUME OptOutsAssumption == OptOuts \subseteq {"email", "domain"} \X Values
ASSUME LimitAssumption == Limit \in Nat /\ MaxLeads \in Nat /\ MaxTime \in Nat

LeadIds == 1..MaxLeads
NoLead == 0
Suppressible == {"email", "domain"}

VARIABLES
    record,      \* record[k]: the row of source_records with key k
    lead,        \* lead[l]: the row of leads with id l
    link,        \* link[l][k]: the row of lead_merges for the pair, if any
    suppressed,  \* <<kind, value, since>>: rows of suppressions, and when added
    issued,      \* ids handed out so far: [lead, record]
    now,         \* collections begun so far, the clock of collected_at
    collecting,  \* the source being collected
    past,        \* past[k]: leads that record k belonged to and left (history)
    built        \* built[l]: records lead l was last merged from (history)

vars == <<record, lead, link, suppressed, issued, now, collecting, past, built>>

NoRecord == [id |-> 0, content |-> [f \in Fields |-> NoValue], collected |-> 0, lead |-> NoLead]
NoRow == [content |-> [f \in Fields |-> NoValue], firstSeen |-> 0, lastSeen |-> 0]

Stored(k) == record[k].id # 0
Live(l) == lead[l].firstSeen # 0

RecordRow == [id : Nat, content : Content, collected : 0..MaxTime,
              lead : LeadIds \cup {NoLead}]
LeadRow == [content : Content, firstSeen : 0..MaxTime, lastSeen : 0..MaxTime]

TypeOK ==
    /\ record \in [Keys -> RecordRow]
    /\ lead \in [LeadIds -> LeadRow]
    /\ link \in [LeadIds -> [Keys -> {"none", "merged", "review"}]]
    /\ suppressed \subseteq Suppressible \X Values \X (0..MaxTime)
    /\ issued \in [lead : 0..MaxLeads, record : Nat]
    /\ now \in 0..MaxTime
    /\ collecting \in Sources \cup {NoSource}
    /\ past \in [Keys -> SUBSET LeadIds]
    /\ built \in [LeadIds -> SUBSET Keys]

Init ==
    /\ record = [k \in Keys |-> NoRecord]
    /\ lead = [l \in LeadIds |-> NoRow]
    /\ link = [l \in LeadIds |-> [k \in Keys |-> "none"]]
    /\ suppressed = {}
    /\ issued = [lead |-> 0, record |-> 0]
    /\ now = 0
    /\ collecting = NoSource
    /\ past = [k \in Keys |-> {}]
    /\ built = [l \in LeadIds |-> {}]

-----------------------------------------------------------------------------
(***************************************************************************)
(* One record: suppression, lookup, matching.                              *)
(***************************************************************************)
BlocksEmailOnly(c) ==                  \* mutated: domains are not compared
    \E e \in suppressed : e[1] = "email" /\ c.email = e[2]

BlocksDomainOnly(c) ==                 \* mutated: emails are not compared
    \E e \in suppressed : e[1] = "domain" /\ c.domain = e[2]

\* suppressions.blocks compares what is stored, not fingerprints.
Blocks(c) == \E e \in suppressed : c[e[1]] = e[2]

OwnForgotten(k) == NoLead              \* mutated: upsert resets lead_id

\* The lead the record belonged to before this sighting.
Own(k) == record[k].lead

FindCandidatesNoPhone(c) ==            \* mutated: no condition on the phone
    LET hits == {l \in LeadIds : Live(l) /\ Confidence(c, lead[l].content) \notin {0, 90}}
    IN  {l \in hits : Cardinality({m \in hits : m < l}) < Limit}

\* find_candidates: the oldest leads that share a fingerprint.
FindCandidates(c) ==
    LET hits == {l \in LeadIds : Live(l) /\ Confidence(c, lead[l].content) > 0}
    IN  {l \in hits : Cardinality({m \in hits : m < l}) < Limit}

\* _best_match, a set of at most one lead: the oldest of those with the
\* highest confidence, the record's own lead excluded.
BestMatch(k, c) ==
    LET matches == FindCandidates(c) \ {Own(k)}
        conf(l) == Confidence(c, lead[l].content)
    IN  {l \in matches : \A m \in matches :
            conf(m) < conf(l) \/ (conf(m) = conf(l) /\ l <= m)}

IsAuto(l, c) == AutoMerge(Confidence(c, lead[l].content))

LastRecord(k) == IF Stored(k) THEN issued.record ELSE issued.record + 1

RecordId(k) == IF Stored(k) THEN record[k].id ELSE LastRecord(k)

\* The row that upsert leaves for the record, in lead l.
Upserted(k, c, l) ==
    [record EXCEPT ![k] = [id |-> RecordId(k), content |-> c, collected |-> now, lead |-> l]]

Candidate(k, id, c, t) ==
    [id |-> id, priority |-> Priority[SourceOf[k]], collected |-> t, content |-> c]

\* What _remerge merges: the stored records of lead l, with the incoming
\* sighting of k in place of its stored row.
Built(l, k) == {j \in Keys : Stored(j) /\ record[j].lead = l} \cup {k}

Sightings(l, k, c) ==
    {Candidate(j, record[j].id, record[j].content, record[j].collected) : j \in Built(l, k) \ {k}}
        \cup {Candidate(k, RecordId(k), c, now)}

\* _apply on lead l, first seen at time t.
Applied(C, t) ==
    [content   |-> Merge(C),
     firstSeen |-> t,
     lastSeen  |-> IF Latest(C) > t THEN Latest(C) ELSE t]

Rebuild(l, k, c) ==
    /\ lead' = [lead EXCEPT ![l] = Applied(Sightings(l, k, c), lead[l].firstSeen)]
    /\ built' = [built EXCEPT ![l] = Built(l, k)]

\* A match below the auto-merge threshold is recorded for review, unclaimed.
Flagged(links, k, c) ==
    [l \in LeadIds |-> [j \in Keys |-> IF j = k /\ l \in BestMatch(k, c) THEN "review"
                                       ELSE links[l][j]]]

\* A row inserted by upsert takes an id; n leads are inserted with it.
Issue(k, n) == issued' = [lead |-> issued.lead + n, record |-> LastRecord(k)]

\* The record k with content c is collected and not suppressed.
Sighted(k, c) ==
    /\ collecting = SourceOf[k]
    /\ <<k, c>> \in Offers
    /\ ~Blocks(c)

-----------------------------------------------------------------------------
(***************************************************************************)
(* _ingest, by its branches.                                               *)
(***************************************************************************)
\* link claims the record for lead l unless the pair is linked already.
LinkAlwaysClaims(l, k) == TRUE         \* mutated: no early return

LinkNeverClaims(l, k) == FALSE         \* mutated: claim=False

LinkClaims(l, k) == link[l][k] = "none"

\* The record matches a lead other than its own: that lead is rebuilt with
\* it and the record is claimed; its own lead, if any, is left as it is.
Join(k, c) ==
    \E l \in BestMatch(k, c) :
        /\ Sighted(k, c)
        /\ IsAuto(l, c)
        /\ Rebuild(l, k, c)
        /\ link' = [link EXCEPT ![l][k] = "merged"]
        /\ record' = Upserted(k, c, IF LinkClaims(l, k) THEN l ELSE Own(k))
        /\ past' = [past EXCEPT ![k] = IF LinkClaims(l, k) THEN (@ \cup {Own(k)}) \ {NoLead}
                                                           ELSE @]
        /\ Issue(k, 0)
        /\ UNCHANGED <<suppressed, now, collecting>>

\* No match is good enough, and the record has a lead: that is rebuilt.
Refresh(k, c) ==
    /\ Sighted(k, c)
    /\ \A l \in BestMatch(k, c) : ~IsAuto(l, c)
    /\ Own(k) # NoLead
    /\ Rebuild(Own(k), k, c)
    /\ link' = Flagged(link, k, c)
    /\ record' = Upserted(k, c, Own(k))
    /\ UNCHANGED <<suppressed, issued, now, collecting, past>>

\* A new record that matches nothing well enough gets a lead of its own.
Create(k, c) ==
    LET l == issued.lead + 1 IN
    /\ Sighted(k, c)
    /\ \A m \in BestMatch(k, c) : ~IsAuto(m, c)
    /\ Own(k) = NoLead
    /\ l \in LeadIds
    /\ lead' = [lead EXCEPT ![l] = Applied({Candidate(k, RecordId(k), c, now)}, now)]
    /\ built' = [built EXCEPT ![l] = {k}]
    /\ link' = Flagged([link EXCEPT ![l][k] = "merged"], k, c)
    /\ record' = Upserted(k, c, l)
    /\ Issue(k, 1)
    /\ UNCHANGED <<suppressed, now, collecting, past>>

Ingest(k, c) == Join(k, c) \/ Refresh(k, c) \/ Create(k, c)

\* A collection of source s begins, and commits.
Begin(s) ==
    /\ collecting = NoSource
    /\ now < MaxTime
    /\ collecting' = s
    /\ now' = now + 1
    /\ UNCHANGED <<record, lead, link, suppressed, issued, past, built>>

Commit ==
    /\ collecting # NoSource
    /\ collecting' = NoSource
    /\ UNCHANGED <<record, lead, link, suppressed, issued, now, past, built>>

-----------------------------------------------------------------------------
(***************************************************************************)
(* Requests: erasure, suppression, retention.                              *)
(***************************************************************************)
\* DELETE FROM leads: records of the leads and their links cascade.
Erase(L) ==
    LET gone == {k \in Keys : record[k].lead \in L} IN
    /\ lead' = [l \in LeadIds |-> IF l \in L THEN NoRow ELSE lead[l]]
    /\ record' = [k \in Keys |-> IF k \in gone THEN NoRecord ELSE record[k]]
    /\ link' = [l \in LeadIds |-> [k \in Keys |-> IF l \in L \/ k \in gone THEN "none"
                                                ELSE link[l][k]]]
    /\ past' = [k \in Keys |-> IF k \in gone THEN {} ELSE past[k]]
    /\ built' = [l \in LeadIds |-> IF l \in L THEN {} ELSE built[l] \ gone]
    /\ UNCHANGED <<issued, now, collecting>>

\* suppressions.add, for contacts that are not listed yet.
Listed(e) == \E s \in suppressed : s[1] = e[1] /\ s[2] = e[2]

Suppressing(E) == suppressed \cup {<<e[1], e[2], now>> : e \in {d \in E : ~Listed(d)}}

ContactsAll(l) ==                      \* mutated: phones are suppressed too
    {<<f, lead[l].content[f]>> : f \in {g \in Exact : lead[l].content[g] # NoValue}}

\* add_for_lead: the contacts of a lead, as they are stored.
Contacts(l) ==
    {<<f, lead[l].content[f]>> : f \in {g \in Suppressible : lead[l].content[g] # NoValue}}

\* DELETE /api/leads/{id}, with suppress=true or false.
DeleteLead(l, suppress) ==
    /\ collecting = NoSource
    /\ Live(l)
    /\ suppressed' = IF suppress THEN Suppressing(Contacts(l)) ELSE suppressed
    /\ Erase({l})

\* leadpipe purge.
Purge(cutoff) ==
    LET old == {l \in LeadIds : Live(l) /\ lead[l].lastSeen < cutoff} IN
    /\ collecting = NoSource
    /\ old # {}
    /\ Erase(old)
    /\ UNCHANGED suppressed

Suppress(e) ==
    /\ collecting = NoSource
    /\ ~Listed(e)
    /\ suppressed' = Suppressing({e})
    /\ UNCHANGED <<record, lead, link, issued, now, collecting, past, built>>

Unsuppress(e) ==
    /\ collecting = NoSource
    /\ suppressed' = suppressed \ {e}
    /\ UNCHANGED <<record, lead, link, issued, now, collecting, past, built>>

Next ==
    \/ \E o \in Offers : Ingest(o[1], o[2])
    \/ \E s \in Sources : Begin(s)
    \/ Commit
    \/ \E l \in LeadIds : \E suppress \in BOOLEAN : DeleteLead(l, suppress)
    \/ \E cutoff \in 1..MaxTime : cutoff <= now /\ Purge(cutoff)
    \/ \E e \in OptOuts : Suppress(e)
    \/ \E e \in suppressed : Unsuppress(e)

Spec == Init /\ [][Next]_vars

-----------------------------------------------------------------------------
\* A stored record belongs to a live lead, by a decision that is not up for
\* review, whatever was merged, flagged again, erased or purged in between.
OwnerExplained ==
    \A k \in Keys : Stored(k) =>
        /\ Own(k) # NoLead
        /\ Live(Own(k))
        /\ link[Own(k)][k] = "merged"

\* Merging settles: a record that left a lead never comes back to it, so that
\* two leads that match the same record do not pass it back and forth.
NeverReturns == \A k \in Keys : Own(k) \notin past[k]

\* "collecting the same page twice updates one row instead of creating a second
\* company": only a record that was not stored brings a new lead.
KnownNeverRecreated ==
    [][issued'.lead # issued.lead =>
          \E k \in Keys : ~Stored(k) /\ record'[k].lead = issued'.lead]_vars

\* A record moves into a lead that exists only if they share an email, a domain
\* or a phone: a similar name never merges two companies.
MergedOnExactMatch ==
    [][\A k \in Keys : \A l \in LeadIds :
          Live(l) /\ Own(k) # l /\ record'[k].lead = l
              => \E f \in Exact : Same(record'[k].content, lead[l].content, f)]_vars

\* Lead l resembles content c by its name, and by nothing that merges.
Resembles(l, c) ==
    Live(l) /\ Confidence(c, lead[l].content) \in 1..(AUTO_MERGE_THRESHOLD - 1)

\* Leads with Limit older ones before them that resemble c.
Behind(c) ==
    {m \in LeadIds : Cardinality({l \in LeadIds : l < m /\ Resembles(l, c)}) >= Limit}

\* "email ... merges automatically: yes" (docs/deduplication.md:33-35): a company
\* gets no second lead beside one with its email, domain or phone.  The lookup is
\* cut off at Limit candidates, the oldest first (leads.py:66-90), so there is one
\* way to miss that lead: Limit older leads resemble the company.
NewLeadIsNew ==
    [][\A l \in LeadIds : issued.lead < l /\ l <= issued'.lead =>
          \A m \in LeadIds : Live(m) =>
              \A f \in Exact : Same(lead'[l].content, lead[m].content, f)
                                  => m \in Behind(lead'[l].content)]_vars

\* Erasure survives re-collection: a lead that appears after a contact was
\* suppressed never shows that contact, whatever it is merged with later.
ErasureLasts ==
    \A l \in LeadIds : \A e \in suppressed :
        Live(l) /\ lead[l].firstSeen > e[3] => lead[l].content[e[1]] # e[2]

(***************************************************************************)
(* What the documentation says, which the runs refute.                     *)
(***************************************************************************)
\* "the lead is rebuilt from all of its records" (docs/deduplication.md:89),
\* "derived, rebuilt from its records" (docs/architecture.md:67): what a lead
\* shows comes from the records that belong to it.
LeadsDerived ==
    \A l \in LeadIds : \A k \in built[l] : Own(k) = l

\* "a lead that keeps appearing in collections is never purged by age"
\* (docs/operations.md:168): a record outlives a purge if it was collected
\* after the cutoff.
SeenNeverPurged ==
    [][\A cutoff \in 1..MaxTime : Purge(cutoff) =>
          \A k \in Keys : record[k].collected >= cutoff => record'[k] = record[k]]_vars

\* "Deleting a lead removes the merged record and every source_record it was
\* built from" (docs/legal.md:77).
DeletedWithRecords ==
    [][\A l \in LeadIds : \A suppress \in BOOLEAN : DeleteLead(l, suppress) =>
          \A k \in built[l] : record'[k] = NoRecord]_vars
=============================================================================
