-------------------------- MODULE LeadStoreProofs --------------------------
(***************************************************************************)
(* What the runs check of LeadStore on three records and three leads,      *)
(* proved for every set of keys, sources, contents and suppressed          *)
(* contacts, for every similarity and for every number of leads.           *)
(***************************************************************************)
EXTENDS Merging, FiniteSetTheorems, WellFoundedInduction, TLAPS

-----------------------------------------------------------------------------
(***************************************************************************)
(* Merging.                                                                *)
(***************************************************************************)
\* A merged field is empty or comes from a candidate.
LEMMA MergeValue ==
    ASSUME NEW C, NEW f \in Fields
    PROVE  Merge(C)[f] = NoValue \/ \E c \in C : Merge(C)[f] = c.content[f]
<1>1. CASE Winners(C, f) = {}
  BY <1>1 DEF Merge
<1>2. CASE Winners(C, f) # {}
  <2>1. PICK c : c = CHOOSE d \in Winners(C, f) : TRUE
    OBVIOUS
  <2>2. c \in Winners(C, f)
    BY <1>2, <2>1
  <2>3. c \in C
    BY <2>2 DEF Winners
  <2>4. Merge(C)[f] = c.content[f]
    BY <1>2, <2>1 DEF Merge
  <2>5. QED
    BY <2>3, <2>4
<1>3. QED
  BY <1>1, <1>2

\* A merge of contents is a content.
LEMMA MergeType ==
    ASSUME NEW C, \A c \in C : c.content \in Content
    PROVE  Merge(C) \in Content
<1>1. Merge(C) = [f \in Fields |-> Merge(C)[f]]
  BY DEF Merge
<1>2. ASSUME NEW f \in Fields
      PROVE  Merge(C)[f] \in Values \cup {NoValue}
  BY <1>2, MergeValue DEF Content
<1>3. QED
  BY <1>1, <1>2 DEF Content

\* The most recent of several candidates, one of which is of time n and none
\* of which is later.
LEMMA LatestIs ==
    ASSUME NEW C, NEW n \in Nat,
           \A c \in C : c.collected \in Nat /\ c.collected <= n,
           \E c \in C : c.collected = n
    PROVE  Latest(C) = n
<1> DEFINE T == {c.collected : c \in C}
<1>1. n \in T /\ \A c \in C : c.collected <= n
  OBVIOUS
<1>2. \E t \in T : \A c \in C : c.collected <= t
  BY <1>1
<1>3. Latest(C) \in T /\ \A c \in C : c.collected <= Latest(C)
  BY <1>2 DEF Latest
<1>4. Latest(C) <= n /\ n <= Latest(C) /\ Latest(C) \in Nat
  BY <1>1, <1>3
<1>5. QED
  BY <1>4

\* Applying a merge to a lead that began at time t, with a candidate of the
\* latest time n, makes a row of leads that began at t.
LEMMA AppliedType ==
    ASSUME NEW C, NEW n \in 0..MaxTime, NEW t \in 0..MaxTime,
           \A c \in C : c.content \in Content /\ c.collected \in Nat /\ c.collected <= n,
           \E c \in C : c.collected = n
    PROVE  /\ Applied(C, t) \in LeadRow
           /\ Applied(C, t).firstSeen = t
           /\ Applied(C, t).content = Merge(C)
<1>1. n \in Nat
  BY LimitAssumption
<1>2. Latest(C) = n
  BY <1>1, LatestIs
<1>3. Merge(C) \in Content
  BY MergeType
<1>4. QED
  BY <1>2, <1>3 DEF Applied, LeadRow

-----------------------------------------------------------------------------
(***************************************************************************)
(* The invariant.                                                          *)
(***************************************************************************)
\* Nothing is later than the present collection, nor of an id not handed out.
Clocked ==
    /\ \A k \in Keys : record[k].collected <= now
    /\ \A l \in LeadIds : lead[l].firstSeen <= now /\ (Live(l) => l <= issued.lead)
    /\ \A e \in suppressed : e[3] <= now
    /\ collecting # NoSource => 1 <= now

\* OwnerExplained, and a record that is not stored belongs to no lead.
OwnersKnown ==
    \A k \in Keys :
        /\ Stored(k) <=> Own(k) # NoLead
        /\ Stored(k) => Live(Own(k)) /\ link[Own(k)][k] = "merged"

\* The foreign keys of lead_merges.
LinksKnown ==
    \A l \in LeadIds : \A k \in Keys : link[l][k] # "none" => Live(l) /\ Stored(k)

\* A lead that a record left keeps its link to the record as long as it lives,
\* and that link is what keeps the record from being claimed again.
PastLinked ==
    \A k \in Keys : \A l \in past[k] :
        l # Own(k) /\ l <= issued.lead /\ (Live(l) => link[l][k] # "none")

\* A record collected after a contact was suppressed does not have it.
RecordsClean ==
    \A k \in Keys : \A e \in suppressed :
        Stored(k) /\ e[3] < record[k].collected => record[k].content[e[1]] # e[2]

\* A lead is at least as old as each of its records.
RecordsLater ==
    \A k \in Keys : Stored(k) => lead[Own(k)].firstSeen <= record[k].collected

StoreInv == TypeOK /\ Clocked /\ OwnersKnown /\ LinksKnown /\ PastLinked
Erased == RecordsClean /\ RecordsLater /\ ErasureLasts

-----------------------------------------------------------------------------
(***************************************************************************)
(* What one sighting does.                                                 *)
(***************************************************************************)
\* Types of what a sighting works with.
LEMMA SightedFacts ==
    ASSUME TypeOK, Clocked, NEW k, NEW c, Sighted(k, c)
    PROVE  /\ k \in Keys /\ c \in Content /\ 1 <= now
           /\ RecordId(k) \in Nat \ {0} /\ LastRecord(k) \in Nat
<1>1. k \in Keys /\ c \in Content
  BY OffersAssumption DEF Sighted
<1>2. SourceOf[k] \in Sources
  BY <1>1, KeysAssumption
<1>3. 1 <= now
  BY <1>2, SourcesAssumption DEF Sighted, Clocked
<1>4. issued.record \in Nat /\ record[k].id \in Nat
  BY <1>1 DEF TypeOK, RecordRow, LeadRow
<1>5. LastRecord(k) \in Nat
  BY <1>4 DEF LastRecord
<1>6. RecordId(k) \in Nat \ {0}
  BY <1>4 DEF RecordId, LastRecord, Stored
<1>7. QED
  BY <1>1, <1>3, <1>5, <1>6

\* The candidates a lead is rebuilt from are no later than the present, and the
\* incoming one is of the present.
LEMMA SightingsFacts ==
    ASSUME TypeOK, Clocked, NEW k \in Keys, NEW c \in Content, NEW l
    PROVE  /\ \A s \in Sightings(l, k, c) :
                 /\ s.content \in Content /\ s.collected \in Nat /\ s.collected <= now
                 /\ \/ s.content = c
                    \/ \E j \in Keys : Stored(j) /\ Own(j) = l /\ s.content = record[j].content
           /\ \E s \in Sightings(l, k, c) : s.collected = now
<1> USE DEF Candidate
<1>1. now \in Nat
  BY LimitAssumption DEF TypeOK
<1>2. ASSUME NEW s \in Sightings(l, k, c)
      PROVE  /\ s.content \in Content /\ s.collected \in Nat /\ s.collected <= now
             /\ \/ s.content = c
                \/ \E j \in Keys : Stored(j) /\ Own(j) = l /\ s.content = record[j].content
  <2>1. CASE s = Candidate(k, RecordId(k), c, now)
    BY <1>1, <2>1
  <2>2. ASSUME NEW j \in Built(l, k) \ {k},
               s = Candidate(j, record[j].id, record[j].content, record[j].collected)
        PROVE  /\ s.content \in Content /\ s.collected \in Nat /\ s.collected <= now
               /\ \/ s.content = c
                  \/ \E i \in Keys : Stored(i) /\ Own(i) = l /\ s.content = record[i].content
    <3>1. j \in Keys /\ Stored(j) /\ Own(j) = l
      BY <2>2 DEF Built, Own
    <3>2. record[j].content \in Content /\ record[j].collected \in Nat
      BY <3>1, LimitAssumption DEF TypeOK, RecordRow, LeadRow
    <3>3. record[j].collected <= now
      BY <3>1 DEF Clocked
    <3>4. s.content = record[j].content /\ s.collected = record[j].collected
      BY <2>2
    <3>5. QED
      BY <3>1, <3>2, <3>3, <3>4
  <2>3. QED
    BY <1>2, <2>1, <2>2 DEF Sightings
<1>3. Candidate(k, RecordId(k), c, now) \in Sightings(l, k, c)
  BY DEF Sightings
<1>4. QED
  BY <1>2, <1>3

\* The row of a rebuilt lead.
LEMMA RebuiltRow ==
    ASSUME TypeOK, Clocked, NEW k \in Keys, NEW c \in Content, NEW l, NEW t \in 0..MaxTime
    PROVE  /\ Applied(Sightings(l, k, c), t) \in LeadRow
           /\ Applied(Sightings(l, k, c), t).firstSeen = t
           /\ \A f \in Fields :
                 LET v == Applied(Sightings(l, k, c), t).content[f]
                 IN  \/ v = NoValue
                     \/ v = c[f]
                     \/ \E j \in Keys : Stored(j) /\ Own(j) = l /\ v = record[j].content[f]
<1> DEFINE C == Sightings(l, k, c)
<1>1. /\ \A s \in C : s.content \in Content /\ s.collected \in Nat /\ s.collected <= now
      /\ \E s \in C : s.collected = now
  BY SightingsFacts
<1>2. now \in 0..MaxTime
  BY DEF TypeOK
<1> HIDE DEF C
<1>3. /\ Applied(C, t) \in LeadRow /\ Applied(C, t).firstSeen = t
      /\ Applied(C, t).content = Merge(C)
  BY <1>1, <1>2, AppliedType
<1>4. ASSUME NEW f \in Fields
      PROVE  \/ Merge(C)[f] = NoValue
             \/ Merge(C)[f] = c[f]
             \/ \E j \in Keys : Stored(j) /\ Own(j) = l /\ Merge(C)[f] = record[j].content[f]
  <2>1. Merge(C)[f] = NoValue \/ \E s \in C : Merge(C)[f] = s.content[f]
    BY MergeValue
  <2>2. \A s \in C : \/ s.content = c
                     \/ \E j \in Keys : Stored(j) /\ Own(j) = l /\ s.content = record[j].content
    BY SightingsFacts DEF C
  <2>3. QED
    BY <2>1, <2>2
<1>5. QED
  BY <1>3, <1>4 DEF C

\* A match is a live lead other than the record's own.
LEMMA MatchFacts ==
    ASSUME NEW k, NEW c, NEW l \in BestMatch(k, c)
    PROVE  l \in LeadIds /\ Live(l) /\ l # Own(k)
BY DEF BestMatch, FindCandidates

\* The row a sighting leaves for its record.
LEMMA UpsertedRow ==
    ASSUME TypeOK, Clocked, NEW k, NEW c, Sighted(k, c), NEW m \in LeadIds \cup {NoLead}
    PROVE  /\ Upserted(k, c, m) \in [Keys -> RecordRow]
           /\ Upserted(k, c, m)[k].id # 0
           /\ Upserted(k, c, m)[k].lead = m
           /\ Upserted(k, c, m)[k].content = c
           /\ Upserted(k, c, m)[k].collected = now
           /\ \A j \in Keys : j # k => Upserted(k, c, m)[j] = record[j]
<1>1. k \in Keys /\ c \in Content /\ RecordId(k) \in Nat \ {0}
  BY SightedFacts
<1>2. now \in 0..MaxTime /\ record \in [Keys -> RecordRow]
  BY DEF TypeOK, RecordRow
<1> DEFINE row == [id |-> RecordId(k), content |-> c, collected |-> now, lead |-> m]
<1>3. row \in RecordRow
  BY <1>1, <1>2 DEF RecordRow
<1>4. Upserted(k, c, m) = [record EXCEPT ![k] = row]
  BY DEF Upserted
<1> HIDE DEF row
<1>5. Upserted(k, c, m)[k] = row
  BY <1>1, <1>2, <1>4
<1>6. row.id # 0 /\ row.lead = m /\ row.content = c /\ row.collected = now
  BY <1>1 DEF row
<1>7. QED
  BY <1>2, <1>3, <1>4, <1>5, <1>6

\* Ids handed out stay within the bound and only grow.
LEMMA IssueType ==
    ASSUME TypeOK, Clocked, NEW k, NEW c, Sighted(k, c), NEW n \in Nat,
           issued.lead + n <= MaxLeads, Issue(k, n)
    PROVE  /\ issued' \in [lead : 0..MaxLeads, record : Nat]
           /\ issued'.lead = issued.lead + n
<1>1. LastRecord(k) \in Nat
  BY SightedFacts
<1>2. issued.lead \in 0..MaxLeads
  BY DEF TypeOK
<1>3. issued.lead + n \in 0..MaxLeads
  BY <1>2, LimitAssumption
<1>4. QED
  BY <1>1, <1>3 DEF Issue

\* A review flag goes to live leads that are not the record's own.
LEMMA FlaggedFacts ==
    ASSUME NEW k \in Keys, NEW c, NEW L \in [LeadIds -> [Keys -> {"none", "merged", "review"}]]
    PROVE  /\ Flagged(L, k, c) \in [LeadIds -> [Keys -> {"none", "merged", "review"}]]
           /\ \A l \in LeadIds : \A j \in Keys :
                 \/ Flagged(L, k, c)[l][j] = L[l][j]
                 \/ j = k /\ l # Own(k) /\ Live(l) /\ Flagged(L, k, c)[l][j] = "review"
<1>1. Flagged(L, k, c) \in [LeadIds -> [Keys -> {"none", "merged", "review"}]]
  BY DEF Flagged
<1>2. ASSUME NEW l \in LeadIds, NEW j \in Keys
      PROVE  \/ Flagged(L, k, c)[l][j] = L[l][j]
             \/ j = k /\ l # Own(k) /\ Live(l) /\ Flagged(L, k, c)[l][j] = "review"
  <2>1. Flagged(L, k, c)[l][j] =
            IF j = k /\ l \in BestMatch(k, c) THEN "review" ELSE L[l][j]
    BY DEF Flagged
  <2>2. QED
    BY <2>1, MatchFacts
<1>3. QED
  BY <1>1, <1>2

-----------------------------------------------------------------------------
(***************************************************************************)
(* The invariant is kept, action by action.                                *)
(***************************************************************************)
\* Rebuilding a live lead leaves its age, and all other leads, as they are.
LEMMA RebuildFacts ==
    ASSUME TypeOK, Clocked, NEW k \in Keys, NEW c \in Content, NEW l \in LeadIds,
           Rebuild(l, k, c)
    PROVE  /\ lead' \in [LeadIds -> LeadRow]
           /\ built' \in [LeadIds -> SUBSET Keys]
           /\ \A m \in LeadIds : lead'[m].firstSeen = lead[m].firstSeen
           /\ \A m \in LeadIds : m # l => lead'[m] = lead[m]
<1> DEFINE row == Applied(Sightings(l, k, c), lead[l].firstSeen)
<1>1. lead[l].firstSeen \in 0..MaxTime /\ lead \in [LeadIds -> LeadRow]
  BY DEF TypeOK, LeadRow
<1>2. row \in LeadRow /\ row.firstSeen = lead[l].firstSeen
  BY <1>1, RebuiltRow
<1>3. lead' = [lead EXCEPT ![l] = row]
  BY DEF Rebuild
<1>4. Built(l, k) \in SUBSET Keys
  BY DEF Built
<1>5. built' \in [LeadIds -> SUBSET Keys]
  BY <1>4 DEF Rebuild, TypeOK
<1> HIDE DEF row
<1>6. QED
  BY <1>1, <1>2, <1>3, <1>5

\* Owners and links after a sighting of record k that leaves it in lead m.
LEMMA SightKeeps ==
    ASSUME StoreInv, NEW k \in Keys, NEW m \in LeadIds,
           record'[k].id # 0, record'[k].lead = m,
           \A j \in Keys : j # k => record'[j] = record[j],
           \A n \in LeadIds : Live(n) => lead'[n].firstSeen # 0,
           lead'[m].firstSeen # 0, link'[m][k] = "merged",
           \A n \in LeadIds : \A j \in Keys :
               link'[n][j] = link[n][j] \/ (j = k /\ lead'[n].firstSeen # 0)
    PROVE  OwnersKnown' /\ LinksKnown'
<1> USE DEF StoreInv
<1>1. m # NoLead
  BY DEF LeadIds, NoLead
<1>2. ASSUME NEW j \in Keys
      PROVE  /\ (record'[j].id # 0) <=> record'[j].lead # NoLead
             /\ record'[j].id # 0 =>
                    lead'[record'[j].lead].firstSeen # 0 /\ link'[record'[j].lead][j] = "merged"
  <2>1. CASE j = k
    BY <1>1, <2>1
  <2>2. CASE j # k
    <3>1. record'[j] = record[j]
      BY <2>2
    <3>2. /\ (record[j].id # 0) <=> record[j].lead # NoLead
          /\ record[j].id # 0 => Live(record[j].lead) /\ link[record[j].lead][j] = "merged"
      BY DEF OwnersKnown, Stored, Own
    <3>3. record[j].lead # NoLead => record[j].lead \in LeadIds
      BY DEF TypeOK, RecordRow, LeadRow
    <3>4. \A n \in LeadIds : link'[n][j] = link[n][j]
      BY <2>2
    <3>5. QED
      BY <3>1, <3>2, <3>3, <3>4
  <2>3. QED
    BY <2>1, <2>2
<1>3. \A n \in LeadIds : \A j \in Keys :
          link'[n][j] # "none" => lead'[n].firstSeen # 0 /\ record'[j].id # 0
  <2>1. \A j \in Keys : Stored(j) => record'[j].id # 0
    BY DEF Stored
  <2>2. QED
    BY <2>1 DEF LinksKnown
<1>4. OwnersKnown'
  BY <1>2 DEF OwnersKnown, Stored, Own, Live
<1>5. LinksKnown'
  BY <1>3 DEF LinksKnown, Stored, Live
<1>6. QED
  BY <1>4, <1>5

\* Joining a matched lead keeps the invariant.
LEMMA JoinKeeps ==
    ASSUME StoreInv, NEW k, NEW c, Join(k, c)
    PROVE  StoreInv'
<1> USE DEF StoreInv
<1>1. PICK l \in BestMatch(k, c) :
        /\ Sighted(k, c)
        /\ Rebuild(l, k, c)
        /\ link' = [link EXCEPT ![l][k] = "merged"]
        /\ record' = Upserted(k, c, IF LinkClaims(l, k) THEN l ELSE Own(k))
        /\ past' = [past EXCEPT ![k] = IF LinkClaims(l, k) THEN (@ \cup {Own(k)}) \ {NoLead}
                                                           ELSE @]
        /\ Issue(k, 0)
        /\ UNCHANGED <<suppressed, now, collecting>>
  BY DEF Join
<1> DEFINE m == IF LinkClaims(l, k) THEN l ELSE Own(k)
<1>2. k \in Keys /\ c \in Content /\ 1 <= now
  BY <1>1, SightedFacts
<1>3. l \in LeadIds /\ Live(l) /\ l # Own(k)
  BY MatchFacts
<1>4. Own(k) \in LeadIds \cup {NoLead} /\ m \in LeadIds \cup {NoLead}
  BY <1>2, <1>3 DEF TypeOK, RecordRow, LeadRow, Own
<1>5. /\ record' \in [Keys -> RecordRow] /\ record'[k].id # 0 /\ record'[k].lead = m
      /\ record'[k].collected = now /\ \A j \in Keys : j # k => record'[j] = record[j]
  BY <1>1, <1>4, UpsertedRow
<1>6. /\ lead' \in [LeadIds -> LeadRow] /\ built' \in [LeadIds -> SUBSET Keys]
      /\ \A n \in LeadIds : lead'[n].firstSeen = lead[n].firstSeen
  BY <1>1, <1>2, <1>3, RebuildFacts
<1>7. issued.lead \in Nat /\ issued.lead <= MaxLeads
  BY LimitAssumption DEF TypeOK
<1>8. issued' \in [lead : 0..MaxLeads, record : Nat] /\ issued'.lead = issued.lead
  BY <1>1, <1>7, IssueType
<1>9. /\ link' \in [LeadIds -> [Keys -> {"none", "merged", "review"}]]
      /\ link'[l][k] = "merged"
      /\ \A n \in LeadIds : \A j \in Keys : <<n, j>> # <<l, k>> => link'[n][j] = link[n][j]
  BY <1>1, <1>2, <1>3 DEF TypeOK
<1>10. past' \in [Keys -> SUBSET LeadIds]
  BY <1>1, <1>2, <1>4 DEF TypeOK
<1>11. TypeOK'
  BY <1>1, <1>5, <1>6, <1>8, <1>9, <1>10 DEF TypeOK, RecordRow, LeadRow
<1>12. Clocked'
  <2>1. now \in Nat
    BY LimitAssumption DEF TypeOK
  <2>2. now <= now
    BY <2>1
  <2>3. \A j \in Keys : record'[j].collected <= now
    BY <1>5, <2>2 DEF Clocked
  <2>4. QED
    BY <1>1, <1>6, <1>8, <2>3 DEF Clocked, Live
<1>13. Stored(k) => m \in LeadIds /\ Live(m)
  BY <1>2, <1>3, <1>4 DEF OwnersKnown
<1>14. m \in LeadIds /\ Live(m) /\ m # NoLead
  BY <1>2, <1>3, <1>13 DEF LinkClaims, LinksKnown, LeadIds, NoLead
<1>15. link'[m][k] = "merged"
  <2>1. CASE LinkClaims(l, k)
    BY <1>9, <2>1
  <2>2. CASE ~LinkClaims(l, k)
    <3>1. Stored(k)
      BY <1>2, <1>3, <2>2 DEF LinkClaims, LinksKnown
    <3>2. link[m][k] = "merged" /\ m # l
      BY <1>2, <1>3, <2>2, <3>1 DEF OwnersKnown
    <3>3. QED
      BY <1>2, <1>9, <1>14, <3>2
  <2>3. QED
    BY <2>1, <2>2
<1>16. OwnersKnown' /\ LinksKnown'
  <2>1. \A n \in LeadIds : Live(n) => lead'[n].firstSeen # 0
    BY <1>6 DEF Live
  <2>2. \A n \in LeadIds : \A j \in Keys :
            link'[n][j] = link[n][j] \/ (j = k /\ lead'[n].firstSeen # 0)
    BY <1>3, <1>9, <2>1
  <2>3. lead'[m].firstSeen # 0
    BY <1>14, <2>1
  <2>4. QED
    BY <1>2, <1>5, <1>14, <1>15, <2>1, <2>2, <2>3, SightKeeps
<1>17. PastLinked'
  <2>1. ASSUME NEW j \in Keys, NEW n \in past'[j]
        PROVE  n # record'[j].lead /\ n <= issued.lead /\ (Live(n) => link'[n][j] # "none")
    <3>1. n \in LeadIds
      BY <1>10, <2>1
    <3>2. link[n][j] # "none" => link'[n][j] # "none"
      BY <1>9, <3>1
    <3>3. CASE n \in past[j]
      <4>1. n # Own(j) /\ n <= issued.lead /\ (Live(n) => link[n][j] # "none")
        BY <3>3 DEF PastLinked
      <4>2. j = k /\ LinkClaims(l, k) => n # l
        BY <1>3, <4>1 DEF LinkClaims
      <4>3. n # record'[j].lead
        BY <1>5, <4>1, <4>2 DEF Own
      <4>4. QED
        BY <3>2, <4>1, <4>3
    <3>4. CASE n \notin past[j]
      <4>1. j = k /\ LinkClaims(l, k) /\ n = Own(k) /\ n # NoLead
        BY <1>1, <1>2, <2>1, <3>4 DEF TypeOK
      <4>2. Live(n) /\ link[n][k] = "merged"
        BY <1>2, <4>1 DEF OwnersKnown
      <4>3. n <= issued.lead
        BY <3>1, <4>2 DEF Clocked
      <4>4. n # record'[j].lead
        BY <1>3, <1>5, <4>1
      <4>5. QED
        BY <3>2, <4>1, <4>2, <4>3, <4>4
    <3>5. QED
      BY <3>3, <3>4
  <2>2. \A n \in LeadIds : (lead'[n].firstSeen # 0) <=> Live(n)
    BY <1>6 DEF Live
  <2>3. QED
    BY <1>8, <1>10, <2>1, <2>2 DEF PastLinked, Own, Live
<1>18. QED
  BY <1>11, <1>12, <1>16, <1>17

\* Refreshing the record's own lead keeps the invariant.
LEMMA RefreshKeeps ==
    ASSUME StoreInv, NEW k, NEW c, Refresh(k, c)
    PROVE  StoreInv'
<1> USE DEF StoreInv
<1> DEFINE m == Own(k)
<1>1. /\ Sighted(k, c) /\ m # NoLead /\ Rebuild(m, k, c)
      /\ link' = Flagged(link, k, c)
      /\ record' = Upserted(k, c, m)
      /\ UNCHANGED <<suppressed, issued, now, collecting, past>>
  BY DEF Refresh
<1>2. k \in Keys /\ c \in Content /\ 1 <= now
  BY <1>1, SightedFacts
<1>3. m \in LeadIds /\ Live(m) /\ link[m][k] = "merged"
  BY <1>1, <1>2 DEF TypeOK, RecordRow, LeadRow, Own, OwnersKnown
<1>4. /\ record' \in [Keys -> RecordRow] /\ record'[k].id # 0 /\ record'[k].lead = m
      /\ record'[k].collected = now /\ \A j \in Keys : j # k => record'[j] = record[j]
  BY <1>1, <1>3, UpsertedRow
<1>5. /\ lead' \in [LeadIds -> LeadRow] /\ built' \in [LeadIds -> SUBSET Keys]
      /\ \A n \in LeadIds : lead'[n].firstSeen = lead[n].firstSeen
  BY <1>1, <1>2, <1>3, RebuildFacts
<1>6. /\ link' \in [LeadIds -> [Keys -> {"none", "merged", "review"}]]
      /\ \A n \in LeadIds : \A j \in Keys :
            \/ link'[n][j] = link[n][j]
            \/ j = k /\ n # m /\ Live(n) /\ link'[n][j] = "review"
  BY <1>1, <1>2, FlaggedFacts DEF TypeOK
<1>7. TypeOK'
  BY <1>1, <1>4, <1>5, <1>6 DEF TypeOK, RecordRow, LeadRow
<1>8. Clocked'
  <2>1. now \in Nat
    BY LimitAssumption DEF TypeOK
  <2>2. now <= now
    BY <2>1
  <2>3. \A j \in Keys : record'[j].collected <= now
    BY <1>4, <2>2 DEF Clocked
  <2>4. QED
    BY <1>1, <1>5, <2>3 DEF Clocked, Live
<1>9. OwnersKnown' /\ LinksKnown'
  <2>1. \A n \in LeadIds : Live(n) => lead'[n].firstSeen # 0
    BY <1>5 DEF Live
  <2>2. \A n \in LeadIds : \A j \in Keys :
            link'[n][j] = link[n][j] \/ (j = k /\ lead'[n].firstSeen # 0)
    BY <1>6, <2>1
  <2>3. lead'[m].firstSeen # 0 /\ link'[m][k] = "merged"
    BY <1>2, <1>3, <1>6, <2>1
  <2>4. QED
    BY <1>2, <1>3, <1>4, <2>1, <2>2, <2>3, SightKeeps
<1>10. PastLinked'
  <2>1. ASSUME NEW j \in Keys, NEW n \in past[j]
        PROVE  n # record'[j].lead /\ n <= issued.lead
                   /\ (lead'[n].firstSeen # 0 => link'[n][j] # "none")
    <3>1. n \in LeadIds
      BY DEF TypeOK
    <3>2. n # Own(j) /\ n <= issued.lead /\ (Live(n) => link[n][j] # "none")
      BY DEF PastLinked
    <3>3. record'[j].lead = Own(j)
      BY <1>4 DEF Own
    <3>4. link[n][j] # "none" => link'[n][j] # "none"
      BY <1>6, <3>1
    <3>5. QED
      BY <1>5, <3>1, <3>2, <3>3, <3>4 DEF Live
  <2>2. QED
    BY <1>1, <2>1 DEF PastLinked, Own, Live
<1>11. QED
  BY <1>7, <1>8, <1>9, <1>10

\* The facts about a new lead l that the invariants need.
LEMMA CreateFacts ==
    ASSUME StoreInv, NEW k, NEW c, Create(k, c)
    PROVE  LET l == issued.lead + 1 IN
           /\ Sighted(k, c) /\ k \in Keys /\ c \in Content /\ 1 <= now
           /\ Own(k) = NoLead /\ ~Stored(k)
           /\ l \in LeadIds /\ ~Live(l) /\ lead'[l].firstSeen = now
           /\ \A f \in Fields : lead'[l].content[f] = NoValue \/ lead'[l].content[f] = c[f]
           /\ \A n \in LeadIds : n # l => lead'[n] = lead[n]
           /\ lead' \in [LeadIds -> LeadRow] /\ built' \in [LeadIds -> SUBSET Keys]
           /\ record' = Upserted(k, c, l)
           /\ link' = Flagged([link EXCEPT ![l][k] = "merged"], k, c)
           /\ issued' \in [lead : 0..MaxLeads, record : Nat] /\ issued'.lead = l
           /\ UNCHANGED <<suppressed, now, collecting, past>>
<1> USE DEF StoreInv
<1> DEFINE l == issued.lead + 1
           C == {Candidate(k, RecordId(k), c, now)}
           row == Applied(C, now)
<1>1. /\ Sighted(k, c) /\ Own(k) = NoLead /\ l \in LeadIds
      /\ lead' = [lead EXCEPT ![l] = row]
      /\ built' = [built EXCEPT ![l] = {k}]
      /\ link' = Flagged([link EXCEPT ![l][k] = "merged"], k, c)
      /\ record' = Upserted(k, c, l)
      /\ Issue(k, 1)
      /\ UNCHANGED <<suppressed, now, collecting, past>>
  BY DEF Create
<1>2. k \in Keys /\ c \in Content /\ 1 <= now
  BY <1>1, SightedFacts
<1>3. ~Stored(k)
  BY <1>1, <1>2 DEF OwnersKnown
<1>4. issued.lead \in Nat /\ l <= MaxLeads
  BY <1>1, LimitAssumption DEF TypeOK, LeadIds
<1>5. ~Live(l)
  BY <1>1, <1>4 DEF Clocked
<1>6. now \in 0..MaxTime /\ now \in Nat
  BY LimitAssumption DEF TypeOK
<1>7. /\ \A s \in C : s.content = c /\ s.collected = now
      /\ \E s \in C : s.collected = now
  BY DEF Candidate
<1>8. \A s \in C : s.content \in Content /\ s.collected \in Nat /\ s.collected <= now
  <2>1. now <= now
    BY <1>6
  <2>2. QED
    BY <1>2, <1>6, <1>7, <2>1
<1> HIDE DEF C
<1>9. row \in LeadRow /\ row.firstSeen = now /\ row.content = Merge(C)
  BY <1>6, <1>7, <1>8, AppliedType
<1>10. \A f \in Fields : row.content[f] = NoValue \/ row.content[f] = c[f]
  BY <1>7, <1>9, MergeValue
<1> HIDE DEF row
<1>11. lead \in [LeadIds -> LeadRow]
  BY DEF TypeOK, LeadRow
<1>12. lead'[l] = row /\ lead' \in [LeadIds -> LeadRow]
  BY <1>1, <1>9, <1>11
<1>13. \A n \in LeadIds : n # l => lead'[n] = lead[n]
  BY <1>1, <1>11
<1>14. built' \in [LeadIds -> SUBSET Keys]
  BY <1>1, <1>2 DEF TypeOK
<1>15. issued' \in [lead : 0..MaxLeads, record : Nat] /\ issued'.lead = l
  BY <1>1, <1>4, IssueType
<1>16. QED
  BY <1>1, <1>2, <1>3, <1>5, <1>9, <1>10, <1>12, <1>13, <1>14, <1>15

\* Creating a lead keeps the invariant.
LEMMA CreateKeeps ==
    ASSUME StoreInv, NEW k, NEW c, Create(k, c)
    PROVE  StoreInv'
<1> USE DEF StoreInv
<1> DEFINE l == issued.lead + 1
           L == [link EXCEPT ![l][k] = "merged"]
<1>1. /\ Sighted(k, c) /\ k \in Keys /\ 1 <= now
      /\ Own(k) = NoLead /\ ~Stored(k)
      /\ l \in LeadIds /\ ~Live(l) /\ lead'[l].firstSeen = now
      /\ \A n \in LeadIds : n # l => lead'[n] = lead[n]
      /\ lead' \in [LeadIds -> LeadRow] /\ built' \in [LeadIds -> SUBSET Keys]
      /\ record' = Upserted(k, c, l)
      /\ link' = Flagged(L, k, c)
      /\ issued' \in [lead : 0..MaxLeads, record : Nat] /\ issued'.lead = l
      /\ UNCHANGED <<suppressed, now, collecting, past>>
  BY CreateFacts
<1>2. issued.lead \in Nat /\ now \in Nat
  BY LimitAssumption DEF TypeOK
<1>3. /\ record' \in [Keys -> RecordRow] /\ record'[k].id # 0 /\ record'[k].lead = l
      /\ record'[k].collected = now /\ \A j \in Keys : j # k => record'[j] = record[j]
  BY <1>1, UpsertedRow
<1>4. /\ L \in [LeadIds -> [Keys -> {"none", "merged", "review"}]]
      /\ L[l][k] = "merged"
      /\ \A n \in LeadIds : \A j \in Keys : (n # l \/ j # k) => L[n][j] = link[n][j]
  BY <1>1 DEF TypeOK
<1> HIDE DEF L
<1>5. /\ link' \in [LeadIds -> [Keys -> {"none", "merged", "review"}]]
      /\ \A n \in LeadIds : \A j \in Keys :
            \/ link'[n][j] = L[n][j]
            \/ j = k /\ Live(n) /\ link'[n][j] = "review"
  BY <1>1, <1>4, FlaggedFacts
<1>6. TypeOK'
  BY <1>1, <1>3, <1>5 DEF TypeOK, RecordRow, LeadRow
<1>7. \A n \in LeadIds : Live(n) => lead'[n].firstSeen # 0
  BY <1>1 DEF Live
<1>8. Clocked'
  <2>1. now <= now /\ issued.lead <= l /\ l <= l
    BY <1>2
  <2>2. \A j \in Keys : record'[j].collected <= now
    BY <1>3, <2>1 DEF Clocked
  <2>3. ASSUME NEW n \in LeadIds
        PROVE  lead'[n].firstSeen <= now /\ (lead'[n].firstSeen # 0 => n <= l)
    <3>1. CASE n = l
      BY <1>1, <2>1, <3>1
    <3>2. CASE n # l
      <4>1. lead[n].firstSeen <= now /\ (lead[n].firstSeen # 0 => n <= issued.lead)
        BY DEF Clocked, Live
      <4>2. n \in Nat
        BY DEF LeadIds
      <4>3. QED
        BY <1>1, <1>2, <3>2, <4>1, <4>2
    <3>3. QED
      BY <3>1, <3>2
  <2>4. QED
    BY <1>1, <2>2, <2>3 DEF Clocked, Live
<1>9. OwnersKnown' /\ LinksKnown'
  <2>1. lead'[l].firstSeen # 0
    BY <1>1, <1>2
  <2>2. \A n \in LeadIds : \A j \in Keys :
            link'[n][j] = link[n][j] \/ (j = k /\ lead'[n].firstSeen # 0)
    BY <1>4, <1>5, <1>7, <2>1
  <2>3. link'[l][k] = "merged"
    BY <1>1, <1>4, <1>5
  <2>4. QED
    BY <1>1, <1>3, <1>7, <2>1, <2>2, <2>3, SightKeeps
<1>10. PastLinked'
  <2>1. ASSUME NEW j \in Keys, NEW n \in past[j]
        PROVE  n # record'[j].lead /\ n <= l /\ (lead'[n].firstSeen # 0 => link'[n][j] # "none")
    <3>1. n \in LeadIds /\ n \in Nat
      BY DEF TypeOK, LeadIds
    <3>2. n # Own(j) /\ n <= issued.lead /\ (Live(n) => link[n][j] # "none")
      BY DEF PastLinked
    <3>3. n # l /\ n <= l
      BY <1>2, <3>1, <3>2
    <3>4. n # record'[j].lead
      BY <1>3, <3>2, <3>3 DEF Own
    <3>5. link[n][j] # "none" => link'[n][j] # "none"
      BY <1>4, <1>5, <3>1, <3>3
    <3>6. lead'[n] = lead[n]
      BY <1>1, <3>1, <3>3
    <3>7. QED
      BY <3>2, <3>3, <3>4, <3>5, <3>6 DEF Live
  <2>2. QED
    BY <1>1, <2>1 DEF PastLinked, Own, Live
<1>11. QED
  BY <1>6, <1>8, <1>9, <1>10

\* Rows of suppressions are added for the present time.
LEMMA SuppressingFacts ==
    ASSUME TypeOK, Clocked, NEW E \in SUBSET (Suppressible \X Values)
    PROVE  /\ Suppressing(E) \subseteq Suppressible \X Values \X (0..MaxTime)
           /\ \A e \in Suppressing(E) : e \in suppressed \/ e[3] = now
           /\ \A e \in Suppressing(E) : e[3] <= now
<1>1. now \in 0..MaxTime /\ now <= now
  BY LimitAssumption DEF TypeOK
<1>2. suppressed \subseteq Suppressible \X Values \X (0..MaxTime)
  BY DEF TypeOK
<1>3. ASSUME NEW e \in Suppressing(E), e \notin suppressed
      PROVE  e \in Suppressible \X Values \X (0..MaxTime) /\ e[3] = now
  <2>1. PICK d \in E : e = <<d[1], d[2], now>>
    BY <1>3 DEF Suppressing
  <2>2. d[1] \in Suppressible /\ d[2] \in Values
    OBVIOUS
  <2>3. QED
    BY <1>1, <2>1, <2>2
<1>4. \A e \in suppressed : e[3] <= now
  BY DEF Clocked
<1>5. QED
  BY <1>1, <1>2, <1>3, <1>4

\* The contacts of a lead are suppressible.
LEMMA ContactsType ==
    ASSUME TypeOK, NEW l \in LeadIds
    PROVE  Contacts(l) \in SUBSET (Suppressible \X Values)
<1>1. lead[l].content \in Content
  BY DEF TypeOK, RecordRow, LeadRow
<1>2. Suppressible \subseteq Fields
  BY DEF Suppressible, Fields, Exact
<1>3. ASSUME NEW f \in Suppressible, lead[l].content[f] # NoValue
      PROVE  <<f, lead[l].content[f]>> \in Suppressible \X Values
  BY <1>1, <1>2, <1>3 DEF Content
<1>4. QED
  BY <1>3 DEF Contacts

NoRowFacts ==
    /\ NoRecord \in RecordRow /\ NoRow \in LeadRow
    /\ NoRecord.id = 0 /\ NoRecord.lead = NoLead /\ NoRecord.collected = 0
    /\ NoRow.firstSeen = 0

\* What an absent row looks like.
LEMMA EmptyRows == NoRowFacts
<1>1. 0 \in 0..MaxTime
  BY LimitAssumption
<1>2. [f \in Fields |-> NoValue] \in Content
  BY DEF Content
<1>3. QED
  BY <1>1, <1>2 DEF NoRowFacts, NoRecord, NoRow, RecordRow, LeadRow, NoLead

\* What is left after leads L and, by cascade, their records are deleted.
LEMMA EraseFacts ==
    ASSUME TypeOK, NEW L \in SUBSET LeadIds, Erase(L)
    PROVE  /\ record' \in [Keys -> RecordRow] /\ lead' \in [LeadIds -> LeadRow]
           /\ link' \in [LeadIds -> [Keys -> {"none", "merged", "review"}]]
           /\ past' \in [Keys -> SUBSET LeadIds] /\ built' \in [LeadIds -> SUBSET Keys]
           /\ \A k \in Keys : IF Own(k) \in L THEN record'[k] = NoRecord /\ past'[k] = {}
                              ELSE record'[k] = record[k] /\ past'[k] = past[k]
           /\ \A l \in LeadIds : lead'[l] = IF l \in L THEN NoRow ELSE lead[l]
           /\ \A l \in LeadIds : \A k \in Keys :
                 link'[l][k] = IF l \in L \/ Own(k) \in L THEN "none" ELSE link[l][k]
           /\ UNCHANGED <<issued, now, collecting>>
<1> DEFINE gone == {k \in Keys : record[k].lead \in L}
<1>1. NoRecord \in RecordRow /\ NoRow \in LeadRow
  BY EmptyRows DEF NoRowFacts
<1>2. /\ lead' = [l \in LeadIds |-> IF l \in L THEN NoRow ELSE lead[l]]
      /\ record' = [k \in Keys |-> IF k \in gone THEN NoRecord ELSE record[k]]
      /\ link' = [l \in LeadIds |-> [k \in Keys |-> IF l \in L \/ k \in gone THEN "none"
                                                    ELSE link[l][k]]]
      /\ past' = [k \in Keys |-> IF k \in gone THEN {} ELSE past[k]]
      /\ built' = [l \in LeadIds |-> IF l \in L THEN {} ELSE built[l] \ gone]
      /\ UNCHANGED <<issued, now, collecting>>
  BY DEF Erase
<1>3. \A k \in Keys : k \in gone <=> Own(k) \in L
  BY DEF Own
<1> HIDE DEF gone
<1>4. record' \in [Keys -> RecordRow] /\ lead' \in [LeadIds -> LeadRow]
  BY <1>1, <1>2 DEF TypeOK, RecordRow, LeadRow
<1>5. link' \in [LeadIds -> [Keys -> {"none", "merged", "review"}]]
  BY <1>2 DEF TypeOK
<1>6. past' \in [Keys -> SUBSET LeadIds] /\ built' \in [LeadIds -> SUBSET Keys]
  BY <1>2 DEF TypeOK
<1>7. QED
  BY <1>2, <1>3, <1>4, <1>5, <1>6

\* Erasing leads with their records keeps the invariant.
LEMMA EraseKeeps ==
    ASSUME StoreInv, NEW L \in SUBSET LeadIds, Erase(L),
           suppressed' \subseteq Suppressible \X Values \X (0..MaxTime),
           \A e \in suppressed' : e[3] <= now
    PROVE  StoreInv'
<1> USE DEF StoreInv
<1>1. /\ record' \in [Keys -> RecordRow] /\ lead' \in [LeadIds -> LeadRow]
      /\ link' \in [LeadIds -> [Keys -> {"none", "merged", "review"}]]
      /\ past' \in [Keys -> SUBSET LeadIds] /\ built' \in [LeadIds -> SUBSET Keys]
      /\ UNCHANGED <<issued, now, collecting>>
  BY EraseFacts
<1>2. /\ \A k \in Keys : IF Own(k) \in L THEN record'[k] = NoRecord /\ past'[k] = {}
                         ELSE record'[k] = record[k] /\ past'[k] = past[k]
      /\ \A l \in LeadIds : lead'[l] = IF l \in L THEN NoRow ELSE lead[l]
      /\ \A l \in LeadIds : \A k \in Keys :
            link'[l][k] = IF l \in L \/ Own(k) \in L THEN "none" ELSE link[l][k]
  BY EraseFacts
<1>3. /\ NoRecord.id = 0 /\ NoRecord.lead = NoLead /\ NoRecord.collected = 0
      /\ NoRow.firstSeen = 0
  BY EmptyRows DEF NoRowFacts
<1>4. TypeOK'
  BY <1>1 DEF TypeOK, RecordRow, LeadRow
<1>5. Clocked'
  <2>1. 0 <= now
    BY LimitAssumption DEF TypeOK
  <2>2. \A k \in Keys : record'[k].collected <= now
    BY <1>2, <1>3, <2>1 DEF Clocked
  <2>3. \A l \in LeadIds :
            lead'[l].firstSeen <= now /\ (lead'[l].firstSeen # 0 => l <= issued.lead)
    BY <1>2, <1>3, <2>1 DEF Clocked, Live
  <2>4. QED
    BY <1>1, <2>2, <2>3 DEF Clocked, Live
<1>6. OwnersKnown'
  <2>1. ASSUME NEW k \in Keys
        PROVE  /\ (record'[k].id # 0) <=> record'[k].lead # NoLead
               /\ record'[k].id # 0 =>
                      lead'[record'[k].lead].firstSeen # 0 /\ link'[record'[k].lead][k] = "merged"
    <3>1. CASE Own(k) \in L
      BY <1>2, <1>3, <3>1
    <3>2. CASE Own(k) \notin L
      <4>1. record'[k] = record[k]
        BY <1>2, <3>2
      <4>2. Own(k) # NoLead => Own(k) \in LeadIds
        BY DEF TypeOK, RecordRow, LeadRow, Own
      <4>3. (Stored(k) <=> Own(k) # NoLead) /\ (Stored(k) => Live(Own(k)) /\ link[Own(k)][k] = "merged")
        BY DEF OwnersKnown
      <4>4. Own(k) # NoLead => lead'[Own(k)] = lead[Own(k)] /\ link'[Own(k)][k] = link[Own(k)][k]
        BY <1>2, <3>2, <4>2
      <4>5. QED
        BY <4>1, <4>3, <4>4 DEF Own, Stored, Live
    <3>3. QED
      BY <3>1, <3>2
  <2>2. QED
    BY <2>1 DEF OwnersKnown, Own, Stored, Live
<1>7. LinksKnown'
  <2>1. ASSUME NEW l \in LeadIds, NEW k \in Keys, link'[l][k] # "none"
        PROVE  lead'[l].firstSeen # 0 /\ record'[k].id # 0
    <3>1. l \notin L /\ Own(k) \notin L /\ link[l][k] # "none"
      BY <1>2, <2>1
    <3>2. Live(l) /\ Stored(k)
      BY <3>1 DEF LinksKnown
    <3>3. QED
      BY <1>2, <3>1, <3>2 DEF Live, Stored
  <2>2. QED
    BY <2>1 DEF LinksKnown, Live, Stored
<1>8. PastLinked'
  <2>1. ASSUME NEW k \in Keys, NEW l \in past'[k]
        PROVE  l # record'[k].lead /\ l <= issued.lead
                   /\ (lead'[l].firstSeen # 0 => link'[l][k] # "none")
    <3>1. Own(k) \notin L /\ record'[k] = record[k] /\ l \in past[k] /\ l \in LeadIds
      BY <1>1, <1>2, <2>1
    <3>2. l # Own(k) /\ l <= issued.lead /\ (Live(l) => link[l][k] # "none")
      BY <3>1 DEF PastLinked
    <3>3. CASE l \in L
      BY <1>2, <1>3, <3>1, <3>2, <3>3 DEF Own
    <3>4. CASE l \notin L
      BY <1>2, <3>1, <3>2, <3>4 DEF Own, Live
    <3>5. QED
      BY <3>3, <3>4
  <2>2. QED
    BY <1>1, <2>1 DEF PastLinked, Own, Live
<1>9. QED
  BY <1>4, <1>5, <1>6, <1>7, <1>8

\* Deletions and purges.
LEMMA DeleteSuppresses ==
    ASSUME StoreInv, NEW l \in LeadIds, NEW suppress \in BOOLEAN, DeleteLead(l, suppress)
    PROVE  /\ Erase({l})
           /\ suppressed' \subseteq Suppressible \X Values \X (0..MaxTime)
           /\ \A e \in suppressed' : e[3] <= now /\ (e \in suppressed \/ e[3] = now)
<1> USE DEF StoreInv
<1>1. /\ Suppressing(Contacts(l)) \subseteq Suppressible \X Values \X (0..MaxTime)
      /\ \A e \in Suppressing(Contacts(l)) : e[3] <= now /\ (e \in suppressed \/ e[3] = now)
  BY ContactsType, SuppressingFacts
<1>2. /\ suppressed \subseteq Suppressible \X Values \X (0..MaxTime)
      /\ \A e \in suppressed : e[3] <= now
  BY DEF TypeOK, Clocked
<1>3. QED
  BY <1>1, <1>2 DEF DeleteLead

\* What leaves the catalogue alone: suppressions, and collections that begin
\* and commit.
LEMMA RestKeeps ==
    ASSUME StoreInv, UNCHANGED <<record, lead, link, issued, past, built>>,
           TypeOK', now <= now', collecting' # NoSource => 1 <= now',
           \A e \in suppressed' : e[3] <= now'
    PROVE  StoreInv'
<1> USE DEF StoreInv
<1>1. now \in Nat /\ now' \in Nat
  BY LimitAssumption DEF TypeOK
<1>2. Clocked'
  <2>1. \A k \in Keys : record[k].collected \in Nat
    BY LimitAssumption DEF TypeOK, RecordRow, LeadRow
  <2>2. \A l \in LeadIds : lead[l].firstSeen \in Nat
    BY LimitAssumption DEF TypeOK, RecordRow, LeadRow
  <2>3. (\A k \in Keys : record[k].collected <= now') /\ \A l \in LeadIds : lead[l].firstSeen <= now'
    BY <1>1, <2>1, <2>2 DEF Clocked
  <2>4. QED
    BY <2>3 DEF Clocked, Live
<1>3. OwnersKnown' /\ LinksKnown' /\ PastLinked'
  BY DEF OwnersKnown, LinksKnown, PastLinked, Own, Stored, Live
<1>4. QED
  BY <1>2, <1>3

\* A collection that begins keeps the invariant.
LEMMA BeginKeeps ==
    ASSUME StoreInv, NEW s \in Sources, Begin(s)
    PROVE  StoreInv'
<1> USE DEF StoreInv
<1>1. now \in Nat /\ now + 1 \in 0..MaxTime /\ now <= now + 1 /\ 1 <= now + 1
  BY LimitAssumption DEF TypeOK, Begin
<1>2. TypeOK'
  BY <1>1 DEF TypeOK, Begin
<1>3. \A e \in suppressed : e[3] \in Nat /\ e[3] <= now
  BY LimitAssumption DEF TypeOK, Clocked
<1>4. \A e \in suppressed : e[3] <= now + 1
  BY <1>1, <1>3
<1>5. QED
  BY <1>1, <1>2, <1>4, RestKeeps DEF Begin

\* A collection that commits keeps the invariant.
LEMMA CommitKeeps ==
    ASSUME StoreInv, Commit
    PROVE  StoreInv'
<1> USE DEF StoreInv
<1>1. TypeOK' /\ collecting' = NoSource
  BY DEF TypeOK, Commit
<1>2. now <= now
  BY LimitAssumption DEF TypeOK
<1>3. QED
  BY <1>1, <1>2, RestKeeps DEF Commit, Clocked

\* Suppressing a contact keeps the invariant.
LEMMA SuppressKeeps ==
    ASSUME StoreInv, NEW e, Suppress(e), e \in OptOuts
    PROVE  StoreInv' /\ \A d \in suppressed' : d \in suppressed \/ d[3] = now
<1> USE DEF StoreInv
<1>1. {e} \in SUBSET (Suppressible \X Values)
  BY OptOutsAssumption DEF Suppressible
<1>2. /\ suppressed' \subseteq Suppressible \X Values \X (0..MaxTime)
      /\ \A d \in suppressed' : d[3] <= now /\ (d \in suppressed \/ d[3] = now)
  BY <1>1, SuppressingFacts DEF Suppress
<1>3. TypeOK'
  BY <1>2 DEF TypeOK, Suppress
<1>4. now <= now
  BY LimitAssumption DEF TypeOK
<1>5. QED
  BY <1>2, <1>3, <1>4, RestKeeps DEF Suppress, Clocked

\* Releasing a contact keeps the invariant.
LEMMA UnsuppressKeeps ==
    ASSUME StoreInv, NEW e, Unsuppress(e)
    PROVE  StoreInv'
<1> USE DEF StoreInv
<1>1. suppressed' \subseteq suppressed
  BY DEF Unsuppress
<1>2. TypeOK' /\ now <= now
  BY <1>1, LimitAssumption DEF TypeOK, Unsuppress
<1>3. QED
  BY <1>1, <1>2, RestKeeps DEF Unsuppress, Clocked

\* The empty catalogue satisfies the invariant.
LEMMA StoreInit == Init => StoreInv
<1> SUFFICES ASSUME Init PROVE StoreInv
  OBVIOUS
<1>1. NoRowFacts
  BY EmptyRows
<1>2. 0 \in 0..MaxTime /\ 0 \in 0..MaxLeads /\ 0 <= 0 /\ 0 \in Nat
  BY LimitAssumption
<1>3. TypeOK
  <2>1. record \in [Keys -> RecordRow] /\ lead \in [LeadIds -> LeadRow]
    BY <1>1 DEF Init, NoRowFacts
  <2>2. issued \in [lead : 0..MaxLeads, record : Nat]
    BY <1>2 DEF Init
  <2>3. QED
    BY <1>2, <2>1, <2>2 DEF Init, TypeOK, RecordRow, LeadRow
<1>4. Clocked
  BY <1>1, <1>2 DEF Init, Clocked, NoRowFacts, Live
<1>5. OwnersKnown
  BY <1>1 DEF Init, OwnersKnown, NoRowFacts, Stored, Own
<1>6. LinksKnown /\ PastLinked
  BY DEF Init, LinksKnown, PastLinked
<1>7. QED
  BY <1>3, <1>4, <1>5, <1>6 DEF StoreInv

\* Every step keeps the invariant.
LEMMA StoreStep == StoreInv /\ [Next]_vars => StoreInv'
<1> SUFFICES ASSUME StoreInv, [Next]_vars PROVE StoreInv'
  OBVIOUS
<1>1. ASSUME NEW k, NEW c, Ingest(k, c) PROVE StoreInv'
  BY <1>1, JoinKeeps, RefreshKeeps, CreateKeeps DEF Ingest
<1>2. ASSUME NEW l \in LeadIds, NEW suppress \in BOOLEAN, DeleteLead(l, suppress)
      PROVE  StoreInv'
  BY <1>2, DeleteSuppresses, EraseKeeps
<1>3. ASSUME NEW cutoff, Purge(cutoff) PROVE StoreInv'
  <2>1. Erase({l \in LeadIds : Live(l) /\ lead[l].lastSeen < cutoff}) /\ UNCHANGED suppressed
    BY <1>3 DEF Purge
  <2>2. QED
    BY <2>1, EraseKeeps DEF StoreInv, TypeOK, Clocked
<1>4. CASE UNCHANGED vars
  BY <1>4 DEF vars, StoreInv, TypeOK, Clocked, OwnersKnown, LinksKnown, PastLinked,
              Own, Stored, Live
<1>5. QED
  BY <1>1, <1>2, <1>3, <1>4, BeginKeeps, CommitKeeps, SuppressKeeps, UnsuppressKeeps DEF Next

\* The invariant always holds.
LEMMA StoreAlways == Spec => []StoreInv
BY StoreInit, StoreStep, PTL DEF Spec

-----------------------------------------------------------------------------
(***************************************************************************)
(* The theorems.                                                           *)
(***************************************************************************)
\* The tables keep their types: records, leads, links and suppressions.
THEOREM TypeCorrect == Spec => []TypeOK
<1>1. StoreInv => TypeOK
  BY DEF StoreInv
<1>2. QED
  BY <1>1, StoreAlways, PTL

\* A stored record belongs to a live lead, by a merge that is not up for
\* review: _ingest, delete and purge keep the tables of the catalogue together.
THEOREM OwnersAreExplained == Spec => []OwnerExplained
<1>1. StoreInv => OwnerExplained
  BY DEF StoreInv, OwnersKnown, OwnerExplained
<1>2. QED
  BY <1>1, StoreAlways, PTL

\* A record that left a lead never comes back to it, since link claims a pair
\* only once: merging settles whatever matches whatever.
THEOREM RecordsNeverReturn == Spec => []NeverReturns
<1>1. StoreInv => NeverReturns
  BY DEF StoreInv, PastLinked, NeverReturns
<1>2. QED
  BY <1>1, StoreAlways, PTL

-----------------------------------------------------------------------------
(***************************************************************************)
(* Erasure lasts.  A lead is rebuilt from an incoming record, which is not *)
(* suppressed, and from stored records, which are all younger than the     *)
(* lead and so were checked against what was suppressed before it.         *)
(***************************************************************************)
\* Types of a suppression.
LEMMA SuppressedType ==
    ASSUME TypeOK, NEW e \in suppressed
    PROVE  e[1] \in Fields /\ e[2] \in Values /\ e[2] # NoValue /\ e[3] \in Nat
<1>1. e \in Suppressible \X Values \X (0..MaxTime)
  BY DEF TypeOK
<1>2. e[1] \in {"email", "domain"} /\ e[2] \in Values /\ e[3] \in Nat
  BY <1>1, LimitAssumption DEF Suppressible
<1>3. QED
  BY <1>2, ValuesAssumption DEF Fields, Exact

\* A sighting of record k that leaves it in lead m and rebuilds lead l keeps
\* Erased, if the age of l is kept and its values are those of the sighting
\* or of the records that belong to it.
LEMMA SightErased ==
    ASSUME StoreInv, Erased, NEW k \in Keys, NEW c \in Content,
           NEW l \in LeadIds, NEW m \in LeadIds,
           ~Blocks(c), UNCHANGED suppressed,
           record'[k].content = c, record'[k].collected = now, record'[k].lead = m,
           \A j \in Keys : j # k => record'[j] = record[j],
           \A n \in LeadIds : n # l => lead'[n] = lead[n],
           lead'[l].firstSeen = IF Live(l) THEN lead[l].firstSeen ELSE now,
           \A f \in Fields :
               LET v == lead'[l].content[f]
               IN  \/ v = NoValue
                   \/ v = c[f]
                   \/ \E j \in Keys : Stored(j) /\ Own(j) = l /\ v = record[j].content[f]
    PROVE  Erased'
<1> USE DEF StoreInv
<1>1. \A n \in LeadIds : lead[n].firstSeen \in Nat /\ lead[n].firstSeen <= now
  BY LimitAssumption DEF TypeOK, RecordRow, LeadRow, Clocked
<1>2. now \in Nat /\ now <= now
  BY LimitAssumption DEF TypeOK
<1>3. \A n \in LeadIds : lead'[n].firstSeen <= now
  BY <1>1, <1>2
<1>4. \A n \in LeadIds : Live(n) => lead'[n].firstSeen = lead[n].firstSeen
  OBVIOUS
<1>5. \A e \in suppressed : c[e[1]] # e[2]
  BY DEF Blocks
<1>6. RecordsClean'
  <2>1. \A j \in Keys : \A e \in suppressed :
            record'[j].id # 0 /\ e[3] < record'[j].collected => record'[j].content[e[1]] # e[2]
    BY <1>5 DEF Erased, RecordsClean, Stored
  <2>2. QED
    BY <2>1 DEF RecordsClean, Stored
<1>7. RecordsLater'
  <2>1. ASSUME NEW j \in Keys, record'[j].id # 0
        PROVE  lead'[record'[j].lead].firstSeen <= record'[j].collected
    <3>1. CASE j = k
      BY <1>3, <3>1
    <3>2. CASE j # k
      <4>1. record'[j] = record[j] /\ Stored(j)
        BY <2>1, <3>2 DEF Stored
      <4>2. Own(j) \in LeadIds /\ Live(Own(j))
        BY <4>1 DEF OwnersKnown, TypeOK, RecordRow, LeadRow, Own
      <4>3. lead[Own(j)].firstSeen <= record[j].collected
        BY <4>1 DEF Erased, RecordsLater
      <4>4. QED
        BY <1>4, <4>1, <4>2, <4>3 DEF Own
    <3>3. QED
      BY <3>1, <3>2
  <2>2. QED
    BY <2>1 DEF RecordsLater, Stored, Own
<1>8. ErasureLasts'
  <2>1. ASSUME NEW n \in LeadIds, NEW e \in suppressed,
               lead'[n].firstSeen # 0, lead'[n].firstSeen > e[3]
        PROVE  lead'[n].content[e[1]] # e[2]
    <3>1. e[1] \in Fields /\ e[2] # NoValue /\ e[3] \in Nat
      BY SuppressedType
    <3>2. CASE n # l
      BY <2>1, <3>2 DEF Erased, ErasureLasts, Live
    <3>3. ASSUME NEW j \in Keys, n = l, Stored(j), Own(j) = l
          PROVE  record[j].content[e[1]] # e[2]
      <4>1. Live(l) /\ lead[l].firstSeen <= record[j].collected
        BY <3>3 DEF OwnersKnown, Erased, RecordsLater
      <4>2. e[3] < lead[l].firstSeen
        BY <1>1, <1>4, <2>1, <3>1, <3>3, <4>1
      <4>3. record[j].collected \in Nat
        BY LimitAssumption DEF TypeOK, RecordRow, LeadRow
      <4>4. e[3] < record[j].collected
        BY <1>1, <3>1, <4>1, <4>2, <4>3
      <4>5. QED
        BY <3>3, <4>4 DEF Erased, RecordsClean
    <3>4. CASE n = l
      BY <1>5, <3>1, <3>3, <3>4
    <3>5. QED
      BY <3>2, <3>4
  <2>2. QED
    BY <2>1 DEF ErasureLasts, Live
<1>9. QED
  BY <1>6, <1>7, <1>8 DEF Erased

\* Joining a matched lead keeps Erased.
LEMMA JoinErased ==
    ASSUME StoreInv, Erased, NEW k, NEW c, Join(k, c)
    PROVE  Erased'
<1> USE DEF StoreInv
<1>1. PICK l \in BestMatch(k, c) :
        /\ Sighted(k, c) /\ Rebuild(l, k, c)
        /\ record' = Upserted(k, c, IF LinkClaims(l, k) THEN l ELSE Own(k))
        /\ UNCHANGED suppressed
  BY DEF Join
<1> DEFINE m == IF LinkClaims(l, k) THEN l ELSE Own(k)
           row == Applied(Sightings(l, k, c), lead[l].firstSeen)
<1>2. k \in Keys /\ c \in Content /\ l \in LeadIds /\ Live(l) /\ ~Blocks(c)
  BY <1>1, SightedFacts, MatchFacts DEF Sighted
<1>3. ~LinkClaims(l, k) => Stored(k)
  BY <1>2 DEF LinkClaims, LinksKnown
<1>4. m \in LeadIds
  BY <1>2, <1>3 DEF OwnersKnown, TypeOK, RecordRow, LeadRow, Own
<1>5. /\ record'[k].content = c /\ record'[k].collected = now /\ record'[k].lead = m
      /\ \A j \in Keys : j # k => record'[j] = record[j]
  BY <1>1, <1>4, UpsertedRow
<1>6. lead[l].firstSeen \in 0..MaxTime /\ lead \in [LeadIds -> LeadRow]
  BY <1>2 DEF TypeOK, LeadRow
<1>7. /\ row.firstSeen = lead[l].firstSeen
      /\ \A f \in Fields :
            LET v == row.content[f]
            IN  \/ v = NoValue
                \/ v = c[f]
                \/ \E j \in Keys : Stored(j) /\ Own(j) = l /\ v = record[j].content[f]
  BY <1>2, <1>6, RebuiltRow
<1>8. lead' = [lead EXCEPT ![l] = row]
  BY <1>1 DEF Rebuild
<1> HIDE DEF row, m
<1>9. lead'[l] = row /\ \A n \in LeadIds : n # l => lead'[n] = lead[n]
  BY <1>2, <1>6, <1>8
<1>10. QED
  BY <1>1, <1>2, <1>4, <1>5, <1>7, <1>9, SightErased

\* Refreshing the record's own lead keeps Erased.
LEMMA RefreshErased ==
    ASSUME StoreInv, Erased, NEW k, NEW c, Refresh(k, c)
    PROVE  Erased'
<1> USE DEF StoreInv
<1> DEFINE l == Own(k)
           row == Applied(Sightings(l, k, c), lead[l].firstSeen)
<1>1. /\ Sighted(k, c) /\ l # NoLead /\ Rebuild(l, k, c)
      /\ record' = Upserted(k, c, l) /\ UNCHANGED suppressed
  BY DEF Refresh
<1>2. k \in Keys /\ c \in Content /\ ~Blocks(c)
  BY <1>1, SightedFacts DEF Sighted
<1>3. l \in LeadIds /\ Live(l)
  BY <1>1, <1>2 DEF OwnersKnown, TypeOK, RecordRow, LeadRow, Own
<1>4. /\ record'[k].content = c /\ record'[k].collected = now /\ record'[k].lead = l
      /\ \A j \in Keys : j # k => record'[j] = record[j]
  BY <1>1, <1>3, UpsertedRow
<1>5. lead[l].firstSeen \in 0..MaxTime /\ lead \in [LeadIds -> LeadRow]
  BY <1>3 DEF TypeOK, LeadRow
<1>6. /\ row.firstSeen = lead[l].firstSeen
      /\ \A f \in Fields :
            LET v == row.content[f]
            IN  \/ v = NoValue
                \/ v = c[f]
                \/ \E j \in Keys : Stored(j) /\ Own(j) = l /\ v = record[j].content[f]
  BY <1>2, <1>5, RebuiltRow
<1>7. lead' = [lead EXCEPT ![l] = row]
  BY <1>1 DEF Rebuild
<1> HIDE DEF row, l
<1>8. lead'[l] = row /\ \A n \in LeadIds : n # l => lead'[n] = lead[n]
  BY <1>3, <1>5, <1>7
<1>9. QED
  BY <1>1, <1>2, <1>3, <1>4, <1>6, <1>8, SightErased

\* Creating a lead keeps Erased.
LEMMA CreateErased ==
    ASSUME StoreInv, Erased, NEW k, NEW c, Create(k, c)
    PROVE  Erased'
<1> DEFINE l == issued.lead + 1
<1>1. /\ Sighted(k, c) /\ k \in Keys /\ c \in Content
      /\ l \in LeadIds /\ ~Live(l) /\ lead'[l].firstSeen = now
      /\ \A f \in Fields : lead'[l].content[f] = NoValue \/ lead'[l].content[f] = c[f]
      /\ \A n \in LeadIds : n # l => lead'[n] = lead[n]
      /\ record' = Upserted(k, c, l) /\ UNCHANGED suppressed
  BY CreateFacts
<1> HIDE DEF l
<1>2. /\ record'[k].content = c /\ record'[k].collected = now /\ record'[k].lead = l
      /\ \A j \in Keys : j # k => record'[j] = record[j]
  BY <1>1, UpsertedRow DEF StoreInv
<1>3. ~Blocks(c)
  BY <1>1 DEF Sighted
<1>4. QED
  BY <1>1, <1>2, <1>3, SightErased

\* Rows that only go, and suppressions of the present time.
LEMMA OtherErased ==
    ASSUME StoreInv, Erased,
           \A k \in Keys : record'[k].id # 0 => record'[k] = record[k],
           \A l \in LeadIds : lead'[l].firstSeen # 0 => lead'[l] = lead[l],
           OwnersKnown',
           \A e \in suppressed' : e \in suppressed \/ e[3] = now
    PROVE  Erased'
<1> USE DEF StoreInv
<1>1. now \in Nat /\ \A k \in Keys : record[k].collected \in Nat /\ record[k].collected <= now
  BY LimitAssumption DEF TypeOK, RecordRow, LeadRow, Clocked
<1>2. \A l \in LeadIds : lead[l].firstSeen \in Nat /\ lead[l].firstSeen <= now
  BY LimitAssumption DEF TypeOK, RecordRow, LeadRow, Clocked
<1>3. RecordsClean'
  <2>1. ASSUME NEW k \in Keys, NEW e \in suppressed', record'[k].id # 0, e[3] < record'[k].collected
        PROVE  record'[k].content[e[1]] # e[2]
    <3>1. record'[k] = record[k] /\ Stored(k)
      BY <2>1 DEF Stored
    <3>2. e \in suppressed
      BY <1>1, <2>1, <3>1
    <3>3. QED
      BY <2>1, <3>1, <3>2 DEF Erased, RecordsClean
  <2>2. QED
    BY <2>1 DEF RecordsClean, Stored
<1>4. RecordsLater'
  <2>1. ASSUME NEW k \in Keys, record'[k].id # 0
        PROVE  lead'[record'[k].lead].firstSeen <= record'[k].collected
    <3>1. record'[k] = record[k] /\ Stored(k)
      BY <2>1 DEF Stored
    <3>2. Own(k) \in LeadIds /\ lead'[Own(k)].firstSeen # 0
      BY <2>1, <3>1 DEF OwnersKnown, Own, Stored, Live, TypeOK, RecordRow, LeadRow
    <3>3. QED
      BY <3>1, <3>2 DEF Erased, RecordsLater, Own
  <2>2. QED
    BY <2>1 DEF RecordsLater, Stored, Own
<1>5. ErasureLasts'
  <2>1. ASSUME NEW l \in LeadIds, NEW e \in suppressed',
               lead'[l].firstSeen # 0, lead'[l].firstSeen > e[3]
        PROVE  lead'[l].content[e[1]] # e[2]
    <3>1. lead'[l] = lead[l]
      BY <2>1
    <3>2. e \in suppressed
      BY <1>1, <1>2, <2>1, <3>1
    <3>3. QED
      BY <2>1, <3>1, <3>2 DEF Erased, ErasureLasts, Live
  <2>2. QED
    BY <2>1 DEF ErasureLasts, Live
<1>6. QED
  BY <1>3, <1>4, <1>5 DEF Erased

\* Erasing leads keeps Erased.
LEMMA EraseErased ==
    ASSUME StoreInv, Erased, StoreInv', NEW L \in SUBSET LeadIds, Erase(L),
           \A e \in suppressed' : e \in suppressed \/ e[3] = now
    PROVE  Erased'
<1>1. \A k \in Keys : record'[k] = NoRecord \/ record'[k] = record[k]
  BY EraseFacts DEF StoreInv
<1>2. \A l \in LeadIds : lead'[l] = NoRow \/ lead'[l] = lead[l]
  BY EraseFacts DEF StoreInv
<1>3. NoRecord.id = 0 /\ NoRow.firstSeen = 0
  BY EmptyRows DEF NoRowFacts
<1>4. OwnersKnown'
  BY DEF StoreInv
<1>5. QED
  BY <1>1, <1>2, <1>3, <1>4, OtherErased

\* The empty catalogue satisfies Erased.
LEMMA ErasedInit == Init => Erased
<1> SUFFICES ASSUME Init PROVE Erased
  OBVIOUS
<1>1. NoRowFacts
  BY EmptyRows
<1>2. QED
  BY <1>1 DEF Init, Erased, RecordsClean, RecordsLater, ErasureLasts, NoRowFacts, Stored, Live

\* Every step keeps Erased.
LEMMA ErasedStep == StoreInv /\ StoreInv' /\ Erased /\ [Next]_vars => Erased'
<1> SUFFICES ASSUME StoreInv, StoreInv', Erased, [Next]_vars PROVE Erased'
  OBVIOUS
<1>1. ASSUME NEW k, NEW c, Ingest(k, c) PROVE Erased'
  BY <1>1, JoinErased, RefreshErased, CreateErased DEF Ingest
<1>2. ASSUME NEW l \in LeadIds, NEW suppress \in BOOLEAN, DeleteLead(l, suppress)
      PROVE  Erased'
  BY <1>2, DeleteSuppresses, EraseErased
<1>3. ASSUME NEW cutoff, Purge(cutoff) PROVE Erased'
  <2>1. Erase({l \in LeadIds : Live(l) /\ lead[l].lastSeen < cutoff}) /\ UNCHANGED suppressed
    BY <1>3 DEF Purge
  <2>2. QED
    BY <2>1, EraseErased
<1>4. ASSUME UNCHANGED <<record, lead>>, \A e \in suppressed' : e \in suppressed \/ e[3] = now
      PROVE  Erased'
  <2>1. OwnersKnown'
    BY DEF StoreInv
  <2>2. QED
    BY <1>4, <2>1, OtherErased
<1>5. CASE UNCHANGED vars
  BY <1>4, <1>5 DEF vars
<1>6. ASSUME NEW s, Begin(s) PROVE Erased'
  BY <1>4, <1>6 DEF Begin
<1>7. CASE Commit
  BY <1>4, <1>7 DEF Commit
<1>8. ASSUME NEW e \in OptOuts, Suppress(e) PROVE Erased'
  <2>1. \A d \in suppressed' : d \in suppressed \/ d[3] = now
    BY <1>8, SuppressKeeps
  <2>2. QED
    BY <1>4, <1>8, <2>1 DEF Suppress
<1>9. ASSUME NEW e, Unsuppress(e) PROVE Erased'
  BY <1>4, <1>9 DEF Unsuppress
<1>10. QED
  BY <1>1, <1>2, <1>3, <1>5, <1>6, <1>7, <1>8, <1>9 DEF Next

\* A lead that appears after a contact was suppressed never shows it, whatever
\* is merged into it later: suppressions are checked before a record is stored
\* (_ingest), and a lead is built from records no older than itself.
THEOREM ErasureIsLasting == Spec => []ErasureLasts
<1>1. Spec => []Erased
  BY StoreAlways, ErasedInit, ErasedStep, PTL DEF Spec
<1>2. Erased => ErasureLasts
  BY DEF Erased
<1>3. QED
  BY <1>1, <1>2, PTL

-----------------------------------------------------------------------------
(***************************************************************************)
(* What a step may never do.                                               *)
(***************************************************************************)
\* Only Create hands out an id of a lead, and only to a record that was not
\* stored: collecting a known record again never makes a second company.
THEOREM KnownRecordsKeepTheirLead == Spec => KnownNeverRecreated
<1> DEFINE A == issued'.lead # issued.lead =>
                    \E k \in Keys : ~Stored(k) /\ record'[k].lead = issued'.lead
<1>1. StoreInv /\ [Next]_vars => [A]_vars
  <2> SUFFICES ASSUME StoreInv, Next, issued'.lead # issued.lead
               PROVE  \E k \in Keys : ~Stored(k) /\ record'[k].lead = issued'.lead
    OBVIOUS
  <2>1. ASSUME NEW k, NEW c, Create(k, c)
        PROVE  \E j \in Keys : ~Stored(j) /\ record'[j].lead = issued'.lead
    <3>1. /\ Sighted(k, c) /\ k \in Keys /\ ~Stored(k) /\ issued.lead + 1 \in LeadIds
          /\ record' = Upserted(k, c, issued.lead + 1) /\ issued'.lead = issued.lead + 1
      BY <2>1, CreateFacts
    <3>2. record'[k].lead = issued'.lead
      BY <3>1, UpsertedRow DEF StoreInv
    <3>3. QED
      BY <3>1, <3>2
  <2>2. ASSUME NEW k, NEW c, Join(k, c) PROVE FALSE
    <3>1. Issue(k, 0) /\ issued.lead \in Nat
      BY <2>2, LimitAssumption DEF Join, StoreInv, TypeOK
    <3>2. QED
      BY <3>1 DEF Issue
  <2>3. ASSUME NEW k, NEW c, Refresh(k, c) PROVE FALSE
    BY <2>3 DEF Refresh
  <2>4. ASSUME NEW L, Erase(L) PROVE FALSE
    BY <2>4 DEF Erase
  <2>5. QED
    BY <2>1, <2>2, <2>3, <2>4
       DEF Next, Ingest, Begin, Commit, DeleteLead, Purge, Suppress, Unsuppress
<1>2. [][A]_vars => KnownNeverRecreated
  BY DEF KnownNeverRecreated
<1>3. QED
  BY <1>1, <1>2, StoreAlways, PTL DEF Spec

\* Names merge nothing: the cap of the name rule is below the threshold.
LEMMA AutoIsExact ==
    ASSUME NEW a \in Content, NEW b \in Content, AutoMerge(Confidence(a, b))
    PROVE  \E f \in Exact : Same(a, b, f)
<1>1. ASSUME NEW d \in Content PROVE Fingerprint(d, "name") \in Values \cup {NoValue}
  BY <1>1 DEF Fingerprint, Content, Fields
<1>2. NameConfidence(a, b) \in 0..80
  <2> DEFINE x == Fingerprint(a, "name")
             y == Fingerprint(b, "name")
  <2>1. CASE x = NoValue \/ y = NoValue
    BY <2>1 DEF NameConfidence
  <2>2. CASE x # NoValue /\ y # NoValue
    <3>1. Similarity[x][y] \in 0..100
      BY <1>1, <2>2, SimilarityAssumption
    <3> HIDE DEF x, y
    <3>2. NameConfidence(a, b) =
              IF Similarity[x][y] < 70 THEN 0
              ELSE IF Similarity[x][y] > 80 THEN 80 ELSE Similarity[x][y]
      BY <2>2 DEF NameConfidence, NAME_SIMILARITY_THRESHOLD, NAME_CONFIDENCE_CAP, x, y
    <3>3. QED
      BY <3>1, <3>2
  <2>3. QED
    BY <2>1, <2>2
<1>3. ~ NameConfidence(a, b) >= 85
  BY <1>2
<1>4. QED
  BY <1>3 DEF AutoMerge, AUTO_MERGE_THRESHOLD, Confidence, Exact

\* A record moves into a lead that exists only on an equal email, domain or
\* phone, for every measure of similarity of names.
THEOREM MergesAreExact == Spec => MergedOnExactMatch
<1> DEFINE A == \A k \in Keys : \A l \in LeadIds :
                    Live(l) /\ Own(k) # l /\ record'[k].lead = l
                        => \E f \in Exact : Same(record'[k].content, lead[l].content, f)
<1>1. StoreInv /\ [Next]_vars => [A]_vars
  <2> SUFFICES ASSUME StoreInv, Next, NEW k \in Keys, NEW l \in LeadIds,
                      Live(l), Own(k) # l, record'[k].lead = l
               PROVE  \E f \in Exact : Same(record'[k].content, lead[l].content, f)
    OBVIOUS
  <2> USE DEF StoreInv
  <2>1. record'[k] # record[k]
    BY DEF Own
  <2>2. ASSUME NEW j, NEW c, Join(j, c)
        PROVE  \E f \in Exact : Same(record'[k].content, lead[l].content, f)
    <3>1. PICK m \in BestMatch(j, c) :
            /\ Sighted(j, c) /\ IsAuto(m, c)
            /\ record' = Upserted(j, c, IF LinkClaims(m, j) THEN m ELSE Own(j))
      BY <2>2 DEF Join
    <3>2. j \in Keys /\ c \in Content /\ m \in LeadIds
      BY <3>1, SightedFacts, MatchFacts
    <3>3. (IF LinkClaims(m, j) THEN m ELSE Own(j)) \in LeadIds \cup {NoLead}
      BY <3>2 DEF TypeOK, RecordRow, LeadRow, Own
    <3>4. /\ record'[j].content = c
          /\ record'[j].lead = (IF LinkClaims(m, j) THEN m ELSE Own(j))
          /\ \A i \in Keys : i # j => record'[i] = record[i]
      BY <3>1, <3>3, UpsertedRow
    <3>5. k = j /\ l = m
      BY <2>1, <3>4
    <3>6. lead[l].content \in Content
      BY DEF TypeOK, RecordRow, LeadRow
    <3>7. QED
      BY <3>1, <3>2, <3>4, <3>5, <3>6, AutoIsExact DEF IsAuto
  <2>3. ASSUME NEW j, NEW c, Refresh(j, c) PROVE FALSE
    <3>1. Sighted(j, c) /\ record' = Upserted(j, c, Own(j))
      BY <2>3 DEF Refresh
    <3>2. j \in Keys /\ Own(j) \in LeadIds \cup {NoLead}
      BY <3>1, SightedFacts DEF TypeOK, RecordRow, LeadRow, Own
    <3>3. record'[j].lead = Own(j) /\ \A i \in Keys : i # j => record'[i] = record[i]
      BY <3>1, <3>2, UpsertedRow
    <3>4. QED
      BY <2>1, <3>3
  <2>4. ASSUME NEW j, NEW c, Create(j, c) PROVE FALSE
    <3>1. /\ Sighted(j, c) /\ issued.lead + 1 \in LeadIds /\ ~Live(issued.lead + 1)
          /\ record' = Upserted(j, c, issued.lead + 1)
      BY <2>4, CreateFacts
    <3>2. record'[j].lead = issued.lead + 1 /\ \A i \in Keys : i # j => record'[i] = record[i]
      BY <3>1, UpsertedRow
    <3>3. QED
      BY <2>1, <3>1, <3>2
  <2>5. ASSUME NEW L \in SUBSET LeadIds, Erase(L) PROVE FALSE
    <3>1. record'[k] = NoRecord \/ record'[k] = record[k]
      BY <2>5, EraseFacts
    <3>2. NoRecord.lead = 0 /\ l # 0
      BY EmptyRows DEF NoRowFacts, NoLead, LeadIds
    <3>3. QED
      BY <2>1, <3>1, <3>2
  <2>6. ASSUME NEW m \in LeadIds, NEW suppress, DeleteLead(m, suppress) PROVE FALSE
    BY <2>5, <2>6 DEF DeleteLead
  <2>7. ASSUME NEW cutoff, Purge(cutoff) PROVE FALSE
    BY <2>5, <2>7 DEF Purge
  <2>8. QED
    BY <2>1, <2>2, <2>3, <2>4, <2>6, <2>7 DEF Next, Ingest, Begin, Commit, Suppress, Unsuppress
<1>2. [][A]_vars => MergedOnExactMatch
  BY DEF MergedOnExactMatch
<1>3. QED
  BY <1>1, <1>2, StoreAlways, PTL DEF Spec

-----------------------------------------------------------------------------
(***************************************************************************)
(* An exact match is missed only behind a full lookup.                     *)
(***************************************************************************)
\* A set of naturals that is not empty has a least element.
LEMMA Minimum ==
    ASSUME NEW T \in SUBSET Nat, T # {}
    PROVE  \E x \in T : \A y \in T : x <= y
<1>1. \E x \in T : \A y \in T : ~ (<<y, x>> \in OpToRel(<, Nat))
  BY WFMin, NatLessThanWellFounded, Zenon
<1>2. \E x \in T : \A y \in T : ~ (y < x)
  BY <1>1, Zenon DEF OpToRel
<1>3. QED
  BY <1>2

\* Confidence is a percentage, and at least 90 on an exact match.
LEMMA ConfidenceType ==
    ASSUME NEW a \in Content, NEW b \in Content
    PROVE  /\ Confidence(a, b) \in 0..100
           /\ \A f \in Exact : Same(a, b, f) => Confidence(a, b) >= 90
<1>1. ASSUME NEW d \in Content PROVE Fingerprint(d, "name") \in Values \cup {NoValue}
  BY <1>1 DEF Fingerprint, Content, Fields
<1>2. NameConfidence(a, b) \in 0..100
  <2> DEFINE x == Fingerprint(a, "name")
             y == Fingerprint(b, "name")
  <2>1. CASE x = NoValue \/ y = NoValue
    BY <2>1 DEF NameConfidence
  <2>2. CASE x # NoValue /\ y # NoValue
    <3>1. Similarity[x][y] \in 0..100
      BY <1>1, <2>2, SimilarityAssumption
    <3> HIDE DEF x, y
    <3>2. NameConfidence(a, b) \in {0, 80, Similarity[x][y]}
      BY <2>2 DEF NameConfidence, NAME_SIMILARITY_THRESHOLD, NAME_CONFIDENCE_CAP, x, y
    <3>3. QED
      BY <3>1, <3>2
  <2>3. QED
    BY <2>1, <2>2
<1>3. Confidence(a, b) \in {100, 95, 90, NameConfidence(a, b)}
  BY DEF Confidence, EXACT_CONFIDENCE
<1>4. ASSUME NEW f \in Exact, Same(a, b, f) PROVE Confidence(a, b) \in {100, 95, 90}
  BY <1>4 DEF Exact, Confidence, EXACT_CONFIDENCE
<1>5. QED
  BY <1>2, <1>3, <1>4

\* Of several candidates one is the best.
LEMMA BestExists ==
    ASSUME TypeOK, NEW k, NEW c \in Content, NEW l \in FindCandidates(c), l # Own(k)
    PROVE  \E b \in BestMatch(k, c) :
               Confidence(c, lead[b].content) >= Confidence(c, lead[l].content)
<1> DEFINE M == FindCandidates(c) \ {Own(k)}
           conf(n) == Confidence(c, lead[n].content)
           T == {100 - conf(n) : n \in M}
<1>1. l \in M /\ M \subseteq LeadIds
  BY DEF FindCandidates
<1>2. \A n \in M : n \in Nat /\ conf(n) \in 0..100
  <2> SUFFICES ASSUME NEW n \in M PROVE n \in Nat /\ conf(n) \in 0..100
    OBVIOUS
  <2>1. n \in LeadIds
    BY <1>1
  <2>2. n \in Nat
    BY <2>1, LimitAssumption DEF LeadIds
  <2>3. lead[n].content \in Content
    BY <2>1 DEF TypeOK, RecordRow, LeadRow
  <2>4. Confidence(c, lead[n].content) \in 0..100
    BY <2>3, ConfidenceType
  <2>5. QED
    BY <2>2, <2>4
<1>3. BestMatch(k, c) = {n \in M : \A m \in M : conf(m) < conf(n) \/ (conf(m) = conf(n) /\ n <= m)}
  BY DEF BestMatch
<1> HIDE DEF M, conf
<1>4. T \in SUBSET Nat /\ T # {}
  BY <1>1, <1>2
<1>5. PICK x \in T : \A y \in T : x <= y
  BY <1>4, Minimum
<1> DEFINE U == {n \in M : 100 - conf(n) = x}
<1>6. U \in SUBSET Nat /\ U # {}
  BY <1>2, <1>5
<1>7. PICK b \in U : \A n \in U : b <= n
  BY <1>6, Minimum
<1>8. ASSUME NEW m \in M
      PROVE  conf(m) < conf(b) \/ (conf(m) = conf(b) /\ b <= m)
  <2>1. 100 - conf(m) \in T
    OBVIOUS
  <2>2. x <= 100 - conf(m) /\ x = 100 - conf(b)
    BY <1>5, <1>7, <2>1
  <2>3. conf(m) \in 0..100 /\ conf(b) \in 0..100
    BY <1>2, <1>7
  <2>4. conf(m) <= conf(b)
    BY <2>2, <2>3
  <2>5. conf(m) = conf(b) => m \in U
    BY <2>2
  <2>6. QED
    BY <1>7, <2>3, <2>4, <2>5
<1>9. b \in BestMatch(k, c)
  BY <1>3, <1>7, <1>8
<1>10. conf(b) >= conf(l)
  BY <1>1, <1>2, <1>7, <1>8
<1>11. QED
  BY <1>9, <1>10 DEF conf

\* A merge of one candidate is its content.
LEMMA MergeOne ==
    ASSUME NEW x, x.content \in Content
    PROVE  Merge({x}) = x.content
<1>1. ASSUME NEW f \in Fields
      PROVE  Merge({x})[f] = x.content[f]
  <2>1. CASE x.content[f] = NoValue
    <3>1. Winners({x}, f) = {}
      BY <2>1 DEF Winners
    <3>2. QED
      BY <2>1, <3>1 DEF Merge
  <2>2. CASE x.content[f] # NoValue
    <3>1. Winners({x}, f) = {x}
      BY <2>2 DEF Winners
    <3>2. (CHOOSE c \in {x} : TRUE) = x
      OBVIOUS
    <3>3. QED
      BY <3>1, <3>2 DEF Merge
  <2>3. QED
    BY <2>1, <2>2
<1>2. x.content = [f \in Fields |-> x.content[f]]
  BY DEF Content
<1>3. Merge({x}) = [f \in Fields |-> Merge({x})[f]]
  BY DEF Merge
<1>4. QED
  BY <1>1, <1>2, <1>3

\* A new lead shows what its record says.
LEMMA NewContent ==
    ASSUME StoreInv, NEW k, NEW c, Create(k, c)
    PROVE  lead'[issued.lead + 1].content = c
<1> DEFINE l == issued.lead + 1
           x == Candidate(k, RecordId(k), c, now)
<1>1. c \in Content /\ l \in LeadIds
  BY CreateFacts
<1>2. x.content = c
  BY DEF Candidate
<1>3. lead' = [lead EXCEPT ![l] = Applied({x}, now)]
  BY DEF Create
<1> HIDE DEF x
<1>4. lead'[l] = Applied({x}, now)
  BY <1>1, <1>3 DEF StoreInv, TypeOK
<1>5. Applied({x}, now).content = Merge({x})
  BY DEF Applied
<1>6. QED
  BY <1>1, <1>2, <1>4, <1>5, MergeOne

\* A lookup that misses the lead m, which would merge, and finds no other that
\* would, has been filled by Limit leads older than m that only resemble c: the
\* oldest of those that would merge has no others before it.
LEMMA MissedBehind ==
    ASSUME TypeOK, NEW c \in Content, NEW m \in LeadIds,
           Live(m), IsAuto(m, c), \A e \in FindCandidates(c) : ~IsAuto(e, c)
    PROVE  m \in Behind(c)
<1> DEFINE hits == {n \in LeadIds : Live(n) /\ Confidence(c, lead[n].content) > 0}
           exact == {n \in hits : IsAuto(n, c)}
           alike(n) == {a \in LeadIds : a < n /\ Resembles(a, c)}
<1>1. \A n \in LeadIds : n \in Nat /\ Confidence(c, lead[n].content) \in 0..100
  <2> SUFFICES ASSUME NEW n \in LeadIds
               PROVE  n \in Nat /\ Confidence(c, lead[n].content) \in 0..100
    OBVIOUS
  <2>1. lead[n].content \in Content
    BY DEF TypeOK, LeadRow
  <2>2. QED
    BY <2>1, ConfidenceType, LimitAssumption DEF LeadIds
<1>2. m \in exact
  BY <1>1 DEF IsAuto, AutoMerge, AUTO_MERGE_THRESHOLD
<1>3. exact \in SUBSET Nat /\ exact # {}
  BY <1>1, <1>2
<1>4. PICK e \in exact : \A n \in exact : e <= n
  BY <1>3, Minimum
<1>5. e \in LeadIds /\ e \in Nat /\ m \in Nat /\ e <= m
  BY <1>1, <1>2, <1>4
<1>6. {n \in hits : n < e} \subseteq alike(m)
  <2> SUFFICES ASSUME NEW n \in hits, n < e PROVE n < m /\ Resembles(n, c)
    OBVIOUS
  <2>1. n \in Nat /\ Confidence(c, lead[n].content) \in 0..100
    BY <1>1
  <2>2. n \notin exact
    BY <1>4, <1>5, <2>1
  <2>3. QED
    BY <1>5, <2>1, <2>2 DEF IsAuto, AutoMerge, AUTO_MERGE_THRESHOLD, Resembles
<1>7. IsFiniteSet(alike(m))
  <2>1. alike(m) \subseteq 1..MaxLeads
    BY DEF LeadIds
  <2>2. IsFiniteSet(1..MaxLeads)
    BY LimitAssumption, FS_Interval
  <2>3. QED
    BY <2>1, <2>2, FS_Subset
<1>8. /\ Cardinality({n \in hits : n < e}) \in Nat /\ Cardinality(alike(m)) \in Nat
      /\ Cardinality({n \in hits : n < e}) <= Cardinality(alike(m))
  BY <1>6, <1>7, FS_Subset, FS_CardinalityType
<1>9. ~(Cardinality({n \in hits : n < e}) < Limit)
  <2>1. e \notin FindCandidates(c)
    BY <1>4
  <2>2. FindCandidates(c) = {l \in hits : Cardinality({n \in hits : n < l}) < Limit}
    BY DEF FindCandidates
  <2>3. QED
    BY <1>4, <2>1, <2>2
<1>10. Cardinality(alike(m)) >= Limit
  BY <1>8, <1>9, LimitAssumption
<1>11. QED
  BY <1>10 DEF Behind

\* A company with an email, domain or phone that some lead has gets a lead of its
\* own only if Limit leads older than that one resemble it: for every Limit and
\* every number of leads, there is no other way to miss an exact match.
THEOREM ExactMatchesMerge == Spec => NewLeadIsNew
<1> DEFINE A == \A l \in LeadIds : issued.lead < l /\ l <= issued'.lead =>
                    \A m \in LeadIds : Live(m) =>
                        \A f \in Exact : Same(lead'[l].content, lead[m].content, f)
                                            => m \in Behind(lead'[l].content)
<1>1. StoreInv /\ [Next]_vars => [A]_vars
  <2> SUFFICES ASSUME StoreInv, Next,
                      NEW l \in LeadIds, issued.lead < l, l <= issued'.lead,
                      NEW m \in LeadIds, Live(m),
                      NEW f \in Exact, Same(lead'[l].content, lead[m].content, f)
               PROVE  m \in Behind(lead'[l].content)
    OBVIOUS
  <2> USE DEF StoreInv
  <2>1. issued.lead \in Nat /\ l \in Nat
    BY LimitAssumption DEF TypeOK, LeadIds
  <2>2. issued'.lead # issued.lead
    BY <2>1
  <2>3. ASSUME NEW k, NEW c, Create(k, c)
        PROVE  m \in Behind(lead'[l].content)
    <3>1. c \in Content /\ Own(k) = NoLead /\ issued'.lead = issued.lead + 1
      BY <2>3, CreateFacts
    <3>2. lead'[l].content = c
      <4>1. l = issued.lead + 1
        BY <2>1, <3>1
      <4>2. QED
        BY <2>3, <4>1, NewContent
    <3>3. lead[m].content \in Content
      BY DEF TypeOK, LeadRow
    <3>4. IsAuto(m, c)
      <4>1. Same(c, lead[m].content, f)
        BY <3>2
      <4>2. /\ Confidence(c, lead[m].content) \in 0..100
            /\ Confidence(c, lead[m].content) >= 90
        BY <3>1, <3>3, <4>1, ConfidenceType
      <4>3. QED
        BY <4>2 DEF IsAuto, AutoMerge, AUTO_MERGE_THRESHOLD
    <3>5. ASSUME NEW e \in FindCandidates(c)
          PROVE  ~IsAuto(e, c)
      <4>1. e \in LeadIds /\ e # Own(k)
        BY <3>1 DEF FindCandidates, NoLead, LeadIds
      <4>2. PICK b \in BestMatch(k, c) :
                Confidence(c, lead[b].content) >= Confidence(c, lead[e].content)
        BY <3>1, <4>1, BestExists
      <4>3. b \in LeadIds /\ lead[b].content \in Content /\ lead[e].content \in Content
        BY <4>1, MatchFacts DEF TypeOK, LeadRow
      <4>4. Confidence(c, lead[b].content) \in 0..100 /\ Confidence(c, lead[e].content) \in 0..100
        BY <3>1, <4>3, ConfidenceType
      <4>5. ~IsAuto(b, c)
        BY <2>3 DEF Create
      <4>6. QED
        BY <4>2, <4>4, <4>5 DEF IsAuto, AutoMerge, AUTO_MERGE_THRESHOLD
    <3>6. QED
      BY <3>1, <3>2, <3>4, <3>5, MissedBehind
  <2>4. ASSUME NEW k, NEW c, Join(k, c) PROVE m \in Behind(lead'[l].content)
    <3>1. Issue(k, 0)
      BY <2>4 DEF Join
    <3>2. QED
      BY <2>1, <2>2, <3>1 DEF Issue
  <2>5. ASSUME NEW k, NEW c, Refresh(k, c) PROVE m \in Behind(lead'[l].content)
    BY <2>2, <2>5 DEF Refresh
  <2>6. ASSUME NEW L, Erase(L) PROVE m \in Behind(lead'[l].content)
    BY <2>2, <2>6 DEF Erase
  <2>7. QED
    BY <2>2, <2>3, <2>4, <2>5, <2>6
       DEF Next, Ingest, Begin, Commit, DeleteLead, Purge, Suppress, Unsuppress
<1>2. [][A]_vars => NewLeadIsNew
  BY DEF NewLeadIsNew
<1>3. QED
  BY <1>1, <1>2, StoreAlways, PTL DEF Spec

-----------------------------------------------------------------------------
(***************************************************************************)
(* The order of a merge.  _rank is a strict total order on candidates with *)
(* ids of their own, so a stable sort of any list of them ends in the same *)
(* order, and the first with a value is the one that outranks the others.  *)
(***************************************************************************)
\* What merge is given: rows of source_records with the priority of their source.
CandidateRow == [id : Nat, priority : Int, collected : Nat, content : Content]

\* Candidates that _rank tells apart.
Distinct(C) ==
    /\ IsFiniteSet(C) /\ C \subseteq CandidateRow
    /\ \A a, b \in C : a.id = b.id => a = b

\* The number of filled fields is a number.
LEMMA FilledType == ASSUME NEW c PROVE Filled(c) \in Nat
<1> DEFINE F == {f \in Fields : c[f] # NoValue}
<1>1. IsFiniteSet({"email"} \cup {"domain"})
  BY FS_Singleton, FS_Union
<1>2. IsFiniteSet(({"email"} \cup {"domain"}) \cup {"phone"})
  BY <1>1, FS_Singleton, FS_Union
<1>3. IsFiniteSet((({"email"} \cup {"domain"}) \cup {"phone"}) \cup {"name"})
  BY <1>2, FS_Singleton, FS_Union
<1>4. Fields = (({"email"} \cup {"domain"}) \cup {"phone"}) \cup {"name"}
  BY DEF Fields, Exact
<1>5. F \subseteq Fields /\ IsFiniteSet(F)
  BY <1>3, <1>4, FS_Subset
<1>6. Cardinality(F) \in Nat
  BY <1>5, FS_CardinalityType
<1>7. QED
  BY <1>6 DEF Filled

\* A tuple of _rank is less than another where its candidate outranks the other.
LEMMA LessIsOutranks ==
    ASSUME NEW a \in CandidateRow, NEW b \in CandidateRow
    PROVE  Less(Rank(a), Rank(b)) <=> Outranks(a, b)
<1> DEFINE r == Rank(a)
           s == Rank(b)
<1>1. Filled(a.content) \in Nat /\ Filled(b.content) \in Nat
  BY FilledType
<1>2. a.priority \in Int /\ b.priority \in Int /\ a.collected \in Nat /\ b.collected \in Nat
      /\ a.id \in Nat /\ b.id \in Nat
  BY DEF CandidateRow
<1>3. DOMAIN r = 1..4 
  BY DEF Rank
<1>4. /\ r[1] = -a.priority /\ r[2] = -a.collected /\ r[3] = -Filled(a.content) /\ r[4] = a.id
      /\ s[1] = -b.priority /\ s[2] = -b.collected /\ s[3] = -Filled(b.content) /\ s[4] = b.id
  BY DEF Rank
<1> HIDE DEF r, s
<1>5. Less(r, s) <=> \/ r[1] < s[1]
                     \/ r[2] < s[2] /\ r[1] = s[1]
                     \/ r[3] < s[3] /\ r[1] = s[1] /\ r[2] = s[2]
                     \/ r[4] < s[4] /\ r[1] = s[1] /\ r[2] = s[2] /\ r[3] = s[3]
  <2>1. Less(r, s) <=> \E n \in 1..4 : r[n] < s[n] /\ \A m \in 1..(n - 1) : r[m] = s[m]
    BY <1>3 DEF Less
  <2>2. ASSUME NEW n \in 1..4
        PROVE  (\A m \in 1..(n - 1) : r[m] = s[m]) <=> 
                  /\ n > 1 => r[1] = s[1]
                  /\ n > 2 => r[2] = s[2]
                  /\ n > 3 => r[3] = s[3]
    <3>1. \A m : m \in 1..(n - 1) <=> (m = 1 /\ n > 1) \/ (m = 2 /\ n > 2) \/ (m = 3 /\ n > 3)
      OBVIOUS
    <3>2. QED
      BY <3>1
  <2>3. QED
    BY <2>1, <2>2
<1>6. QED
  BY <1>1, <1>2, <1>4, <1>5 DEF Outranks, r, s

\* Outranking is a strict order, and total on candidates with ids of their own.
LEMMA OutranksOrders ==
    ASSUME NEW a \in CandidateRow, NEW b \in CandidateRow, NEW c \in CandidateRow
    PROVE  /\ ~Outranks(a, a)
           /\ Outranks(a, b) => ~Outranks(b, a)
           /\ Outranks(a, b) /\ Outranks(b, c) => Outranks(a, c)
           /\ a.id # b.id => Outranks(a, b) \/ Outranks(b, a)
<1>1. Filled(a.content) \in Nat /\ Filled(b.content) \in Nat /\ Filled(c.content) \in Nat
  BY FilledType
<1>2. a.priority \in Int /\ b.priority \in Int /\ c.priority \in Int
      /\ a.collected \in Nat /\ b.collected \in Nat /\ c.collected \in Nat
      /\ a.id \in Nat /\ b.id \in Nat /\ c.id \in Nat
  BY DEF CandidateRow
<1>3. QED
  BY <1>1, <1>2 DEF Outranks

\* Counting what comes before each place of a strict total order numbers the
\* places from 1 to n, in that order.
LEMMA PlaceFacts ==
    ASSUME NEW n \in Nat, NEW R,
           \A i \in 1..n : <<i, i>> \notin R,
           \A i, j \in 1..n : i # j => <<i, j>> \in R \/ <<j, i>> \in R,
           \A i, j, k \in 1..n : <<i, j>> \in R /\ <<j, k>> \in R => <<i, k>> \in R
    PROVE  LET place == [i \in 1..n |-> 1 + Cardinality({j \in 1..n : <<j, i>> \in R})]
           IN  /\ place \in [1..n -> 1..n]
               /\ \A i, j \in 1..n : <<i, j>> \in R => place[i] < place[j]
               /\ \A i, j \in 1..n : place[i] = place[j] => i = j
               /\ \A m \in 1..n : \E i \in 1..n : place[i] = m
<1> DEFINE D == 1..n
           below(i) == {j \in D : <<j, i>> \in R}
           place == [i \in D |-> 1 + Cardinality(below(i))]
<1>1. IsFiniteSet(D) /\ Cardinality(D) = n
  BY FS_Interval
<1>2. ASSUME NEW i \in D PROVE IsFiniteSet(below(i)) /\ Cardinality(below(i)) \in Nat
  <2>1. below(i) \in SUBSET D
    OBVIOUS
  <2> HIDE DEF below, D
  <2>2. IsFiniteSet(below(i))
    BY <1>1, <2>1, FS_Subset
  <2>3. QED
    BY <2>2, FS_CardinalityType
<1>3. ASSUME NEW i \in D PROVE place[i] \in D
  <2>1. IsFiniteSet(D \ {i}) /\ Cardinality(D \ {i}) = n - 1
    BY <1>1, FS_RemoveElement
  <2>2. below(i) \in SUBSET (D \ {i})
    OBVIOUS
  <2>3. Cardinality(below(i)) \in Nat /\ Cardinality(below(i)) <= n - 1
    <3> DEFINE S == D \ {i}
    <3> HIDE DEF S, below
    <3>1. Cardinality(below(i)) <= Cardinality(S)
      BY <2>1, <2>2, FS_Subset DEF S
    <3>2. QED
      BY <1>2, <2>1, <3>1 DEF S
  <2> HIDE DEF below
  <2>4. QED
    BY <2>3
<1>4. ASSUME NEW i \in D, NEW j \in D, <<i, j>> \in R
      PROVE  place[i] < place[j]
  <2>1. below(i) \subseteq below(j) /\ i \in below(j) /\ i \notin below(i)
    BY <1>4
  <2>2. IsFiniteSet(below(j))
    BY <1>2
  <2>3. Cardinality(below(i)) <= Cardinality(below(j)) /\ Cardinality(below(i)) # Cardinality(below(j))
    <3> DEFINE S == below(j)
               T == below(i)
    <3>1. T \in SUBSET S /\ S # T
      BY <2>1, Zenon
    <3> HIDE DEF S, T
    <3>2. QED
      BY <2>2, <3>1, FS_Subset DEF S, T
  <2>4. Cardinality(below(i)) \in Nat /\ Cardinality(below(j)) \in Nat
    BY <1>2
  <2> HIDE DEF below
  <2>5. QED
    BY <2>3, <2>4
<1>5. \A i \in D : place[i] \in Nat
  BY <1>3
<1> HIDE DEF below, place
<1>6. ASSUME NEW i \in D, NEW j \in D, place[i] = place[j] PROVE i = j
  <2>1. ~(<<i, j>> \in R) /\ ~(<<j, i>> \in R)
    BY <1>4, <1>5, <1>6
  <2>2. QED
    BY <2>1
<1>7. place \in [D -> D]
  BY <1>3 DEF place
<1>8. place \in Injection(D, D)
  BY <1>6, <1>7 DEF Injection, IsInjective
<1>9. place \in Surjection(D, D)
  BY <1>1, <1>8, FS_Injection
<1>10. \A m \in D : \E i \in D : place[i] = m
  BY <1>9 DEF Surjection
<1>11. QED
  BY <1>4, <1>6, <1>7, <1>10 DEF place, below

\* A list of candidates in any order is ranked from the best to the last.
LEMMA RankedSorts ==
    ASSUME NEW C, Distinct(C), NEW list \in SetToSeqs(C)
    PROVE  LET n == Cardinality(C)
               ranked == Ranked(list)
           IN  /\ n \in Nat /\ ToSet(list) = C
               /\ ranked \in [1..n -> C]
               /\ \A c \in C : \E m \in 1..n : ranked[m] = c
               /\ \A l, m \in 1..n : l < m => Outranks(ranked[l], ranked[m])
<1> DEFINE n == Cardinality(C)
           D == 1..n
           ranked == Ranked(list)
           R == {p \in D \X D : Outranks(list[p[1]], list[p[2]])}
           place == [i \in D |-> 1 + Cardinality({j \in D : <<j, i>> \in R})]
           rank == [k \in DOMAIN list |-> Rank(list[k])]
           before(j, i) == Less(rank[j], rank[i]) \/ (rank[j] = rank[i] /\ j < i)
<1>1. n \in Nat /\ IsFiniteSet(D) /\ Cardinality(D) = n
  BY FS_CardinalityType, FS_Interval DEF Distinct
<1>2. list \in [D -> C] /\ \A i, j \in D : i # j => list[i] # list[j]
  BY DEF SetToSeqs
<1>3. \A c \in C : \E i \in D : list[i] = c
  <2>1. list \in Injection(D, C)
    BY <1>2 DEF Injection, IsInjective
  <2>2. list \in Surjection(D, C)
    BY <1>1, <2>1, FS_Injection DEF Distinct
  <2>3. QED
    BY <2>2 DEF Surjection
<1>4. \A i \in D : list[i] \in CandidateRow
  BY <1>2 DEF Distinct
<1>5. \A i, j \in D : i # j => list[i].id # list[j].id
  BY <1>2 DEF Distinct
<1>6. \A i, j \in D : <<i, j>> \in R <=> Outranks(list[i], list[j])
  OBVIOUS
<1>7. /\ place \in [D -> D]
      /\ \A i, j \in D : <<i, j>> \in R => place[i] < place[j]
      /\ \A i, j \in D : place[i] = place[j] => i = j
      /\ \A m \in D : \E i \in D : place[i] = m
  <2> HIDE DEF R
  <2>1. \A i \in D : <<i, i>> \notin R
    BY <1>4, <1>6, OutranksOrders
  <2>2. \A i, j \in D : i # j => <<i, j>> \in R \/ <<j, i>> \in R
    BY <1>4, <1>5, <1>6, OutranksOrders
  <2>3. \A i, j, k \in D : <<i, j>> \in R /\ <<j, k>> \in R => <<i, k>> \in R
    BY <1>4, <1>6, OutranksOrders
  <2>4. QED
    BY <1>1, <2>1, <2>2, <2>3, PlaceFacts
<1>8. ASSUME NEW i \in D, NEW j \in D
      PROVE  before(j, i) <=> <<j, i>> \in R
  <2>1. rank[i] = Rank(list[i]) /\ rank[j] = Rank(list[j])
    BY <1>2
  <2>2. Less(rank[j], rank[i]) <=> Outranks(list[j], list[i])
    BY <1>4, <2>1, LessIsOutranks
  <2>3. ASSUME i # j PROVE rank[j] # rank[i]
    <3>1. rank[i][4] = list[i].id /\ rank[j][4] = list[j].id
      BY <2>1 DEF Rank
    <3>2. QED
      BY <1>5, <2>3, <3>1
  <2>4. QED
    BY <1>6, <2>2, <2>3
<1>9. \A i \in D : place[i] = 1 + Cardinality({j \in DOMAIN list : before(j, i)})
  <2> SUFFICES ASSUME NEW i \in D
               PROVE  {j \in D : <<j, i>> \in R} = {j \in DOMAIN list : before(j, i)}
    OBVIOUS
  <2> HIDE DEF R, before
  <2>1. QED
    BY <1>2, <1>8
<1> DEFINE pos(m) == CHOOSE i \in DOMAIN list : 1 + Cardinality({j \in DOMAIN list : before(j, i)}) = m
<1>10. ranked = [m \in DOMAIN list |-> list[pos(m)]]
  BY DEF Ranked
<1> HIDE DEF place, before, R, ranked
<1>11. ASSUME NEW m \in D PROVE pos(m) \in D /\ place[pos(m)] = m
  <2>1. \E i \in DOMAIN list : 1 + Cardinality({j \in DOMAIN list : before(j, i)}) = m
    <3>1. PICK i \in D : place[i] = m
      BY <1>7
    <3>2. i \in DOMAIN list /\ 1 + Cardinality({j \in DOMAIN list : before(j, i)}) = m
      BY <1>2, <1>9, <3>1
    <3>3. QED
      BY <3>2
  <2>2. pos(m) \in DOMAIN list /\ 1 + Cardinality({j \in DOMAIN list : before(j, pos(m))}) = m
    BY <2>1
  <2> HIDE DEF pos
  <2>3. QED
    BY <1>2, <1>9, <2>2
<1> HIDE DEF pos
<1>12. \A m \in D : ranked[m] = list[pos(m)]
  BY <1>2, <1>10
<1>13. ranked \in [D -> C]
  BY <1>2, <1>10, <1>11
<1>14. ASSUME NEW c \in C PROVE \E m \in D : ranked[m] = c
  <2>1. PICK i \in D : list[i] = c
    BY <1>3
  <2>2. place[i] \in D /\ pos(place[i]) \in D /\ place[pos(place[i])] = place[i]
    BY <1>7, <1>11
  <2>3. pos(place[i]) = i
    BY <1>7, <2>2
  <2>4. QED
    BY <1>12, <2>1, <2>2, <2>3
<1>15. ASSUME NEW l \in D, NEW m \in D, l < m
       PROVE  Outranks(ranked[l], ranked[m])
  <2>1. pos(l) \in D /\ pos(m) \in D /\ place[pos(l)] = l /\ place[pos(m)] = m
    BY <1>11
  <2>2. pos(l) # pos(m)
    BY <1>15, <2>1
  <2>3. <<pos(m), pos(l)>> \notin R
    <3>1. l \in Int /\ m \in Int /\ ~(m < l)
      BY <1>15, <1>1
    <3>2. QED
      BY <1>7, <2>1, <3>1
  <2>4. <<pos(l), pos(m)>> \in R
    BY <1>4, <1>5, <1>6, <2>1, <2>2, <2>3, OutranksOrders
  <2>5. QED
    BY <1>6, <1>12, <2>1, <2>4
<1>16. ToSet(list) = C
  BY <1>2, <1>3 DEF ToSet
<1>17. QED
  BY <1>1, <1>13, <1>14, <1>15, <1>16 DEF ranked

\* At most one candidate gives a field its value.
LEMMA WinnerUnique ==
    ASSUME NEW C, Distinct(C), NEW f, NEW c \in Winners(C, f), NEW d \in Winners(C, f)
    PROVE  c = d
<1>1. c \in CandidateRow /\ d \in CandidateRow
  BY DEF Winners, Distinct
<1>2. d = c \/ Outranks(c, d)
  BY DEF Winners
<1>3. d = c \/ Outranks(d, c)
  BY DEF Winners
<1>4. QED
  BY <1>1, <1>2, <1>3, OutranksOrders

\* The first of the ranked candidates with a value is the winner of the field.
LEMMA FirstWithIsWinner ==
    ASSUME NEW C, Distinct(C), NEW list \in SetToSeqs(C), NEW f
    PROVE  LET ranked == Ranked(list)
               w == FirstWith(ranked, f)
           IN  /\ w = 0 <=> Winners(C, f) = {}
               /\ w # 0 => ranked[w] \in Winners(C, f)
<1> DEFINE n == Cardinality(C)
           ranked == Ranked(list)
           w == FirstWith(ranked, f)
           I == {i \in 1..Len(ranked) : ranked[i].content[f] # NoValue}
<1> SUFFICES /\ w = 0 <=> Winners(C, f) = {}
             /\ w # 0 => ranked[w] \in Winners(C, f)
  OBVIOUS
<1>1. /\ n \in Nat
      /\ ranked \in [1..n -> C]
      /\ \A c \in C : \E m \in 1..n : ranked[m] = c
      /\ \A l, m \in 1..n : l < m => Outranks(ranked[l], ranked[m])
  BY RankedSorts
<1> HIDE DEF n, ranked
<1>2. Len(ranked) = n
  <2>1. DOMAIN ranked = 1..n /\ ranked \in Seq(C)
    BY <1>1
  <2>2. QED
    BY <1>1, <2>1
<1>3. w = IF I # {} THEN Min(I) ELSE 0
  BY DEF FirstWith, SelectInSeq
<1> HIDE DEF w
<1>4. I \in SUBSET Nat /\ \A i \in I : i \in 1..n
  BY <1>1, <1>2
<1>5. CASE I = {}
  <2>1. \A c \in C : c.content[f] = NoValue
    BY <1>1, <1>2, <1>5
  <2>2. Winners(C, f) = {}
    BY <2>1 DEF Winners
  <2>3. QED
    BY <1>3, <1>5, <2>2
<1>6. CASE I # {}
  <2>1. \E x \in I : \A y \in I : x <= y
    BY <1>4, <1>6, Minimum
  <2>2. w \in I /\ \A y \in I : w <= y
    BY <1>3, <1>6, <2>1 DEF Min
  <2>3. w \in 1..n /\ w # 0 /\ ranked[w] \in C /\ ranked[w].content[f] # NoValue
    BY <1>1, <1>4, <2>2
  <2>4. ASSUME NEW d \in C, d.content[f] # NoValue
        PROVE  d = ranked[w] \/ Outranks(ranked[w], d)
    <3>1. PICK m \in 1..n : ranked[m] = d
      BY <1>1
    <3>2. m \in I
      BY <1>2, <2>4, <3>1
    <3>3. w = m \/ w < m
      BY <1>1, <2>2, <2>3, <3>2
    <3>4. QED
      BY <1>1, <2>3, <3>1, <3>3
  <2>5. ranked[w] \in Winners(C, f)
    BY <2>3, <2>4 DEF Winners
  <2>6. QED
    BY <2>3, <2>5
<1>7. QED
  BY <1>5, <1>6

\* What a merge of C returns, with no list in it.
MergedOf(C) ==
    [content |-> Merge(C),
     origins |-> [f \in {g \in Fields : Winners(C, g) # {}} |->
                     (CHOOSE c \in Winners(C, f) : TRUE).id],
     latest  |-> Latest(C)]

\* In whatever order candidates are listed, merge returns the same of them.
LEMMA MergedLeadIs ==
    ASSUME NEW C, Distinct(C), NEW list \in SetToSeqs(C)
    PROVE  MergedLead(list) = MergedOf(C)
<1> DEFINE ranked == Ranked(list)
           winner == [f \in Fields |-> FirstWith(ranked, f)]
           best(f) == CHOOSE c \in Winners(C, f) : TRUE
<1>1. ASSUME NEW f \in Fields
      PROVE  /\ winner[f] = 0 <=> Winners(C, f) = {}
             /\ winner[f] # 0 => ranked[winner[f]] = best(f)
  <2>1. /\ winner[f] = 0 <=> Winners(C, f) = {}
        /\ winner[f] # 0 => ranked[winner[f]] \in Winners(C, f)
    BY FirstWithIsWinner
  <2>2. ASSUME winner[f] # 0 PROVE ranked[winner[f]] = best(f)
    <3>1. ranked[winner[f]] \in Winners(C, f)
      BY <2>1, <2>2
    <3>2. best(f) \in Winners(C, f)
      BY <3>1
    <3>3. QED
      BY <3>1, <3>2, WinnerUnique
  <2>3. QED
    BY <2>1, <2>2
<1>2. ToSet(list) = C
  BY RankedSorts
<1>3. MergedLead(list) =
        [content |-> [f \in Fields |-> IF winner[f] = 0 THEN NoValue ELSE ranked[winner[f]].content[f]],
         origins |-> [f \in {g \in Fields : winner[g] # 0} |-> ranked[winner[f]].id],
         latest  |-> Latest(ToSet(list))]
  BY DEF MergedLead
<1> HIDE DEF ranked, winner
<1>4. [f \in Fields |-> IF winner[f] = 0 THEN NoValue ELSE ranked[winner[f]].content[f]] = Merge(C)
  BY <1>1 DEF Merge
<1>5. {g \in Fields : winner[g] # 0} = {g \in Fields : Winners(C, g) # {}}
  BY <1>1
<1>6. [f \in {g \in Fields : winner[g] # 0} |-> ranked[winner[f]].id]
        = [f \in {g \in Fields : Winners(C, g) # {}} |-> best(f).id]
  BY <1>1, <1>5
<1>7. QED
  BY <1>2, <1>3, <1>4, <1>6 DEF MergedOf

\* Merging needs no order, for any candidates that _rank tells apart.
LEMMA MergeNeedsNoOrder ==
    ASSUME NEW C, Distinct(C)
    PROVE  LET merged == {MergedLead(list) : list \in SetToSeqs(C)}
           IN  Cardinality(merged) = 1 /\ \A m \in merged : m.content = Merge(C)
<1> DEFINE merged == {MergedLead(list) : list \in SetToSeqs(C)}
<1>1. PICK list \in SetToSeqs(C) : TRUE
  <2>1. ExistsBijection(1..Cardinality(C), C)
    BY FS_CardinalityType DEF Distinct
  <2>2. PICK b : b \in Bijection(1..Cardinality(C), C)
    BY <2>1 DEF ExistsBijection
  <2>3. b \in SetToSeqs(C)
    BY <2>2 DEF SetToSeqs, Bijection, Injection, IsInjective
  <2>4. QED
    BY <2>3
<1>2. merged = {MergedOf(C)}
  BY <1>1, MergedLeadIs
<1>3. Cardinality(merged) = 1
  BY <1>2, FS_Singleton
<1>4. \A m \in merged : m.content = Merge(C)
  <2>1. MergedOf(C).content = Merge(C)
    BY DEF MergedOf
  <2>2. QED
    BY <1>2, <2>1, Zenon
<1>5. QED
  BY <1>3, <1>4

\* Records are told apart by their ids, and there are finitely many.
Told ==
    /\ IsFiniteSet({k \in Keys : Stored(k)})
    /\ \A k \in Keys : record[k].id <= issued.record
    /\ \A j, k \in Keys : Stored(j) /\ Stored(k) /\ record[j].id = record[k].id => j = k

\* upsert finds the row of the record or inserts one with a new id.
LEMMA UpsertTold ==
    ASSUME TypeOK, Told, NEW k \in Keys, NEW c, NEW l,
           record' = Upserted(k, c, l), issued'.record = LastRecord(k)
    PROVE  Told'
<1>1. issued.record \in Nat /\ \A j \in Keys : record[j].id \in Nat
  BY DEF TypeOK, RecordRow
<1>2. /\ record'[k].id = RecordId(k)
      /\ \A j \in Keys \ {k} : record'[j] = record[j]
  BY DEF Upserted, TypeOK
<1>3. {j \in Keys : Stored(j)}' \subseteq {j \in Keys : Stored(j)} \cup {k}
  BY <1>2 DEF Stored
<1>4. IsFiniteSet({j \in Keys : Stored(j)} \cup {k})
  BY FS_AddElement DEF Told
<1>5. IsFiniteSet({j \in Keys : Stored(j)}')
  BY <1>3, <1>4, FS_Subset
<1>6. issued.record <= issued'.record
  BY <1>1 DEF LastRecord
<1>7. CASE Stored(k)
  <2>1. RecordId(k) = record[k].id /\ issued'.record = issued.record
    BY <1>7 DEF RecordId, LastRecord
  <2>2. \A j \in Keys : record'[j].id = record[j].id
    BY <1>2, <2>1
  <2>3. QED
    BY <1>5, <2>1, <2>2 DEF Told, Stored
<1>8. CASE ~Stored(k)
  <2>1. RecordId(k) = issued.record + 1 /\ issued'.record = issued.record + 1
    BY <1>8 DEF RecordId, LastRecord
  <2>2. \A j \in Keys \ {k} : record'[j].id = record[j].id /\ record[j].id <= issued.record
    BY <1>2 DEF Told
  <2>3. QED
    BY <1>1, <1>2, <1>5, <2>1, <2>2 DEF Told, Stored
<1>9. QED
  BY <1>7, <1>8

\* A deletion takes rows away.
LEMMA EraseTold ==
    ASSUME TypeOK, Told, NEW L, Erase(L)
    PROVE  Told'
<1>1. issued' = issued /\ issued.record \in Nat
  BY DEF Erase, TypeOK
<1>2. \A k \in Keys : record'[k] = record[k] \/ record'[k] = NoRecord
  BY DEF Erase
<1>3. \A k \in Keys : record'[k].id = record[k].id \/ record'[k].id = 0
  BY <1>2 DEF NoRecord
<1>4. {k \in Keys : Stored(k)}' \subseteq {k \in Keys : Stored(k)}
  BY <1>3 DEF Stored
<1>5. IsFiniteSet({k \in Keys : Stored(k)}')
  BY <1>4, FS_Subset DEF Told
<1>6. QED
  BY <1>1, <1>3, <1>5 DEF Told, Stored

LEMMA ToldStep == StoreInv /\ Told /\ [Next]_vars => Told'
<1> SUFFICES ASSUME StoreInv, Told, [Next]_vars PROVE Told'
  OBVIOUS
<1> USE DEF StoreInv
<1>1. ASSUME NEW k, NEW c, Join(k, c) PROVE Told'
  <2>1. PICK l \in LeadIds : record' = Upserted(k, c, l) \/ record' = Upserted(k, c, Own(k))
    BY <1>1, MatchFacts DEF Join
  <2>2. Sighted(k, c) /\ issued'.record = LastRecord(k)
    BY <1>1 DEF Join, Issue
  <2>3. k \in Keys
    BY <2>2, SightedFacts
  <2>4. QED
    BY <2>1, <2>2, <2>3, UpsertTold
<1>2. ASSUME NEW k, NEW c, Refresh(k, c) PROVE Told'
  <2>1. Sighted(k, c) /\ Own(k) # NoLead /\ issued' = issued /\ record' = Upserted(k, c, Own(k))
    BY <1>2 DEF Refresh
  <2>2. k \in Keys
    BY <2>1, SightedFacts
  <2>3. issued'.record = LastRecord(k)
    BY <2>1, <2>2 DEF OwnersKnown, LastRecord
  <2>4. QED
    BY <2>1, <2>2, <2>3, UpsertTold
<1>3. ASSUME NEW k, NEW c, Create(k, c) PROVE Told'
  <2>1. Sighted(k, c) /\ record' = Upserted(k, c, issued.lead + 1) /\ issued'.record = LastRecord(k)
    BY <1>3 DEF Create, Issue
  <2>2. k \in Keys
    BY <2>1, SightedFacts
  <2>3. QED
    BY <2>1, <2>2, UpsertTold
<1>4. ASSUME NEW L, Erase(L) PROVE Told'
  BY <1>4, EraseTold
<1>5. ASSUME UNCHANGED <<record, issued>> PROVE Told'
  BY <1>5 DEF Told, Stored
<1>6. QED
  BY <1>1, <1>2, <1>3, <1>4, <1>5
     DEF Next, Ingest, Begin, Commit, DeleteLead, Purge, Suppress, Unsuppress, vars

LEMMA ToldInit == Init => Told
<1> SUFFICES ASSUME Init PROVE Told
  OBVIOUS
<1>1. \A k \in Keys : record[k].id = 0
  BY DEF Init, NoRecord
<1>2. {k \in Keys : Stored(k)} = {}
  BY <1>1 DEF Stored
<1>3. issued.record = 0
  BY DEF Init
<1>4. IsFiniteSet({k \in Keys : Stored(k)})
  BY <1>2, FS_EmptySet
<1>5. QED
  BY <1>1, <1>3, <1>4 DEF Told, Stored

\* _rank tells the records of a lead apart.
LEMMA CandidatesDistinct ==
    ASSUME TypeOK, Told, NEW l
    PROVE  Distinct(CandidatesFor(l))
<1> DEFINE K == {j \in Keys : Stored(j) /\ record[j].lead = l}
           C == CandidatesFor(l)
           cand(k) == Candidate(k, record[k].id, record[k].content, record[k].collected)
<1>1. C = {cand(k) : k \in K}
  BY DEF CandidatesFor
<1>2. IsFiniteSet(K)
  <2>1. K \in SUBSET {k \in Keys : Stored(k)}
    OBVIOUS
  <2>2. QED
    BY <2>1, FS_Subset DEF Told
<1>3. ASSUME NEW k \in K PROVE cand(k) \in CandidateRow /\ cand(k).id = record[k].id
  <2>1. SourceOf[k] \in Sources
    BY KeysAssumption
  <2>2. Priority[SourceOf[k]] \in Int
    BY <2>1, SourcesAssumption
  <2>3. record[k].id \in Nat /\ record[k].content \in Content /\ record[k].collected \in Nat
    BY LimitAssumption DEF TypeOK, RecordRow
  <2>4. QED
    BY <2>2, <2>3 DEF Candidate, CandidateRow
<1>4. IsFiniteSet(C)
  <2>1. PICK g : g = [k \in K |-> cand(k)]
    OBVIOUS
  <2> HIDE DEF cand, K
  <2>2. g \in Surjection(K, C)
    BY <1>1, <2>1 DEF Surjection
  <2>3. QED
    BY <1>2, <2>2, FS_Surjection
<1>5. ASSUME NEW a \in C, NEW b \in C, a.id = b.id PROVE a = b
  <2>1. PICK j \in K : a = cand(j)
    BY <1>1
  <2>2. PICK k \in K : b = cand(k)
    BY <1>1
  <2>3. record[j].id = record[k].id
    BY <1>3, <1>5, <2>1, <2>2
  <2>4. j = k
    BY <2>3 DEF Told
  <2>5. QED
    BY <2>1, <2>2, <2>4
<1>6. C \subseteq CandidateRow
  BY <1>1, <1>3
<1>7. QED
  BY <1>4, <1>5, <1>6 DEF Distinct

\* Whatever was collected, deleted and collected again, and in whatever order
\* the records of a lead are listed, merge makes one lead of them, with one
\* origin for each field, and it is the lead that the other theorems are about.
THEOREM MergesIgnoreOrder == Spec => []MergeIgnoresOrder
<1>1. TypeOK /\ Told => MergeIgnoresOrder
  BY CandidatesDistinct, MergeNeedsNoOrder DEF MergeIgnoresOrder
<1>2. StoreInv => TypeOK
  BY DEF StoreInv
<1>3. QED
  BY <1>1, <1>2, StoreAlways, ToldInit, ToldStep, PTL DEF Spec
=============================================================================
