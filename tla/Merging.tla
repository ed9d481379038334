------------------------------ MODULE Merging ------------------------------
(***************************************************************************)
(* merge() as src/app/deduplication/merge.py computes it: a stable sort of *)
(* a list of candidates by a tuple, then the first that has a value, field *)
(* by field.  Deduplication defines Merge on a set of candidates, by which *)
(* of them outranks the others; here the two are compared on the           *)
(* candidates that leads of LeadStore really have.                         *)
(***************************************************************************)
EXTENDS LeadStore, SequencesExt

RankByAge(c) == <<-c.priority, -c.collected, -Filled(c.content)>>   \* mutated: origins do not count

\* _rank: the origin is the id of the record, compared as a number.
Rank(c) == <<-c.priority, -c.collected, -Filled(c.content), c.id>>

\* Tuples compare at the first place where they differ.
Less(r, s) ==
    \E n \in DOMAIN r : r[n] < s[n] /\ \A m \in 1..(n - 1) : r[m] = s[m]

\* sorted is stable: what ranks alike stays in the order of the list.
Ranked(list) ==
    LET rank == [n \in DOMAIN list |-> Rank(list[n])]
        before(j, i) == Less(rank[j], rank[i]) \/ (rank[j] = rank[i] /\ j < i)
        place(i) == 1 + Cardinality({j \in DOMAIN list : before(j, i)})
    IN  [n \in DOMAIN list |-> list[CHOOSE i \in DOMAIN list : place(i) = n]]

FirstWith(ranked, f) == SelectInSeq(ranked, LAMBDA c : c.content[f] # NoValue)

\* What merge returns: the merged lead, and the record of each field.
MergedLead(list) ==
    LET ranked == Ranked(list)
        winner == [f \in Fields |-> FirstWith(ranked, f)]
    IN  [content |-> [f \in Fields |-> IF winner[f] = 0 THEN NoValue ELSE ranked[winner[f]].content[f]],
         origins |-> [f \in {g \in Fields : winner[g] # 0} |-> ranked[winner[f]].id],
         latest  |-> Latest(ToSet(list))]

\* candidates_for: what the next rebuild of lead l merges.
CandidatesFor(l) ==
    {Candidate(k, record[k].id, record[k].content, record[k].collected) :
        k \in {j \in Keys : Stored(j) /\ record[j].lead = l}}

-----------------------------------------------------------------------------
\* "a merged lead never depends on the order the records arrived in"
\* (docs/deduplication.md:90), which LeadStore takes for granted when it merges
\* sets: in whatever order the candidates of a lead are listed (_remerge puts the
\* incoming one last), every list is merged into one lead with one origin for
\* each field, and that is the one of Merge.
MergeIgnoresOrder ==
    \A l \in LeadIds :
        LET C == CandidatesFor(l)
            merged == {MergedLead(list) : list \in SetToSeqs(C)}
        IN  Cardinality(C) > 1 =>
                /\ Cardinality(merged) = 1
                /\ \A m \in merged : m.content = Merge(C)
=============================================================================
