--------------------------- MODULE Deduplication ---------------------------
(***************************************************************************)
(* Fingerprints, matching and merging: src/app/deduplication.  Pure        *)
(* operators on the contents of records and leads.                         *)
(*                                                                         *)
(* A content gives each field that takes part in matching a value or none. *)
(* "domain" stands for website and website_domain, which travel together;  *)
(* "name" for the name slug with its location.  The other columns are      *)
(* merged like "phone" and matched by nothing.                             *)
(***************************************************************************)
EXTENDS Integers, FiniteSets

CONSTANTS
    Values, NoValue,
    Placeholders,   \* values that make no fingerprint ("n/a", no "@", no "+")
    Similarity      \* Similarity[a][b]: trigram similarity of two names, percent

ASSUME ValuesAssumption == NoValue \notin Values /\ Placeholders \subseteq Values
ASSUME SimilarityAssumption == Similarity \in [Values -> [Values -> 0..100]]

Exact == {"email", "domain", "phone"}
Fields == Exact \cup {"name"}

Content == [Fields -> Values \cup {NoValue}]

\* The fingerprint of a field: its value, unless it is a placeholder.  A domain
\* is taken as it is.
Fingerprint(c, f) == IF f # "domain" /\ c[f] \in Placeholders THEN NoValue ELSE c[f]

-----------------------------------------------------------------------------
(***************************************************************************)
(* Matching.  Confidences are percentages; the rules are tried in the      *)
(* order of their confidence, so the first that matches is the best.       *)
(* The rule external_id never matches a stored lead, which is compared     *)
(* with an empty extra (runner.py, _as_normalized).                        *)
(***************************************************************************)
NAME_SIMILARITY_THRESHOLD == 70
NAME_CONFIDENCE_CAP == 80
AUTO_MERGE_THRESHOLD == 85

EXACT_CONFIDENCE == [email |-> 100, domain |-> 95, phone |-> 90]

Same(a, b, f) == Fingerprint(a, f) # NoValue /\ Fingerprint(a, f) = Fingerprint(b, f)

NameConfidenceUncapped(a, b) ==        \* mutated: the cap is forgotten
    LET x == Fingerprint(a, "name")
        y == Fingerprint(b, "name")
    IN  IF x = NoValue \/ y = NoValue THEN 0
        ELSE IF Similarity[x][y] < NAME_SIMILARITY_THRESHOLD THEN 0
        ELSE Similarity[x][y]

\* Confidence of the name_location rule, 0 if it does not match.
NameConfidence(a, b) ==
    LET x == Fingerprint(a, "name")
        y == Fingerprint(b, "name")
    IN  IF x = NoValue \/ y = NoValue THEN 0
        ELSE IF Similarity[x][y] < NAME_SIMILARITY_THRESHOLD THEN 0
        ELSE IF Similarity[x][y] > NAME_CONFIDENCE_CAP THEN NAME_CONFIDENCE_CAP
        ELSE Similarity[x][y]

\* match: 0 stands for None.
Confidence(a, b) ==
    IF Same(a, b, "email") THEN EXACT_CONFIDENCE.email
    ELSE IF Same(a, b, "domain") THEN EXACT_CONFIDENCE.domain
    ELSE IF Same(a, b, "phone") THEN EXACT_CONFIDENCE.phone
    ELSE NameConfidence(a, b)

AutoMerge(confidence) == confidence >= AUTO_MERGE_THRESHOLD

-----------------------------------------------------------------------------
(***************************************************************************)
(* Merging.  A candidate is a record that a lead is built from.            *)
(***************************************************************************)
\* Website and website_domain count as two.
Filled(c) == Cardinality({f \in Fields : c[f] # NoValue})
                 + (IF c.domain # NoValue THEN 1 ELSE 0)

\* _rank: higher priority, then more recent, then more complete, then older.
Outranks(a, b) ==
    \/ a.priority > b.priority
    \/ /\ a.priority = b.priority
       /\ \/ a.collected > b.collected
          \/ /\ a.collected = b.collected
             /\ \/ Filled(a.content) > Filled(b.content)
                \/ /\ Filled(a.content) = Filled(b.content)
                   /\ a.id < b.id

\* The candidates that give a merged lead its field f: the best of those
\* that have a value.
Winners(C, f) ==
    {c \in C : /\ c.content[f] # NoValue
               /\ \A d \in C : d.content[f] # NoValue => d = c \/ Outranks(c, d)}

Merge(C) ==
    [f \in Fields |-> IF Winners(C, f) = {} THEN NoValue
                      ELSE (CHOOSE c \in Winners(C, f) : TRUE).content[f]]

\* The time of the most recent candidate.
Latest(C) == CHOOSE t \in {c.collected : c \in C} : \A c \in C : c.collected <= t
=============================================================================
