--------------------------- MODULE MCCollections ---------------------------
(***************************************************************************)
(* Collections for TLC: a source with one record and a source with two.    *)
(***************************************************************************)
EXTENDS Collections, TLC

Row(email, domain, phone, name) ==
    [email |-> email, domain |-> domain, phone |-> phone, name |-> name]

MCValues == {"e", "f", "d", "p", "n", "long"}

MCSimilarity == [a \in MCValues |-> [b \in MCValues |-> IF a = b THEN 100 ELSE 0]]

MCPriority == [s \in Sources |-> IF s = "api" THEN 10 ELSE 0]

MCSourceOf == [k \in Keys |-> IF k = "a1" THEN "api" ELSE "csv"]

MCOptOuts == {<<"domain", "d">>}

\* c1 changes its email to that of a1 and c2, and its name.
MCOffers ==
    {<<"a1", Row("e", "none", "none", "n")>>,
     <<"c1", Row("e", "d", "none", "none")>>, <<"c1", Row("f", "none", "none", "n")>>,
     <<"c2", Row("e", "none", "p", "n")>>}

\* The phone of a1 is a text too long for its column.
MCLongOffers == MCOffers \cup {<<"a1", Row("e", "none", "long", "none")>>}
=============================================================================
