---------------------------- MODULE MCLeadStore ----------------------------
(***************************************************************************)
(* LeadStore for TLC: one source with a record whose content may change    *)
(* (keyed by an external id), and one with three records whose key is      *)
(* their content.  Two leads that resemble c3 can fill its lookup, of two  *)
(* candidates, before a lead that has its email.                           *)
(***************************************************************************)
EXTENDS Merging

Row(email, domain, phone, name) ==
    [email |-> email, domain |-> domain, phone |-> phone, name |-> name]

None == "none"
MCValues == {"e", "d", "p", "n1", "n2", "n/a"}

MCSimilarity ==
    [a \in MCValues |-> [b \in MCValues |->
        IF a = b THEN 100 ELSE IF {a, b} = {"n1", "n2"} THEN 75 ELSE 20]]

MCPriority == [s \in {"api", "csv"} |-> IF s = "api" THEN 10 ELSE 0]

MCSourceOf == [k \in {"a1", "c1", "c2", "c3"} |-> IF k = "a1" THEN "api" ELSE "csv"]

MCOffers ==
    {<<"a1", Row("e", None, None, "n1")>>, <<"a1", Row("e", "d", "p", "n1")>>,
     <<"c1", Row(None, None, "p", "n1")>>, <<"c2", Row(None, None, "n/a", "n1")>>,
     <<"c3", Row("e", None, None, "n2")>>}

MCOptOuts == {<<"domain", "d">>}
=============================================================================
