------------------------------ MODULE MCFetch ------------------------------
(***************************************************************************)
(* Fetch for TLC: a host that asks for a delay, or forbids a page, and     *)
(* redirects to another, which redirects to the other scheme of the first  *)
(* or to a url that is not safe.                                           *)
(***************************************************************************)
EXTENDS Fetch

MCUrls == {"a", "b", "c", "d"}
MCOriginOf == [u \in MCUrls |-> CASE u = "c" -> "two" [] u = "d" -> "one-s" [] OTHER -> "one"]
MCHostOf == [o \in {"one", "one-s", "two"} |-> IF o = "two" THEN "two" ELSE "one"]

MCRedirectsTo ==
    [u \in MCUrls |-> CASE u = "a" -> {"c"} [] u = "c" -> {"b", "d"} [] OTHER -> {}]

MCRobotsFiles ==
    [o \in {"one", "one-s", "two"} |->
        IF o = "one" THEN {[disallowed |-> {}, crawl_delay |-> 2],
                           [disallowed |-> {"a"}, crawl_delay |-> 0]}
                     ELSE {[disallowed |-> {}, crawl_delay |-> 0]}]
=============================================================================
