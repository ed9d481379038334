---------------------------- MODULE MCConversions ----------------------------
(***************************************************************************)
(* Contacts and Schedule for TLC.  They share nothing: a behaviour is one  *)
(* of the one or of the other.                                             *)
(***************************************************************************)
EXTENDS Contacts

CONSTANTS Steps, MaxDays

VARIABLES source, phase, scheduled, past, fired

Cron == INSTANCE Schedule

\* How an address is written: up to two words before it, and one after it.
Before == {<<>>, <<" ">>, <<"<">>, <<"mailto:">>, <<"MAILTO:">>, <<"mailto:", "<">>, <<"<", "mailto:">>,
           <<" ", "mailto:">>}
After == {<<>>, <<">">>, <<" ">>}
MCEmails == {b \o <<a>> \o c : b \in Before, a \in {"info@acme.fi", "INFO@ACME.FI"}, c \in After}

\* How a website is written.
MCWebsites == {s \o w \o <<h>> : s \in {<<>>, <<"https://">>, <<"HTTPS://">>, <<"ftp://">>, <<" ">>},
                                 w \in {<<>>, <<"www.">>, <<"WWW.">>, <<"www.", "www.">>},
                                 h \in {"acme.fi", "ACME.FI", "ä.fi", "info@acme.fi"}}

MCPages == {[email |-> e, website |-> w] : e \in MCEmails, w \in {<<>>, <<"www.", "acme.fi">>}}
      \cup {[email |-> e, website |-> w] : e \in {<<>>, <<"INFO@ACME.FI">>}, w \in MCWebsites}

MCTyped == {b \o <<a>> : b \in Before, a \in {"info@acme.fi", "INFO@ACME.FI"}} \cup {<<"<", "info@acme.fi", ">">>}
      \cup {s \o w \o <<h>> : s \in {<<>>, <<"https://">>, <<"ftp://">>},
                               w \in {<<>>, <<"www.">>, <<"www.", "www.">>}, h \in {"ACME.FI", "ä.fi"}}

AllVars == <<vars, source, phase, scheduled, past, fired>>

MCInit ==
    /\ Init
    /\ \/ Cron!Init
       \/ phase = "none" /\ source = "none" /\ scheduled = FALSE /\ past = 0 /\ fired = {}

MCNext ==
    \/ phase = "none" /\ Next /\ UNCHANGED <<source, phase, scheduled, past, fired>>
    \/ Cron!Next /\ UNCHANGED vars

MCSpec == MCInit /\ [][MCNext]_AllVars

FiresOnPosixDays == Cron!FiresOnPosixDays
=============================================================================
