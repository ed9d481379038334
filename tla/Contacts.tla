------------------------------ MODULE Contacts ------------------------------
(***************************************************************************)
(* How contacts are written, normalized, validated and suppressed          *)
(* (src/app/normalization, src/app/validation,                             *)
(* src/app/repositories/suppressions.py, and the requests and commands     *)
(* that manage suppressions).                                              *)
(*                                                                         *)
(* Elsewhere a contact is a value.  Here it is a text, a sequence of words *)
(* such as "mailto:" or "www.", and what a site writes, what is stored and *)
(* what an operator types are brought together by the conversions of the   *)
(* code.  A missing text, the empty text and None are all <<>>, a run of   *)
(* white space is one word, and of a url its scheme and host are kept.     *)
(* There is one company: an address and a host.                            *)
(***************************************************************************)
EXTENDS Sequences, FiniteSets, FiniteSetsExt, Integers

CONSTANTS
    Pages,               \* bound: the pairs of texts that sites publish
    Typed,               \* bound: the texts that operators type
    MaxChanges           \* bound: changes of the suppression list

VARIABLES
    lead,       \* the stored lead, or NoLead; history: the contacts it shows validly
    suppressed, \* the table of suppressions
    changes,    \* how often it was changed
    optedOut    \* history: the contacts that opted out, as a reader sees them

vars == <<lead, suppressed, changes, optedOut>>

Kinds == {"email", "domain"}
NoLead == [email |-> <<>>, domain |-> <<>>, status |-> "none", shows |-> {}]

-----------------------------------------------------------------------------
(***************************************************************************)
(* Words and texts.                                                        *)
(***************************************************************************)
ADDRESS == "info@acme.fi"
HOST == "acme.fi"
Schemes == {"https://", "ftp://"}

SmallLetters ==
    [w \in {"MAILTO:", "HTTPS://", "WWW.", "INFO@ACME.FI", "ACME.FI"} |->
        CASE w = "MAILTO:" -> "mailto:" [] w = "HTTPS://" -> "https://" [] w = "WWW." -> "www."
          [] w = "INFO@ACME.FI" -> ADDRESS [] w = "ACME.FI" -> HOST]

Small(word) == IF word \in DOMAIN SmallLetters THEN SmallLetters[word] ELSE word

Lower(text) == [k \in DOMAIN text |-> Small(text[k])]

Strip(text, words) ==
    LET kept == {k \in DOMAIN text : text[k] \notin words}
    IN  IF kept = {} THEN <<>> ELSE SubSeq(text, Min(kept), Max(kept))

clean_text(text) == Strip(text, {" "})

removeprefix(text, word) == IF text # <<>> /\ Head(text) = word THEN Tail(text) ELSE text

\* The host of what follows a scheme: urlsplit drops the user before it.
Hostname(text) ==
    LET users == {k \in DOMAIN text : Small(text[k]) = ADDRESS}
        small == Lower(text)
    IN  IF users = {} THEN small ELSE <<HOST>> \o SubSeq(small, Max(users) + 1, Len(small))

\* HOSTNAME matches letters, digits and hyphens only: no umlauts, no blanks.
IsHostname(host) ==
    /\ host # <<>> /\ host[Len(host)] = HOST
    /\ \A k \in 1..(Len(host) - 1) : host[k] = "www."

\* Texts are sequences of words.
ASSUME TextsAssumption ==
    Typed \subseteq Seq(STRING) /\ Pages \subseteq [email : Seq(STRING), website : Seq(STRING)]

\* Only two "www." are ever taken off a host.
ASSUME WwwAssumption ==
    \A text \in Typed \cup {page.website : page \in Pages} :
        Cardinality({k \in DOMAIN text : Small(text[k]) = "www."}) <= 2

-----------------------------------------------------------------------------
(***************************************************************************)
(* Normalization.                                                          *)
(***************************************************************************)
normalize_email(text) ==
    LET address == clean_text(removeprefix(clean_text(text), "mailto:"))
    IN  Lower(clean_text(Strip(address, {"<", ">"})))

HasScheme(text) == \E k \in DOMAIN text : Small(text[k]) \in Schemes

normalize_url(text) ==
    LET url == clean_text(text)
        host == Hostname(removeprefix(Lower(url), "https://"))
    IN  IF \/ url = <<>>
           \/ HasScheme(url) /\ Small(Head(url)) # "https://"
           \/ Small(Head(url)) = "mailto:"
           \/ ~IsHostname(host)
        THEN url
        ELSE <<"https://">> \o removeprefix(host, "www.")

extract_domain(url) ==
    IF url # <<>> /\ Small(Head(url)) \in Schemes
    THEN removeprefix(Hostname(Tail(url)), "www.")
    ELSE <<>>

\* mutated: what does not come as a url is taken as it is
normalize_value_verbatim(kind, text) ==
    IF kind = "email" THEN normalize_email(text)
    ELSE IF extract_domain(text) # <<>> THEN extract_domain(text) ELSE Lower(clean_text(text))

normalize_value(kind, text) ==
    LET value == IF kind = "email" THEN normalize_email(text) ELSE extract_domain(normalize_url(text))
    IN  IF value # <<>> THEN value ELSE Lower(clean_text(text))

-----------------------------------------------------------------------------
(***************************************************************************)
(* Validation.  The company has a name, and no phone.                      *)
(***************************************************************************)
validate_email_field(email) ==
    IF email = <<>> THEN "unknown" ELSE IF Lower(email) = <<ADDRESS>> THEN "valid" ELSE "invalid"

validate_url_field(url) ==
    IF url = <<>> THEN "unknown"
    ELSE IF Small(Head(url)) = "https://" /\ IsHostname(Hostname(Tail(url))) THEN "valid"
    ELSE "invalid"

validate_lead(email, website) ==
    LET fields == {validate_email_field(email), validate_url_field(website)}
    IN  IF "invalid" \in fields THEN "invalid"
        ELSE IF fields = {"unknown"} THEN "unknown" ELSE "valid"

-----------------------------------------------------------------------------
(***************************************************************************)
(* What a reader of a text takes for the company's contact: an operator    *)
(* may rely on a link, brackets and blanks around one address, in this     *)
(* order and brackets without blanks between them, and on one host or      *)
(* address with or without "https://" and "www." before it.                *)
(***************************************************************************)
Legible(kind, text) ==
    LET small == Lower(text)
        Blank(from, to) == \A k \in from..to : text[k] = " "
    IN  \E p \in DOMAIN text :
            IF kind = "email"
            THEN /\ small[p] = ADDRESS
                 /\ \A k \in DOMAIN text \ {p} : text[k] \in {"mailto:", "<", ">", " "}
                 /\ \A k \in DOMAIN text : text[k] = "mailto:" => k < p /\ Blank(1, k - 1)
                 /\ \A i, k \in DOMAIN text \ {p} :
                        text[i] \in {"<", ">"} /\ text[k] \in {"<", ">"} /\ p \notin i..k =>
                            \A j \in i..k : text[j] # " "
            ELSE /\ small[p] \in {HOST, ADDRESS}
                 /\ Blank(p + 1, Len(text))
                 /\ \A k \in 1..(p - 1) : small[k] \in {"https://", "www.", " "}
                                         /\ (small[k] # "www." => Blank(1, k - 1))

-----------------------------------------------------------------------------
(***************************************************************************)
(* Actions.                                                                *)
(***************************************************************************)
Blocks(email, domain) ==
    \/ email # <<>> /\ [kind |-> "email", value |-> email] \in suppressed
    \/ domain # <<>> /\ [kind |-> "domain", value |-> domain] \in suppressed

\* A record is collected from a site that may write it in any way.  What
\* becomes of a lead that exists is the matter of LeadStore.
Collect(page) ==
    LET email == normalize_email(page.email)
        website == normalize_url(page.website)
    IN  /\ lead = NoLead
        /\ ~Blocks(email, extract_domain(website))
        /\ lead' = [email |-> email, domain |-> extract_domain(website),
                    status |-> validate_lead(email, website),
                    shows |-> {kind \in Kinds :
                                  IF kind = "email" THEN validate_email_field(email) = "valid"
                                  ELSE validate_url_field(website) = "valid"}]
        /\ UNCHANGED <<suppressed, changes, optedOut>>

Change == changes < MaxChanges /\ changes' = changes + 1

\* add, for a request or the command "suppress": an entry that exists is kept.
Suppress(kind, text) ==
    /\ Change
    /\ suppressed' = suppressed \cup {[kind |-> kind, value |-> normalize_value(kind, text)]}
    /\ optedOut' = IF Legible(kind, text) THEN optedOut \cup {kind} ELSE optedOut
    /\ UNCHANGED lead

add_for_lead(stored) ==
    {pair \in {<<"email", stored.email>>, <<"domain", stored.domain>>} : pair[2] # <<>>}

\* DELETE /api/leads/{id}, with and without "suppress".
DeleteLead ==
    /\ lead # NoLead
    /\ lead' = NoLead
    /\ \/ /\ Change
          /\ suppressed' = suppressed \cup
                 {[kind |-> pair[1], value |-> normalize_value(pair[1], pair[2])] :
                      pair \in add_for_lead(lead)}
          /\ optedOut' = optedOut \cup lead.shows
       \/ UNCHANGED <<suppressed, changes, optedOut>>

\* Whoever removes an entry takes the opt-out back that it stands for.
Lift(entries) ==
    /\ Change
    /\ suppressed' = suppressed \ entries
    /\ optedOut' = optedOut \ {entry.kind : entry \in {en \in entries : Legible(en.kind, en.value)}}
    /\ UNCHANGED lead

\* DELETE /api/suppressions/{id}.
Remove(entry) == Lift({entry})

\* "suppress --remove": every entry with this value, of either kind.
RemoveByValue(kind, text) ==
    Lift({entry \in suppressed : entry.value = normalize_value(kind, text)})

-----------------------------------------------------------------------------
Init ==
    /\ lead = NoLead
    /\ suppressed = {}
    /\ changes = 0
    /\ optedOut = {}

Next ==
    \/ \E page \in Pages : Collect(page)
    \/ \E kind \in Kinds, text \in Typed : Suppress(kind, text) \/ RemoveByValue(kind, text)
    \/ \E entry \in suppressed : Remove(entry)
    \/ DeleteLead

Spec == Init /\ [][Next]_vars

-----------------------------------------------------------------------------
(***************************************************************************)
(* Properties.                                                             *)
(***************************************************************************)
\* "Values are normalized on entry, so that they match the addresses and
\* domains as stored", and "the next collection cannot bring it back": once an
\* operator has opted a contact out in any legible spelling, or a lead that
\* shows it validly was deleted, no lead that shows it is stored again, however
\* a site writes it, until the entry is removed.
OptOutHonoured == [][lead' # lead => lead'.shows \cap optedOut = {}]_vars
=============================================================================
