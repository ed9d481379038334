------------------------------ MODULE Schedule ------------------------------
(***************************************************************************)
(* The schedule of a source, from the text in its configuration to the     *)
(* days on which it fires (src/app/config/cron.py,                         *)
(* src/app/config/models.py, src/app/jobs/scheduler.py).                   *)
(*                                                                         *)
(* Of the five fields of a cron expression only the day of the week is     *)
(* translated, since the scheduler counts days from Monday; the others are *)
(* "*" or a time of day here.  What a tick does is the matter of JobQueue. *)
(***************************************************************************)
EXTENDS Integers, Sequences

CONSTANTS
    Steps,               \* bound: the steps tried after "*/", all positive
    MaxDays              \* bound: the days looked at

None == "none"
Digits == <<"0", "1", "2", "3", "4", "5", "6", "7">>
Week == <<"sun", "mon", "tue", "wed", "thu", "fri", "sat">>
Numbers == {Digits[k] : k \in 1..8}
Names == {Week[k] : k \in 1..7}

\* A token of the field: a day, a range of days, or "*", perhaps with a step.
\* Steps after days and ranges are left out.
Day == [first : Numbers \cup Names, last : {None}, step : {0}]
Between == [first : Numbers, last : Numbers, step : {0}]
               \cup [first : Names, last : Names, step : {0}]
Any == [first : {"*"}, last : {None}, step : {0} \cup Steps]

Token == Day \cup Between \cup Any

VARIABLES
    source,     \* enabled, schedule.enabled, and the tokens of the field
    phase,      \* "loading", "rejected", "starting" or "running"
    scheduled,  \* the scheduler has a job for the source
    past,       \* days gone by since the start, which was a Sunday
    fired       \* the days on which the job fired

vars == <<source, phase, scheduled, past, fired>>

-----------------------------------------------------------------------------
(***************************************************************************)
(* The translation, token by token.                                        *)
(***************************************************************************)
DayAsIs(value) ==                    \* mutated: days are counted from Monday
    IF value \in Numbers
    THEN <<"mon", "tue", "wed", "thu", "fri", "sat", "sun", "sun">>[CHOOSE k \in 1..8 : Digits[k] = value]
    ELSE value

\* 0 and 7 are Sunday; names, "*" and None stay.
DayName(value) ==
    IF value \in Numbers
    THEN Week[1 + (((CHOOSE k \in 1..8 : Digits[k] = value) - 1) % 7)]
    ELSE value

Translated(token) == [token EXCEPT !.first = DayName(@), !.last = DayName(@)]

translate_day_of_week(field) == {Translated(token) : token \in field}

-----------------------------------------------------------------------------
(***************************************************************************)
(* The trigger, which counts 0 as Monday.                                  *)
(***************************************************************************)
Weekday(name) == CHOOSE k \in 0..6 : Week[1 + ((k + 1) % 7)] = name

Accepts(tokens) ==
    \A t \in tokens : t.last # None => Weekday(t.first) <= Weekday(t.last)

Fires(tokens, weekday) ==
    \E t \in tokens :
        IF t.first = "*" THEN t.step = 0 \/ weekday % t.step = 0
        ELSE IF t.last = None THEN weekday = Weekday(t.first)
        ELSE weekday \in Weekday(t.first)..Weekday(t.last)

-----------------------------------------------------------------------------
Init ==
    /\ source \in [enabled : BOOLEAN, on : BOOLEAN, field : {{t, u} : t \in Token, u \in Token}]
    /\ phase = "loading"
    /\ scheduled = FALSE
    /\ past = 0
    /\ fired = {}

\* cron_must_parse builds the trigger, also of a schedule that is off.
Load ==
    /\ phase = "loading"
    /\ phase' = IF Accepts(translate_day_of_week(source.field)) THEN "starting" ELSE "rejected"
    /\ UNCHANGED <<source, scheduled, past, fired>>

\* configure adds a job for every source of scheduled_sources.
Configure ==
    /\ phase = "starting"
    /\ phase' = "running"
    /\ scheduled' = (source.enabled /\ source.on)
    /\ UNCHANGED <<source, past, fired>>

\* A day goes by, and with it the time at which the job fires on its days.
DayPasses ==
    /\ phase = "running"
    /\ past < MaxDays
    /\ past' = past + 1
    /\ fired' = IF scheduled /\ Fires(translate_day_of_week(source.field), (past + 6) % 7)
                THEN fired \cup {past} ELSE fired
    /\ UNCHANGED <<source, phase, scheduled>>

Next == Load \/ Configure \/ DayPasses

Spec == Init /\ [][Next]_vars

-----------------------------------------------------------------------------
(***************************************************************************)
(* Properties.                                                             *)
(***************************************************************************)
\* The days from Sunday = 0 that a crontab means by a token.
Number(value) ==
    IF value \in Numbers THEN (CHOOSE k \in 1..8 : Digits[k] = value) - 1
    ELSE (CHOOSE k \in 1..7 : Week[k] = value) - 1

PosixDays(token) ==
    IF token.first = "*" THEN {d \in 0..6 : token.step = 0 \/ d % token.step = 0}
    ELSE IF token.last = None THEN {Number(token.first) % 7}
    ELSE IF token.first \in Numbers THEN {d % 7 : d \in Number(token.first)..Number(token.last)}
    ELSE {(Number(token.first) + k) % 7 : k \in 0..((Number(token.last) - Number(token.first)) % 7)}

\* What the translation is meant for: no "*/n", and no range of numbers that
\* runs backwards or from Sunday to Sunday.
Plain(token) ==
    /\ token.step = 0
    /\ token.last \in Numbers => /\ Number(token.first) <= Number(token.last)
                                 /\ <<token.first, token.last>> # <<"0", "7">>

\* "Day-of-week counts Sunday as 0, and 7 is also Sunday.  Names work too": a
\* schedule that was accepted fires on the days that a crontab means, and on
\* no others, and one that is off never fires.
FiresOnPosixDays ==
    phase = "running" /\ (\A t \in source.field : Plain(t)) =>
        fired = {d \in 0..(past - 1) : /\ source.enabled /\ source.on
                                       /\ \E t \in source.field : d % 7 \in PosixDays(t)}
=============================================================================
