------------------------- MODULE ConversionsProofs -------------------------
(***************************************************************************)
(* Theorems about the conversions: of a schedule, for every field of two   *)
(* tokens and any number of days, and of contacts, for every set of texts  *)
(* with at most two "www." in each.                                        *)
(***************************************************************************)
EXTENDS MCConversions, FiniteSetTheorems, SequenceTheorems, WellFoundedInduction, TLAPS

-----------------------------------------------------------------------------
(***************************************************************************)
(* Days of the week.                                                       *)
(***************************************************************************)
\* The place of a number and of a name.
LEMMA NumberPlace ==
    ASSUME NEW n \in 0..7
    PROVE  /\ Cron!Digits[n + 1] \in Cron!Numbers
           /\ (CHOOSE k \in 1..8 : Cron!Digits[k] = Cron!Digits[n + 1]) = n + 1
<1>1. Cron!Digits[n + 1] \in Cron!Numbers
  BY DEF Cron!Numbers
<1>2. \A k \in 1..8 : Cron!Digits[k] = Cron!Digits[n + 1] => k = n + 1
  BY DEF Cron!Digits
<1>3. n + 1 \in 1..8
  OBVIOUS
<1>4. QED
  BY <1>1, <1>2, <1>3

LEMMA NamePlace ==
    ASSUME NEW n \in 0..6
    PROVE  /\ Cron!Week[n + 1] \in Cron!Names /\ Cron!Week[n + 1] \notin Cron!Numbers
           /\ (CHOOSE k \in 1..7 : Cron!Week[k] = Cron!Week[n + 1]) = n + 1
<1>1. Cron!Week[n + 1] \in Cron!Names
  BY DEF Cron!Names
<1>2. \A k \in 1..7 : Cron!Week[k] = Cron!Week[n + 1] => k = n + 1
  BY DEF Cron!Week
<1>3. n + 1 \in 1..7
  OBVIOUS
<1>4. Cron!Week[n + 1] \notin Cron!Numbers
  BY DEF Cron!Numbers, Cron!Week, Cron!Digits
<1>5. QED
  BY <1>1, <1>2, <1>3, <1>4

\* The trigger counts from Monday.
LEMMA WeekdayOf ==
    ASSUME NEW n \in 0..6
    PROVE  Cron!Weekday(Cron!Week[n + 1]) = (n + 6) % 7
<1>1. \A k \in 0..6 : /\ (k + 1) % 7 \in 0..6
                      /\ Cron!Week[1 + ((k + 1) % 7)] = Cron!Week[n + 1] => (k + 1) % 7 = n
  BY DEF Cron!Week
<1>2. \A k \in 0..6 : (k + 1) % 7 = n => k = (n + 6) % 7
  OBVIOUS
<1>3. (n + 6) % 7 \in 0..6 /\ (((n + 6) % 7) + 1) % 7 = n
  OBVIOUS
<1>4. Cron!Week[1 + ((((n + 6) % 7) + 1) % 7)] = Cron!Week[n + 1]
  BY <1>3
<1>5. QED
  BY <1>1, <1>2, <1>3, <1>4 DEF Cron!Weekday

\* The day of a token, counted from Sunday, is the day of its translation,
\* counted from Monday.
LEMMA DayOf ==
    ASSUME NEW v \in Cron!Numbers \cup Cron!Names
    PROVE  /\ v # "*" /\ v # Cron!None /\ Cron!DayName(v) # "*" /\ Cron!DayName(v) # Cron!None
           /\ Cron!Number(v) \in 0..7 /\ (v \in Cron!Numbers => v = Cron!Digits[Cron!Number(v) + 1])
           /\ (v \in Cron!Names => v \notin Cron!Numbers /\ Cron!Number(v) \in 0..6)
           /\ Cron!Weekday(Cron!DayName(v)) = (Cron!Number(v) + 6) % 7
<1>1. CASE v \in Cron!Numbers
  <2>1. PICK n \in 0..7 : v = Cron!Digits[n + 1]
    <3>1. PICK k \in 1..8 : v = Cron!Digits[k]
      BY <1>1 DEF Cron!Numbers
    <3>2. k - 1 \in 0..7 /\ (k - 1) + 1 = k
      OBVIOUS
    <3>3. QED
      BY <3>1, <3>2
  <2> DEFINE place == CHOOSE k \in 1..8 : Cron!Digits[k] = v
  <2>11. place = n + 1
    BY <2>1, NumberPlace, Zenon
  <2>12. Cron!Number(v) = place - 1 /\ Cron!DayName(v) = Cron!Week[1 + ((place - 1) % 7)]
    BY <1>1, Zenon DEF Cron!Number, Cron!DayName
  <2> HIDE DEF place
  <2>13. place - 1 = n
    BY <2>11
  <2>2. Cron!Number(v) = n
    BY <2>12, <2>13
  <2>3. Cron!DayName(v) = Cron!Week[1 + (n % 7)]
    BY <2>12, <2>13
  <2>4. PICK m \in 0..6 : m = n % 7
    OBVIOUS
  <2>5. Cron!DayName(v) = Cron!Week[m + 1]
    BY <2>3, <2>4
  <2>6. Cron!Weekday(Cron!DayName(v)) = (m + 6) % 7
    BY <2>5, WeekdayOf
  <2>7. (m + 6) % 7 = (n + 6) % 7
    BY <2>4
  <2>8. v # "*" /\ v # Cron!None /\ Cron!DayName(v) # "*" /\ Cron!DayName(v) # Cron!None
    BY <2>1, <2>5 DEF Cron!Digits, Cron!Week, Cron!None
  <2>9. v \notin Cron!Names
    BY <1>1, <2>1 DEF Cron!Names, Cron!Week, Cron!Digits
  <2>10. QED
    BY <2>1, <2>2, <2>6, <2>7, <2>8, <2>9
<1>2. CASE v \in Cron!Names
  <2>1. PICK n \in 0..6 : v = Cron!Week[n + 1]
    <3>1. PICK k \in 1..7 : v = Cron!Week[k]
      BY <1>2 DEF Cron!Names
    <3>2. k - 1 \in 0..6 /\ (k - 1) + 1 = k
      OBVIOUS
    <3>3. QED
      BY <3>1, <3>2
  <2> DEFINE place == CHOOSE k \in 1..7 : Cron!Week[k] = v
  <2>2. v \notin Cron!Numbers /\ place = n + 1
    BY <2>1, NamePlace, Zenon
  <2>7. Cron!Number(v) = place - 1 /\ Cron!DayName(v) = v
    BY <2>2, Zenon DEF Cron!Number, Cron!DayName
  <2> HIDE DEF place
  <2>3. Cron!Number(v) = n /\ Cron!DayName(v) = v
    BY <2>2, <2>7
  <2>4. Cron!Weekday(v) = (n + 6) % 7
    BY <2>1, WeekdayOf
  <2>5. v # "*" /\ v # Cron!None
    BY <2>1 DEF Cron!Week, Cron!None
  <2>6. QED
    BY <2>2, <2>3, <2>4, <2>5
<1>3. QED
  BY <1>1, <1>2

\* Of the arithmetic of days.
LEMMA SameDay == \A n \in 0..7, w \in 0..6 : (w + 6) % 7 = (n + 6) % 7 <=> w = n % 7
  OBVIOUS

LEMMA DaysBetweenNumbers ==
    ASSUME NEW n \in 0..7, NEW m \in 0..7, n <= m, ~(n = 0 /\ m = 7), (n + 6) % 7 <= (m + 6) % 7,
           NEW w \in 0..6
    PROVE  (w + 6) % 7 \in (n + 6) % 7..(m + 6) % 7 <=> \E x \in n..m : w = x % 7
<1>1. CASE n = 0
  <2>1. m = 0
    BY <1>1
  <2>2. (w + 6) % 7 \in 6..6 <=> w = 0
    OBVIOUS
  <2>3. QED
    BY <1>1, <2>1, <2>2
<1>2. CASE n > 0
  <2>1. (w + 6) % 7 = IF w = 0 THEN 6 ELSE w - 1
    OBVIOUS
  <2>2. (n + 6) % 7 = n - 1 /\ (m + 6) % 7 = m - 1
    BY <1>2
  <2>3. CASE w = 0
    <3>1. (w + 6) % 7 \in (n + 6) % 7..(m + 6) % 7 <=> m = 7
      BY <2>1, <2>2, <2>3
    <3>2. (\E x \in n..m : w = x % 7) <=> m = 7
      <4>1. m = 7 => 7 \in n..m /\ 7 % 7 = 0
        OBVIOUS
      <4>2. \A x \in n..m : x % 7 = 0 => x = 7
        BY <1>2
      <4>3. QED
        BY <2>3, <4>1, <4>2
    <3>3. QED
      BY <3>1, <3>2
  <2>4. CASE w > 0
    <3>1. (w + 6) % 7 \in (n + 6) % 7..(m + 6) % 7 <=> w \in n..m
      BY <2>1, <2>2, <2>4
    <3>2. (\E x \in n..m : w = x % 7) <=> w \in n..m
      <4>1. \A x \in n..m : w = x % 7 => x = w
        BY <1>2, <2>4
      <4>2. w % 7 = w
        OBVIOUS
      <4>3. QED
        BY <4>1, <4>2
    <3>3. QED
      BY <3>1, <3>2
  <2>5. QED
    BY <2>3, <2>4
<1>3. QED
  BY <1>1, <1>2

LEMMA DaysBetweenNames ==
    ASSUME NEW n \in 0..6, NEW m \in 0..6, (n + 6) % 7 <= (m + 6) % 7, NEW w \in 0..6
    PROVE  (w + 6) % 7 \in (n + 6) % 7..(m + 6) % 7 <=> \E k \in 0..((m - n) % 7) : w = (n + k) % 7
<1>1. \A a, b \in 0..6 : (b - a) % 7 \in 0..6 /\ (b - a) % 7 = IF a <= b THEN b - a ELSE b - a + 7
  OBVIOUS
<1>2. \A a \in 0..6 : (a + 6) % 7 = IF a = 0 THEN 6 ELSE a - 1
  OBVIOUS
<1>3. \A a, b \in 0..6 : (a + b) % 7 = IF a + b < 7 THEN a + b ELSE a + b - 7
  OBVIOUS
<1>4. PICK span \in 0..6 : span = (m - n) % 7 /\ span = IF n <= m THEN m - n ELSE m - n + 7
  BY <1>1
<1>5. PICK k \in 0..6 : k = (w - n) % 7 /\ k = IF n <= w THEN w - n ELSE w - n + 7
  BY <1>1
<1>6. PICK from \in 0..6 : from = (n + 6) % 7 /\ (n = 0 => from = 6) /\ (n > 0 => from = n - 1)
  BY <1>2
<1>11. PICK to \in 0..6 : to = (m + 6) % 7 /\ (m = 0 => to = 6) /\ (m > 0 => to = m - 1)
  BY <1>2
<1>12. PICK at \in 0..6 : at = (w + 6) % 7 /\ (w = 0 => at = 6) /\ (w > 0 => at = w - 1)
  BY <1>2
<1>13. from <= to
  BY <1>6, <1>11
<1>14. from <= at /\ at <= to <=> k <= span
  <2>1. CASE n <= m
    <3>1. span = m - n
      BY <1>4, <2>1
    <3>2. CASE n <= w
      BY <3>1, <2>1, <3>2, <1>5, <1>6, <1>11, <1>12, <1>13
    <3>3. CASE w < n
      BY <3>1, <2>1, <3>3, <1>5, <1>6, <1>11, <1>12, <1>13
    <3>4. QED
      BY <3>2, <3>3
  <2>2. CASE m < n
    <3>1. span = m - n + 7
      BY <1>4, <2>2
    <3>2. CASE n <= w
      BY <3>1, <2>2, <3>2, <1>5, <1>6, <1>11, <1>12, <1>13
    <3>3. CASE w < n
      BY <3>1, <2>2, <3>3, <1>5, <1>6, <1>11, <1>12, <1>13
    <3>4. QED
      BY <3>2, <3>3
  <2>3. QED
    BY <2>1, <2>2
<1>7. (w + 6) % 7 \in (n + 6) % 7..(m + 6) % 7 <=> k <= span
  BY <1>6, <1>11, <1>12, <1>14
<1>8. \A j \in 0..6 : w = (n + j) % 7 <=> j = k
  BY <1>3, <1>5
<1>9. (\E j \in 0..span : w = (n + j) % 7) <=> k <= span
  BY <1>8
<1>10. QED
  BY <1>4, <1>7, <1>9

-----------------------------------------------------------------------------
(***************************************************************************)
(* Tokens.                                                                 *)
(***************************************************************************)
LEMMA TranslatedIs ==
    ASSUME NEW t \in Cron!Token
    PROVE  /\ Cron!Translated(t).first = Cron!DayName(t.first)
           /\ Cron!Translated(t).last = Cron!DayName(t.last)
           /\ Cron!Translated(t).step = t.step
           /\ Cron!DayName(Cron!None) = Cron!None /\ Cron!DayName("*") = "*"
<1>1. Cron!None \notin Cron!Numbers /\ "*" \notin Cron!Numbers
  BY DEF Cron!None, Cron!Numbers, Cron!Digits
<1>2. Cron!DayName(Cron!None) = Cron!None /\ Cron!DayName("*") = "*"
  BY <1>1 DEF Cron!DayName
<1>3. \E A, B, C : t \in [first : A, last : B, step : C]
  BY DEF Cron!Token, Cron!Day, Cron!Between, Cron!Any
<1>4. QED
  BY <1>2, <1>3 DEF Cron!Translated

\* A token that was accepted fires on the days it means: day d, counted from a
\* Sunday, is weekday (d + 6) % 7 of the trigger.
LEMMA TokenFires ==
    ASSUME NEW t \in Cron!Token, Cron!Plain(t), Cron!Accepts({Cron!Translated(t)}), NEW w \in 0..6
    PROVE  Cron!Fires({Cron!Translated(t)}, (w + 6) % 7) <=> w \in Cron!PosixDays(t)
<1> DEFINE new == Cron!Translated(t)
<1>1. new.first = Cron!DayName(t.first) /\ new.last = Cron!DayName(t.last) /\ new.step = t.step
  BY TranslatedIs
<1>2. Cron!DayName(Cron!None) = Cron!None /\ Cron!DayName("*") = "*"
  BY TranslatedIs
<1>3. t.step = 0
  BY DEF Cron!Plain
<1>4. Cron!Fires({new}, (w + 6) % 7) <=>
          IF new.first = "*" THEN new.step = 0 \/ ((w + 6) % 7) % new.step = 0
          ELSE IF new.last = Cron!None THEN (w + 6) % 7 = Cron!Weekday(new.first)
          ELSE (w + 6) % 7 \in Cron!Weekday(new.first)..Cron!Weekday(new.last)
  BY Zenon DEF Cron!Fires
<1>5. new.last # Cron!None => Cron!Weekday(new.first) <= Cron!Weekday(new.last)
  BY Zenon DEF Cron!Accepts
<1> HIDE DEF new
<1>6. CASE t \in Cron!Any
  <2>1. t.first = "*"
    BY <1>6 DEF Cron!Any
  <2>2. w \in Cron!PosixDays(t)
    BY <1>3, <2>1 DEF Cron!PosixDays
  <2>3. new.first = "*" /\ new.step = 0
    BY <1>1, <1>2, <1>3, <2>1
  <2>4. Cron!Fires({new}, (w + 6) % 7)
    BY <1>4, <2>3, Zenon
  <2>5. QED
    BY <2>2, <2>4 DEF new
<1>7. CASE t \in Cron!Day
  <2>1. t.first \in Cron!Numbers \cup Cron!Names /\ t.last = Cron!None
    BY <1>7 DEF Cron!Day
  <2>2. PICK n \in 0..7 : /\ n = Cron!Number(t.first) /\ t.first # "*" /\ new.first # "*"
                         /\ Cron!Weekday(new.first) = (n + 6) % 7
    BY <1>1, <2>1, DayOf
  <2>3. w \in Cron!PosixDays(t) <=> w = n % 7
    BY <2>1, <2>2 DEF Cron!PosixDays
  <2>4. Cron!Fires({new}, (w + 6) % 7) <=> (w + 6) % 7 = (n + 6) % 7
    BY <1>1, <1>2, <1>4, <2>1, <2>2
  <2>5. QED
    BY <2>3, <2>4, SameDay DEF new
<1>8. CASE t \in Cron!Between
  <2>1. /\ t.first \in Cron!Numbers \cup Cron!Names /\ t.last \in Cron!Numbers \cup Cron!Names
        /\ \/ t.first \in Cron!Numbers /\ t.last \in Cron!Numbers
           \/ t.first \in Cron!Names /\ t.last \in Cron!Names
    BY <1>8 DEF Cron!Between
  <2>2. PICK n \in 0..7 : /\ n = Cron!Number(t.first) /\ t.first # "*" /\ new.first # "*"
                         /\ Cron!Weekday(new.first) = (n + 6) % 7
    BY <1>1, <2>1, DayOf
  <2>3. PICK m \in 0..7 : /\ m = Cron!Number(t.last) /\ t.last # Cron!None /\ new.last # Cron!None
                         /\ Cron!Weekday(new.last) = (m + 6) % 7
    BY <1>1, <2>1, DayOf
  <2>4. (n + 6) % 7 <= (m + 6) % 7
    BY <1>5, <2>2, <2>3
  <2>5. Cron!Fires({new}, (w + 6) % 7) <=> (w + 6) % 7 \in (n + 6) % 7..(m + 6) % 7
    BY <1>4, <2>2, <2>3
  <2>6. CASE t.first \in Cron!Numbers /\ t.last \in Cron!Numbers
    <3>1. n <= m /\ <<t.first, t.last>> # <<"0", "7">>
      BY <2>2, <2>3, <2>6 DEF Cron!Plain
    <3>2. t.first = Cron!Digits[n + 1] /\ t.last = Cron!Digits[m + 1]
      BY <2>2, <2>3, <2>6, DayOf
    <3>3. ~(n = 0 /\ m = 7)
      BY <3>1, <3>2 DEF Cron!Digits
    <3>4. w \in Cron!PosixDays(t) <=> \E x \in n..m : w = x % 7
      BY <2>2, <2>3, <2>6 DEF Cron!PosixDays
    <3>5. QED
      BY <2>4, <2>5, <3>1, <3>3, <3>4, DaysBetweenNumbers DEF new
  <2>7. CASE t.first \in Cron!Names /\ t.last \in Cron!Names
    <3>1. t.first \notin Cron!Numbers /\ n \in 0..6 /\ m \in 0..6
      BY <2>2, <2>3, <2>7, DayOf
    <3>2. w \in Cron!PosixDays(t) <=> \E k \in 0..((m - n) % 7) : w = (n + k) % 7
      BY <2>2, <2>3, <3>1 DEF Cron!PosixDays
    <3>3. QED
      BY <2>4, <2>5, <3>1, <3>2, DaysBetweenNames DEF new
  <2>8. QED
    BY <2>1, <2>6, <2>7
<1>9. QED
  BY <1>6, <1>7, <1>8 DEF Cron!Token

-----------------------------------------------------------------------------
(***************************************************************************)
(* Schedules.                                                              *)
(***************************************************************************)
\* A field fires on the days of its tokens.
LEMMA FieldFires ==
    ASSUME NEW field \in SUBSET Cron!Token, \A t \in field : Cron!Plain(t),
           Cron!Accepts(Cron!translate_day_of_week(field)), NEW d \in Nat
    PROVE  Cron!Fires(Cron!translate_day_of_week(field), (d + 6) % 7) <=>
               \E t \in field : d % 7 \in Cron!PosixDays(t)
<1>1. \A w : Cron!Fires(Cron!translate_day_of_week(field), w) <=>
                \E t \in field : Cron!Fires({Cron!Translated(t)}, w)
  BY Zenon DEF Cron!Fires, Cron!translate_day_of_week
<1>2. \A t \in field : Cron!Accepts({Cron!Translated(t)})
  BY Zenon DEF Cron!Accepts, Cron!translate_day_of_week
<1>3. PICK w \in 0..6 : w = d % 7 /\ (d + 6) % 7 = (w + 6) % 7
  OBVIOUS
<1>4. \A t \in field : Cron!Fires({Cron!Translated(t)}, (w + 6) % 7) <=> w \in Cron!PosixDays(t)
  BY <1>2, TokenFires
<1>5. QED
  BY <1>1, <1>3, <1>4

\* The days on which the trigger fires, whatever the schedule means by them.
FiringDays(n) ==
    {d \in 0..(n - 1) : /\ source.enabled /\ source.on
                       /\ Cron!Fires(Cron!translate_day_of_week(source.field), (d + 6) % 7)}

\* Before it runs nothing has fired; then the schedule that was accepted has
\* fired on the days of its trigger.
ScheduleInv ==
    /\ phase # "none" => source.field \in SUBSET Cron!Token
    /\ phase \in {"starting", "running"} => Cron!Accepts(Cron!translate_day_of_week(source.field))
    /\ past \in Nat
    /\ phase # "running" => past = 0 /\ fired = {}
    /\ phase = "running" => (scheduled <=> source.enabled /\ source.on) /\ fired = FiringDays(past)

\* One more day of the trigger.
LEMMA NextFiringDay ==
    ASSUME NEW n \in Nat
    PROVE  /\ FiringDays(0) = {}
           /\ FiringDays(n + 1) = IF /\ source.enabled /\ source.on
                                     /\ Cron!Fires(Cron!translate_day_of_week(source.field), (n + 6) % 7)
                                  THEN FiringDays(n) \cup {n} ELSE FiringDays(n)
<1> DEFINE On(d) == /\ source.enabled /\ source.on
                    /\ Cron!Fires(Cron!translate_day_of_week(source.field), (d + 6) % 7)
<1>1. \A k : FiringDays(k) = {d \in 0..(k - 1) : On(d)}
  BY Zenon DEF FiringDays
<1> HIDE DEF On
<1>2. 0..(0 - 1) = {} /\ 0..((n + 1) - 1) = 0..(n - 1) \cup {n}
  OBVIOUS
<1>3. FiringDays(0) = {}
  BY <1>1, <1>2, Zenon
<1>4. CASE On(n)
  BY <1>1, <1>2, <1>3, <1>4, Zenon DEF On
<1>5. CASE ~On(n)
  BY <1>1, <1>2, <1>3, <1>5, Zenon DEF On
<1>6. QED
  BY <1>4, <1>5

LEMMA ScheduleStarts == MCInit => ScheduleInv
<1> SUFFICES ASSUME MCInit PROVE ScheduleInv
  OBVIOUS
<1>1. CASE Cron!Init
  <2>1. PICK t, u \in Cron!Token : source.field = {t, u}
    BY <1>1 DEF Cron!Init
  <2>2. QED
    BY <1>1, <2>1 DEF Cron!Init, ScheduleInv
<1>2. CASE phase = "none" /\ source = "none" /\ scheduled = FALSE /\ past = 0 /\ fired = {}
  BY <1>2 DEF ScheduleInv
<1>3. QED
  BY <1>1, <1>2 DEF MCInit

LEMMA ScheduleSteps == ScheduleInv /\ [MCNext]_AllVars => ScheduleInv'
<1> SUFFICES ASSUME ScheduleInv, [MCNext]_AllVars PROVE ScheduleInv'
  OBVIOUS
<1>1. CASE Cron!Load
  <2>1. source.field' = source.field
    BY <1>1 DEF Cron!Load
  <2>2. QED
    BY <1>1, <2>1 DEF Cron!Load, ScheduleInv
<1>2. CASE Cron!Configure
  <2>1. fired' = {} /\ past' = 0 /\ FiringDays(0)' = {}
    <3>1. source' = source /\ FiringDays(0)' = FiringDays(0)
      BY <1>2 DEF Cron!Configure, FiringDays
    <3>2. QED
      BY <1>2, <3>1, NextFiringDay DEF Cron!Configure, ScheduleInv
  <2>2. phase' = "running" /\ (scheduled' <=> source'.enabled /\ source'.on) /\ source' = source
    BY <1>2 DEF Cron!Configure
  <2>3. fired' = FiringDays(past)'
    BY <2>1, Zenon DEF FiringDays
  <2>4. phase = "starting"
    BY <1>2 DEF Cron!Configure
  <2>5. QED
    BY <2>1, <2>2, <2>3, <2>4 DEF ScheduleInv
<1>3. CASE Cron!DayPasses
  <2>1. /\ phase = "running" /\ past \in Nat /\ fired = FiringDays(past)
        /\ scheduled <=> source.enabled /\ source.on
    BY <1>3 DEF Cron!DayPasses, ScheduleInv
  <2>2. past' = past + 1 /\ source' = source /\ phase' = phase /\ scheduled' = scheduled
    BY <1>3 DEF Cron!DayPasses
  <2>3. fired' = IF scheduled /\ Cron!Fires(Cron!translate_day_of_week(source.field), (past + 6) % 7)
                 THEN fired \cup {past} ELSE fired
    BY <1>3 DEF Cron!DayPasses
  <2>4. fired' = FiringDays(past + 1)
    BY <2>1, <2>3, NextFiringDay
  <2>5. FiringDays(past + 1) = FiringDays(past)'
    BY <2>2, Zenon DEF FiringDays
  <2>6. QED
    BY <2>1, <2>2, <2>4, <2>5 DEF ScheduleInv
<1>4. CASE UNCHANGED <<source, phase, scheduled, past, fired>>
  <2>1. FiringDays(past)' = FiringDays(past)
    BY <1>4, Zenon DEF FiringDays
  <2>2. QED
    BY <1>4, <2>1 DEF ScheduleInv
<1>5. QED
  BY <1>1, <1>2, <1>3, <1>4 DEF MCNext, AllVars, Cron!Next

\* A schedule that was accepted and has neither steps nor ranges that wrap
\* fires on the days that a crontab means and on no others, and one that is
\* off never fires, for every field of two tokens and every number of days.
THEOREM SchedulesFireOnPosixDays == MCSpec => []FiresOnPosixDays
<1>1. ScheduleInv => FiresOnPosixDays
  <2> SUFFICES ASSUME ScheduleInv, phase = "running", \A t \in source.field : Cron!Plain(t)
               PROVE  fired = {d \in 0..(past - 1) : /\ source.enabled /\ source.on
                                                    /\ \E t \in source.field : d % 7 \in Cron!PosixDays(t)}
    BY DEF FiresOnPosixDays, Cron!FiresOnPosixDays
  <2>1. /\ source.field \in SUBSET Cron!Token /\ Cron!Accepts(Cron!translate_day_of_week(source.field))
        /\ past \in Nat /\ fired = FiringDays(past)
    BY DEF ScheduleInv
  <2>2. \A d \in Nat : Cron!Fires(Cron!translate_day_of_week(source.field), (d + 6) % 7) <=>
                           \E t \in source.field : d % 7 \in Cron!PosixDays(t)
    BY <2>1, FieldFires
  <2>3. \A d \in 0..(past - 1) : d \in Nat
    OBVIOUS
  <2>4. QED
    BY <2>1, <2>2, <2>3, Zenon DEF FiringDays
<1>2. QED
  BY <1>1, ScheduleStarts, ScheduleSteps, PTL DEF MCSpec

-----------------------------------------------------------------------------
(***************************************************************************)
(* Words and texts.                                                        *)
(***************************************************************************)

\* Names for words, which the provers take for constants.
Blank == " "
Link == "mailto:"
Secure == "https://"
Www == "www."
Brackets == {"<", ">"}

Word == STRING \cup {Link, Secure, Www, ADDRESS, HOST}
Text == Seq(Word)

\* The words that the conversions look for are different words.
LEMMA DistinctWords ==
    /\ Blank \notin Brackets /\ Link \notin Brackets /\ Link # Blank
    /\ Secure # Blank /\ Www # Blank /\ Secure # Www /\ Secure # Link /\ Www # Link
    /\ Secure \in Schemes /\ Www \notin Schemes /\ Blank \notin Schemes
    /\ ADDRESS \notin Schemes /\ HOST \notin Schemes
    /\ ADDRESS # HOST /\ Secure # ADDRESS /\ Secure # HOST /\ Www # ADDRESS /\ Www # HOST
    /\ Blank # ADDRESS /\ Blank # HOST /\ Link # ADDRESS /\ Link # HOST
BY DEF Blank, Link, Secure, Www, Brackets, ADDRESS, HOST, Schemes

\* A word in capitals has another for small letters, and every other word is its own.
LEMMA SmallCases ==
    ASSUME NEW w
    PROVE  \/ w = "MAILTO:" /\ Small(w) = "mailto:"
           \/ w = "HTTPS://" /\ Small(w) = "https://"
           \/ w = "WWW." /\ Small(w) = "www."
           \/ w = "INFO@ACME.FI" /\ Small(w) = ADDRESS
           \/ w = "ACME.FI" /\ Small(w) = HOST
           \/ w \notin {"MAILTO:", "HTTPS://", "WWW.", "INFO@ACME.FI", "ACME.FI"} /\ Small(w) = w
BY DEF Small, SmallLetters

\* What is small stays, and small words are words.
LEMMA SmallWords ==
    ASSUME NEW w
    PROVE  /\ Small(Small(w)) = Small(w)
           /\ w \in Word => Small(w) \in Word
           /\ Small(w) = Blank <=> w = Blank
           /\ w \in Brackets => Small(w) = w
           /\ w \in {Link, Secure, Www, ADDRESS, HOST} => Small(w) = w
<1>1. \A v \in {Link, Secure, Www, ADDRESS, HOST} : Small(v) = v
  BY SmallCases DEF ADDRESS, HOST, Link, Secure, Www
<1>2. Small(w) = w \/ Small(w) \in {Link, Secure, Www, ADDRESS, HOST}
  BY SmallCases DEF Link, Secure, Www
<1>3. Small(w) = Blank <=> w = Blank
  BY SmallCases DEF ADDRESS, HOST, Blank
<1>4. w \in Brackets => Small(w) = w
  BY SmallCases DEF Brackets
<1>5. QED
  BY <1>1, <1>2, <1>3, <1>4, Zenon DEF Word

\* A text in small letters is as long as the text, and small.
LEMMA LowerText ==
    ASSUME NEW text \in Text
    PROVE  /\ Lower(text) \in Text /\ Len(Lower(text)) = Len(text)
           /\ \A k \in 1..Len(text) : Lower(text)[k] = Small(text[k])
           /\ Lower(Lower(text)) = Lower(text)
<1>1. Len(text) \in Nat /\ DOMAIN text = 1..Len(text) /\ \A k \in 1..Len(text) : text[k] \in Word
  BY DEF Text
<1>2. Lower(text) = [k \in 1..Len(text) |-> Small(text[k])]
  BY <1>1, Zenon DEF Lower
<1>3. \A k \in 1..Len(text) : Small(text[k]) \in Word
  BY <1>1, SmallWords
<1>4. Lower(text) \in [1..Len(text) -> Word]
  BY <1>2, <1>3, Zenon
<1>5. Lower(text) \in Text
  BY <1>1, <1>4, SeqDef, Zenon DEF Text
<1>6. Len(Lower(text)) = Len(text)
  BY <1>1, <1>4, <1>5 DEF Text
<1>7. DOMAIN Lower(text) = 1..Len(text) /\ \A k \in 1..Len(text) : Lower(text)[k] = Small(text[k])
  BY <1>2, Zenon
<1>8. Lower(Lower(text)) = [k \in 1..Len(text) |-> Small(Lower(text)[k])]
  BY <1>7, Zenon DEF Lower
<1>9. \A k \in 1..Len(text) : Small(Lower(text)[k]) = Small(text[k])
  BY <1>7, SmallWords, Zenon
<1>10. Lower(Lower(text)) = Lower(text)
  BY <1>2, <1>8, <1>9, Zenon
<1>11. QED
  BY <1>5, <1>6, <1>7, <1>10

\* A part of a text.
LEMMA PartOf ==
    ASSUME NEW text \in Text, NEW a \in 1..Len(text), NEW b \in a..Len(text)
    PROVE  LET part == SubSeq(text, a, b)
           IN  /\ part \in Text /\ part # <<>> /\ Len(part) = b - a + 1
               /\ \A k \in 1..(b - a + 1) : part[k] = text[a + k - 1]
               /\ Head(part) = text[a] /\ Tail(part) = SubSeq(text, a + 1, b)
<1> DEFINE part == SubSeq(text, a, b)
<1>1. Len(text) \in Nat /\ a \in Int /\ b \in Int /\ a <= b /\ a..b \subseteq 1..Len(text)
  BY DEF Text
<1>2. \A k \in a..b : text[k] \in Word
  BY <1>1 DEF Text
<1>3. part \in Seq(Word) /\ Len(part) = b - a + 1 /\ \A k \in 1..(b - a + 1) : part[k] = text[a + k - 1]
  BY <1>1, <1>2, SubSeqProperties
<1>4. Head(part) = text[a] /\ Tail(part) = SubSeq(text, a + 1, b)
  BY HeadTailOfSubSeq DEF Text
<1>5. part # <<>>
  BY <1>1, <1>3
<1>6. QED
  BY <1>3, <1>4, <1>5 DEF Text

\* A part of a text that is one word.
LEMMA OneWord ==
    ASSUME NEW text \in Text, NEW p \in 1..Len(text)
    PROVE  SubSeq(text, p, p) = <<text[p]>>
<1>1. /\ SubSeq(text, p, p) \in Seq(Word) /\ Len(SubSeq(text, p, p)) = 1
      /\ SubSeq(text, p, p)[1] = text[p] /\ text[p] \in Word
  BY PartOf DEF Text
<1>2. <<text[p]>> \in Seq(Word) /\ Len(<<text[p]>>) = 1 /\ <<text[p]>>[1] = text[p]
  BY <1>1
<1>3. \A t \in Seq(Word) : Len(t) = 1 /\ t[1] = text[p] => t = <<text[p]>>
  BY <1>2
<1>4. QED
  BY <1>1, <1>3

\* A set of naturals that is not empty has a least element.
LEMMA LeastOf ==
    ASSUME NEW T \in SUBSET Nat, T # {}
    PROVE  \E x \in T : \A y \in T : x <= y
<1>1. \E x \in T : \A y \in T : ~ (<<y, x>> \in OpToRel(<, Nat))
  BY WFMin, NatLessThanWellFounded, Zenon
<1>2. \E x \in T : \A y \in T : ~ (y < x)
  BY <1>1, Zenon DEF OpToRel
<1>3. QED
  BY <1>2

\* Min and Max of a set of places in a text that is not empty.
LEMMA Extremes ==
    ASSUME NEW n \in Nat, NEW S \in SUBSET (1..n), S # {}
    PROVE  /\ Min(S) \in S /\ \A x \in S : Min(S) <= x
           /\ Max(S) \in S /\ \A x \in S : x <= Max(S)
<1>1. \E x \in S : \A y \in S : x <= y
  BY LeastOf
<1>2. \E x \in S : \A y \in S : x >= y
  <2> DEFINE T == {n - x : x \in S}
  <2>1. T \in SUBSET Nat /\ T # {}
    <3>1. \A x \in S : n - x \in Nat
      OBVIOUS
    <3>2. QED
      BY <3>1, Zenon
  <2>2. PICK t \in T : \A u \in T : t <= u
    BY <2>1, LeastOf, Zenon
  <2>3. PICK x \in S : t = n - x
    BY <2>2
  <2>4. \A y \in S : n - x <= n - y
    BY <2>2, <2>3
  <2>5. QED
    BY <2>4
<1>3. Min(S) \in S /\ \A x \in S : Min(S) <= x
  BY <1>1, Zenon DEF Min
<1>4. Max(S) \in S /\ \A x \in S : Max(S) >= x
  BY <1>2, Zenon DEF Max
<1>5. QED
  BY <1>3, <1>4

\* A part of a part of a text is a part of the text.
LEMMA PartOfPart ==
    ASSUME NEW text \in Text, NEW a \in 1..Len(text), NEW b \in a..Len(text),
           NEW i \in 1..(b - a + 1), NEW j \in 1..(b - a + 1)
    PROVE  SubSeq(SubSeq(text, a, b), i, j) = SubSeq(text, a + i - 1, a + j - 1)
<1>1. a \in 1..Len(text) /\ b \in 1..Len(text)
  OBVIOUS
<1>2. QED
  BY <1>1, SubSeqOfSubSeq DEF Text

\* What is left of a part of a text when some words are taken off its ends, and
\* one that is not among them is in it.
Stripped(text, a, b, words, c, d) ==
    /\ Strip(SubSeq(text, a, b), words) = SubSeq(text, c, d)
    /\ text[c] \notin words /\ text[d] \notin words
    /\ \A k \in a..b : k < c \/ d < k => text[k] \in words

\* Strip takes the words off both ends of a part, if another word is in it.
LEMMA StripPart ==
    ASSUME NEW text \in Text, NEW a \in 1..Len(text), NEW b \in a..Len(text),
           NEW p \in a..b, NEW words, text[p] \notin words
    PROVE  \E c \in a..p, d \in p..b : Stripped(text, a, b, words, c, d)
<1> DEFINE part == SubSeq(text, a, b)
           kept == {k \in DOMAIN part : part[k] \notin words}
<1>1. /\ part \in Text /\ Len(part) = b - a + 1 /\ Len(part) \in Nat /\ DOMAIN part = 1..(b - a + 1)
      /\ \A k \in 1..(b - a + 1) : part[k] = text[a + k - 1]
  BY PartOf DEF Text
<1>2. p - a + 1 \in kept
  BY <1>1
<1>3. kept \in SUBSET (1..Len(part))
  BY <1>1
<1>4. Strip(part, words) = SubSeq(part, Min(kept), Max(kept))
  BY <1>2, Zenon DEF Strip
<1> HIDE DEF kept
<1>5. PICK first \in kept : first = Min(kept) /\ \A k \in kept : first <= k
  BY <1>1, <1>2, <1>3, Extremes
<1>6. PICK last \in kept : last = Max(kept) /\ \A k \in kept : k <= last
  BY <1>1, <1>2, <1>3, Extremes
<1>7. /\ first \in 1..(b - a + 1) /\ last \in 1..(b - a + 1)
      /\ first <= p - a + 1 /\ p - a + 1 <= last
      /\ part[first] \notin words /\ part[last] \notin words
  BY <1>1, <1>2, <1>3, <1>5, <1>6 DEF kept
<1>8. PICK c \in a..p : c = a + first - 1
  BY <1>7
<1>9. PICK d \in p..b : d = a + last - 1
  BY <1>7
<1>10. SubSeq(part, first, last) = SubSeq(text, c, d)
  BY <1>7, <1>8, <1>9, PartOfPart
<1>11. text[c] \notin words /\ text[d] \notin words
  BY <1>1, <1>7, <1>8, <1>9
<1>12. ASSUME NEW k \in a..b, k < c \/ d < k
       PROVE  text[k] \in words
  <2>1. k - a + 1 \in 1..(b - a + 1) /\ (k - a + 1 < first \/ last < k - a + 1) /\ a + (k - a + 1) - 1 = k
    BY <1>7, <1>8, <1>9, <1>12
  <2>2. k - a + 1 \notin kept
    BY <1>5, <1>6, <1>7, <2>1
  <2>3. QED
    BY <1>1, <2>1, <2>2 DEF kept
<1>13. QED
  BY <1>4, <1>5, <1>6, <1>10, <1>11, <1>12 DEF Stripped

\* A text is a part of itself.
LEMMA WholeText ==
    ASSUME NEW text \in Text
    PROVE  /\ SubSeq(text, 1, Len(text)) = text
           /\ Len(text) \in Nat /\ DOMAIN text = 1..Len(text)
BY SubSeqFull DEF Text

\* clean_text takes the blanks off both ends.
LEMMA CleanText ==
    ASSUME NEW text
    PROVE  clean_text(text) = Strip(text, {Blank})
BY DEF clean_text, Blank

-----------------------------------------------------------------------------
(***************************************************************************)
(* Emails.                                                                 *)
(***************************************************************************)
\* An email that is shown validly is the address of the company as it is stored.
LEMMA ValidEmail ==
    ASSUME NEW text, validate_email_field(normalize_email(text)) = "valid"
    PROVE  normalize_email(text) = <<ADDRESS>>
<1> DEFINE bare == clean_text(Strip(clean_text(removeprefix(clean_text(text), "mailto:")), {"<", ">"}))
<1>1. normalize_email(text) = Lower(bare)
  BY Zenon DEF normalize_email
<1> HIDE DEF bare
<1>2. Lower(Lower(bare)) = Lower(bare)
  <2>1. DOMAIN Lower(bare) = DOMAIN bare /\ \A k \in DOMAIN bare : Lower(bare)[k] = Small(bare[k])
    BY Zenon DEF Lower
  <2>2. \A k \in DOMAIN bare : Small(Lower(bare)[k]) = Small(bare[k])
    BY <2>1, SmallWords, Zenon
  <2>3. Lower(Lower(bare)) = [k \in DOMAIN bare |-> Small(Lower(bare)[k])]
    BY <2>1, Zenon DEF Lower
  <2>4. Lower(bare) = [k \in DOMAIN bare |-> Small(bare[k])]
    BY Zenon DEF Lower
  <2>5. QED
    BY <2>2, <2>3, <2>4, Zenon
<1>3. Lower(Lower(bare)) = <<ADDRESS>>
  BY <1>1 DEF validate_email_field
<1>4. QED
  BY <1>1, <1>2, <1>3

\* A link, brackets and blanks come off the one address of a legible text.
LEMMA LegibleEmail ==
    ASSUME NEW text \in Text, Legible("email", text)
    PROVE  normalize_value("email", text) = <<ADDRESS>>
<1> DEFINE n == Len(text)
<1>1. n \in Nat /\ DOMAIN text = 1..n /\ SubSeq(text, 1, n) = text
  BY WholeText
<1>2. PICK p \in DOMAIN text :
         /\ Lower(text)[p] = ADDRESS
         /\ \A k \in DOMAIN text \ {p} : text[k] \in {Link, "<", ">", Blank}
         /\ \A k \in DOMAIN text : text[k] = Link => k < p /\ \A j \in 1..(k - 1) : text[j] = Blank
         /\ \A i, k \in DOMAIN text \ {p} :
                text[i] \in Brackets /\ text[k] \in Brackets /\ p \notin i..k =>
                    \A j \in i..k : text[j] # Blank
  BY Zenon DEF Legible, Link, Blank, Brackets
<1>3. \A w : w \in {Link, "<", ">", Blank} => w \in {Link, Blank} \cup Brackets
  BY Zenon DEF Brackets
<1>4. p \in 1..n /\ Lower(text)[p] = ADDRESS
  BY <1>1, <1>2
<1>5. \A k \in 1..n : k # p => text[k] \in {Link, Blank} \cup Brackets
  BY <1>1, <1>2, <1>3, Zenon
<1>6. \A k \in 1..n : text[k] = Link => k < p /\ \A j \in 1..(k - 1) : text[j] = Blank
  BY <1>1, <1>2, Zenon
<1>7. \A i, k \in 1..n :
          i # p /\ k # p /\ text[i] \in Brackets /\ text[k] \in Brackets /\ p \notin i..k =>
              \A j \in i..k : text[j] # Blank
  BY <1>1, <1>2, Zenon
<1>8. Small(text[p]) = ADDRESS /\ text[p] \notin Brackets /\ text[p] # Link /\ text[p] # Blank
  <2>1. Small(text[p]) = ADDRESS
    BY <1>4, LowerText, Zenon
  <2>2. ADDRESS \notin Brackets
    BY Zenon DEF ADDRESS, Brackets
  <2>3. QED
    BY <2>1, <2>2, SmallWords, DistinctWords, Zenon
<1>9. PICK a \in 1..p, b \in p..n : Stripped(text, 1, n, {Blank}, a, b)
  <2>1. text[p] \notin {Blank} /\ 1 \in 1..n /\ n \in 1..n
    BY <1>1, <1>8
  <2>2. QED
    BY <1>1, <1>4, <2>1, StripPart, Zenon
<1>10. clean_text(text) = SubSeq(text, a, b) /\ text[a] # Blank /\ text[b] # Blank
  BY <1>1, <1>9, CleanText DEF Stripped
<1>11. PICK from \in a..p : /\ removeprefix(clean_text(text), Link) = SubSeq(text, from, b)
                          /\ \A k \in from..b : text[k] # Link
  <2>1. a \in 1..n /\ b \in a..n
    BY <1>1
  <2>2. /\ SubSeq(text, a, b) # <<>> /\ Head(SubSeq(text, a, b)) = text[a]
        /\ Tail(SubSeq(text, a, b)) = SubSeq(text, a + 1, b)
    BY <2>1, PartOf
  <2>3. ASSUME NEW k \in a..b, text[k] = Link, k # a
        PROVE  FALSE
    <3>1. k \in 1..n /\ a \in 1..(k - 1)
      BY <2>1, <2>3
    <3>2. QED
      BY <1>6, <1>10, <2>3, <3>1, Zenon
  <2>4. CASE text[a] = Link
    <3>1. removeprefix(clean_text(text), Link) = SubSeq(text, a + 1, b)
      BY <1>10, <2>2, <2>4 DEF removeprefix
    <3>2. a + 1 \in a..p /\ \A k \in (a + 1)..b : text[k] # Link
      BY <1>8, <2>3, <2>4
    <3>3. QED
      BY <3>1, <3>2
  <2>5. CASE text[a] # Link
    <3>1. removeprefix(clean_text(text), Link) = SubSeq(text, a, b)
      BY <1>10, <2>2, <2>5 DEF removeprefix
    <3>2. a \in a..p /\ \A k \in a..b : text[k] # Link
      BY <2>3, <2>5
    <3>3. QED
      BY <3>1, <3>2
  <2>6. QED
    BY <2>4, <2>5
<1>12. PICK c \in from..p, d \in p..b : Stripped(text, from, b, {Blank}, c, d)
  <2>1. from \in 1..n /\ b \in from..n /\ p \in from..b /\ text[p] \notin {Blank}
    BY <1>1, <1>8
  <2>2. QED
    BY <2>1, StripPart, Zenon
<1>13. /\ clean_text(removeprefix(clean_text(text), Link)) = SubSeq(text, c, d)
       /\ text[c] # Blank /\ text[d] # Blank
  BY <1>11, <1>12, CleanText DEF Stripped
<1> DEFINE address == clean_text(removeprefix(clean_text(text), Link))
<1>14. PICK e \in c..p, f \in p..d : Stripped(text, c, d, Brackets, e, f)
  <2>1. c \in 1..n /\ d \in c..n /\ p \in c..d /\ text[p] \notin Brackets
    BY <1>1, <1>8
  <2>2. QED
    BY <2>1, StripPart, Zenon
<1>15. /\ Strip(address, Brackets) = SubSeq(text, e, f)
       /\ text[e] \notin Brackets /\ text[f] \notin Brackets
       /\ \A k \in c..d : k < e \/ f < k => text[k] \in Brackets
  BY <1>13, <1>14 DEF Stripped
<1>16. PICK g \in e..p, h \in p..f : Stripped(text, e, f, {Blank}, g, h)
  <2>1. e \in 1..n /\ f \in e..n /\ p \in e..f /\ text[p] \notin {Blank}
    BY <1>1, <1>8
  <2>2. QED
    BY <2>1, StripPart, Zenon
<1>17. /\ clean_text(Strip(address, Brackets)) = SubSeq(text, g, h)
       /\ text[g] # Blank /\ text[h] # Blank
       /\ \A k \in e..f : k < g \/ h < k => text[k] = Blank
  BY <1>15, <1>16, CleanText DEF Stripped
<1>18. g = p
  <2> SUFFICES ASSUME g < p PROVE FALSE
    BY <1>1
  <2>1. g \in 1..n /\ g # p /\ g \in from..b
    BY <1>1
  <2>2. text[g] \in Brackets
    BY <1>5, <1>11, <1>17, <2>1, Zenon
  <2>3. e < g /\ text[e] = Blank
    BY <1>1, <1>15, <1>17, <2>2
  <2>4. c < e /\ c \in c..d
    BY <1>1, <1>13, <2>3
  <2>5. c < e /\ text[c] \in Brackets
    BY <1>15, <2>4, Zenon
  <2>6. c \in 1..n /\ g \in 1..n /\ c # p /\ g # p /\ p \notin c..g /\ e \in c..g
    BY <1>1, <2>3, <2>5
  <2>7. QED
    BY <1>7, <2>2, <2>3, <2>5, <2>6, Zenon
<1>19. h = p
  <2> SUFFICES ASSUME p < h PROVE FALSE
    BY <1>1
  <2>1. h \in 1..n /\ h # p /\ h \in from..b
    BY <1>1
  <2>2. text[h] \in Brackets
    BY <1>5, <1>11, <1>17, <2>1, Zenon
  <2>3. h < f /\ text[f] = Blank
    BY <1>1, <1>15, <1>17, <2>2
  <2>4. f < d /\ d \in c..d
    BY <1>1, <1>13, <2>3
  <2>5. f < d /\ text[d] \in Brackets
    BY <1>15, <2>4, Zenon
  <2>6. d \in 1..n /\ h \in 1..n /\ d # p /\ h # p /\ p \notin h..d /\ f \in h..d
    BY <1>1, <2>3, <2>5
  <2>7. QED
    BY <1>7, <2>2, <2>3, <2>5, <2>6, Zenon
<1>20. normalize_email(text) = Lower(<<text[p]>>)
  BY <1>4, <1>17, <1>18, <1>19, OneWord DEF normalize_email, Link, Brackets
<1>21. Lower(<<text[p]>>) = <<ADDRESS>>
  BY <1>8 DEF Lower
<1>22. <<ADDRESS>> # <<>>
  OBVIOUS
<1>23. QED
  BY <1>22, <1>20, <1>21, Zenon DEF normalize_value

-----------------------------------------------------------------------------
(***************************************************************************)
(* Hosts.                                                                  *)
(***************************************************************************)
\* A part of a text in small letters is the part in small letters.
LEMMA LowerPart ==
    ASSUME NEW text \in Text, NEW a \in 1..Len(text), NEW b \in a..Len(text)
    PROVE  Lower(SubSeq(text, a, b)) = SubSeq(Lower(text), a, b)
<1> DEFINE part == SubSeq(text, a, b)
           small == Lower(text)
<1>1. part \in Text /\ Len(part) = b - a + 1 /\ \A k \in 1..(b - a + 1) : part[k] = text[a + k - 1]
  BY PartOf
<1>2. /\ Lower(part) \in Text /\ Len(Lower(part)) = b - a + 1
      /\ \A k \in 1..(b - a + 1) : Lower(part)[k] = Small(part[k])
  BY <1>1, LowerText
<1>3. small \in Text /\ Len(small) = Len(text) /\ \A k \in 1..Len(text) : small[k] = Small(text[k])
  BY LowerText
<1> HIDE DEF part, small
<1>4. /\ SubSeq(small, a, b) \in Text /\ Len(SubSeq(small, a, b)) = b - a + 1
      /\ \A k \in 1..(b - a + 1) : SubSeq(small, a, b)[k] = small[a + k - 1]
  BY <1>3, PartOf
<1>5. \A k \in 1..(b - a + 1) : Lower(part)[k] = SubSeq(small, a, b)[k]
  <2>1. \A k \in 1..(b - a + 1) : a + k - 1 \in 1..Len(text)
    BY WholeText
  <2>2. QED
    BY <1>1, <1>2, <1>3, <1>4, <2>1
<1>6. Lower(part) = SubSeq(small, a, b)
  BY <1>2, <1>4, <1>5, SeqEqual DEF Text
<1>7. QED
  BY <1>6 DEF part, small

\* The empty text is no host.
LEMMA NoHost == ~IsHostname(Hostname(<<>>))
<1>1. DOMAIN <<>> = {} /\ <<>> \in Text /\ Len(<<>>) = 0
  BY DEF Text
<1>2. Lower(<<>>) = <<>>
  <2>1. Lower(<<>>) \in Text /\ Len(Lower(<<>>)) = 0
    BY <1>1, LowerText
  <2>2. QED
    BY <2>1, EmptySeq DEF Text
<1>3. Hostname(<<>>) = <<>>
  <2>1. {k \in DOMAIN <<>> : Small(<<>>[k]) = ADDRESS} = {}
    BY <1>1, Zenon
  <2>2. QED
    BY <1>2, <2>1, Zenon DEF Hostname
<1>4. QED
  BY <1>3, Zenon DEF IsHostname

\* The host of a part of a text in small letters: all of it, or what follows the
\* last address.
LEMMA HostOfPart ==
    ASSUME NEW small \in Text, Lower(small) = small, NEW a \in 1..Len(small), NEW b \in a..Len(small)
    PROVE  \/ /\ \A k \in a..b : small[k] # ADDRESS
              /\ Hostname(SubSeq(small, a, b)) = SubSeq(small, a, b)
           \/ \E m \in a..b : /\ small[m] = ADDRESS /\ \A k \in (m + 1)..b : small[k] # ADDRESS
                              /\ Hostname(SubSeq(small, a, b)) = <<HOST>> \o SubSeq(small, m + 1, b)
<1> DEFINE part == SubSeq(small, a, b)
           users == {k \in DOMAIN part : Small(part[k]) = ADDRESS}
<1>1. /\ part \in Text /\ Len(part) = b - a + 1 /\ Len(part) \in Nat /\ DOMAIN part = 1..(b - a + 1)
      /\ \A k \in 1..(b - a + 1) : part[k] = small[a + k - 1]
  BY PartOf DEF Text
<1>2. Lower(part) = part
  BY LowerPart
<1>3. Len(small) \in Nat /\ \A k \in 1..Len(small) : Small(small[k]) = small[k]
  BY LowerText, WholeText
<1>4. \A k \in 1..(b - a + 1) : Small(part[k]) = small[a + k - 1] /\ a + k - 1 \in a..b
  <2>1. \A k \in 1..(b - a + 1) : a + k - 1 \in 1..Len(small) /\ a + k - 1 \in a..b
    BY <1>3
  <2>2. QED
    BY <1>1, <1>3, <2>1
<1>5. Hostname(part) = IF users = {} THEN part ELSE <<HOST>> \o SubSeq(part, Max(users) + 1, Len(part))
  BY <1>2, Zenon DEF Hostname
<1>6. /\ users \in SUBSET (1..(b - a + 1))
      /\ \A k \in 1..(b - a + 1) : k \in users <=> small[a + k - 1] = ADDRESS
  BY <1>1, <1>4
<1> HIDE DEF users, part
<1>7. CASE users = {}
  <2>1. ASSUME NEW k \in a..b PROVE small[k] # ADDRESS
    <3>1. k - a + 1 \in 1..(b - a + 1) /\ a + (k - a + 1) - 1 = k
      OBVIOUS
    <3>2. QED
      BY <1>6, <1>7, <3>1
  <2>2. QED
    BY <1>5, <1>7, <2>1 DEF part
<1>8. CASE users # {}
  <2>1. PICK last \in users : last = Max(users) /\ \A k \in users : k <= last
    BY <1>1, <1>6, <1>8, Extremes
  <2>2. PICK m \in a..b : m = a + last - 1
    BY <1>6
  <2>3. small[m] = ADDRESS
    BY <1>6, <2>1, <2>2
  <2>4. ASSUME NEW k \in (m + 1)..b PROVE small[k] # ADDRESS
    <3>1. k - a + 1 \in 1..(b - a + 1) /\ a + (k - a + 1) - 1 = k /\ ~(k - a + 1 <= last)
      BY <1>6, <2>1, <2>2
    <3>2. QED
      BY <1>6, <2>1, <3>1
  <2>5. SubSeq(part, last + 1, Len(part)) = SubSeq(small, m + 1, b)
    <3>1. CASE m = b
      <4>1. /\ Len(part) < last + 1 /\ b < m + 1
            /\ last + 1 \in Int /\ Len(part) \in Int /\ m + 1 \in Int /\ b \in Int
        BY <1>1, <1>6, <2>1, <2>2, <3>1
      <4>2. QED
        BY <4>1, SubSeqEmpty
    <3>2. CASE m < b
      <4>1. /\ last + 1 \in 1..(b - a + 1) /\ Len(part) \in 1..(b - a + 1)
            /\ a + (last + 1) - 1 = m + 1 /\ a + Len(part) - 1 = b
        BY <1>1, <1>6, <2>1, <2>2, <3>2
      <4>2. SubSeq(part, last + 1, Len(part)) = SubSeq(small, a + (last + 1) - 1, a + Len(part) - 1)
        BY <4>1, PartOfPart DEF part
      <4>3. QED
        BY <4>1, <4>2
    <3>3. m = b \/ m < b
      OBVIOUS
    <3>4. QED
      BY <3>1, <3>2, <3>3, Zenon
  <2>6. QED
    BY <1>5, <1>8, <2>1, <2>3, <2>4, <2>5 DEF part
<1>9. QED
  BY <1>7, <1>8

\* The host of the company is a host name.
LEMMA OneHost ==
    /\ <<HOST>> \in Text /\ Len(<<HOST>>) = 1 /\ <<HOST>>[1] = HOST /\ Lower(<<HOST>>) = <<HOST>>
    /\ IsHostname(<<HOST>>)
<1>1. <<HOST>> \in Text /\ Len(<<HOST>>) = 1 /\ <<HOST>>[1] = HOST /\ <<HOST>> # <<>>
  BY DEF Text, Word
<1>2. Lower(<<HOST>>) = <<HOST>>
  <2>1. Small(HOST) = HOST
    BY SmallWords
  <2>2. QED
    BY <2>1 DEF Lower
<1>3. IsHostname(<<HOST>>)
  BY <1>1 DEF IsHostname
<1>4. QED
  BY <1>1, <1>2, <1>3

\* What a host name is: of two shapes, whatever stood before it.
LEMMA HostShapes ==
    ASSUME NEW small \in Text, Lower(small) = small, NEW a \in 1..Len(small), NEW b \in a..Len(small),
           IsHostname(Hostname(SubSeq(small, a, b)))
    PROVE  \/ Hostname(SubSeq(small, a, b)) = <<HOST>>
           \/ /\ Hostname(SubSeq(small, a, b)) = SubSeq(small, a, b)
              /\ small[b] = HOST /\ \A k \in a..(b - 1) : small[k] = Www
<1> DEFINE part == SubSeq(small, a, b)
           host == Hostname(part)
<1>1. /\ part \in Text /\ Len(part) = b - a + 1 /\ Len(part) \in Nat
      /\ \A k \in 1..(b - a + 1) : part[k] = small[a + k - 1]
  BY PartOf DEF Text
<1>2. host # <<>> /\ host[Len(host)] = HOST /\ \A k \in 1..(Len(host) - 1) : host[k] = Www
  BY Zenon DEF IsHostname, Www
<1>3. CASE host = part
  <2>1. small[b] = HOST
    <3>1. a + Len(part) - 1 = b /\ Len(part) \in 1..(b - a + 1)
      BY <1>1
    <3>2. QED
      BY <1>1, <1>2, <1>3, <3>1
  <2>2. ASSUME NEW k \in a..(b - 1) PROVE small[k] = Www
    <3>1. k - a + 1 \in 1..(Len(part) - 1) /\ k - a + 1 \in 1..(b - a + 1) /\ a + (k - a + 1) - 1 = k
      BY <1>1
    <3>2. part[k - a + 1] = Www
      BY <1>2, <1>3, <3>1
    <3>3. part[k - a + 1] = small[k]
      BY <1>1, <3>1
    <3>4. QED
      BY <3>2, <3>3
  <2>3. QED
    BY <1>3, <2>1, <2>2
<1>4. CASE \E m \in a..b : host = <<HOST>> \o SubSeq(small, m + 1, b)
  <2>1. PICK m \in a..b : host = <<HOST>> \o SubSeq(small, m + 1, b)
    BY <1>4
  <2>2. CASE m = b
    <3>1. SubSeq(small, m + 1, b) = <<>>
      <4>1. b < m + 1 /\ m + 1 \in Int /\ b \in Int
        BY <2>2
      <4>2. QED
        BY <4>1, SubSeqEmpty
    <3>2. <<HOST>> \o <<>> = <<HOST>>
      BY OneHost, ConcatEmptySeq DEF Text
    <3>3. QED
      BY <2>1, <3>1, <3>2
  <2>3. CASE m < b
    <3>1. m + 1 \in 1..Len(small) /\ b \in (m + 1)..Len(small)
      BY <2>3, WholeText
    <3>2. /\ SubSeq(small, m + 1, b) \in Text /\ Len(SubSeq(small, m + 1, b)) = b - m
          /\ b - m \in Nat /\ b - m > 0
      <4>1. SubSeq(small, m + 1, b) \in Text /\ Len(SubSeq(small, m + 1, b)) = b - (m + 1) + 1
        BY <3>1, PartOf
      <4>2. QED
        BY <2>3, <4>1
    <3>3. Len(host) = 1 + (b - m) /\ host[1] = <<HOST>>[1]
      BY <2>1, <3>2, OneHost, ConcatProperties DEF Text
    <3>4. 1 \in 1..(Len(host) - 1)
      BY <3>2, <3>3
    <3>5. host[1] = Www /\ host[1] = HOST
      BY <1>2, <3>3, <3>4, OneHost
    <3>6. QED
      BY <3>5, DistinctWords
  <2>4. m = b \/ m < b
    OBVIOUS
  <2>5. QED
    BY <2>2, <2>3, <2>4
<1>5. host = part \/ \E m \in a..b : host = <<HOST>> \o SubSeq(small, m + 1, b)
  <2>1. \/ /\ \A k \in a..b : small[k] # ADDRESS
           /\ Hostname(SubSeq(small, a, b)) = SubSeq(small, a, b)
        \/ \E m \in a..b : /\ small[m] = ADDRESS /\ \A k \in (m + 1)..b : small[k] # ADDRESS
                           /\ Hostname(SubSeq(small, a, b)) = <<HOST>> \o SubSeq(small, m + 1, b)
    BY HostOfPart
  <2>2. QED
    BY <2>1, Zenon
<1>6. QED
  BY <1>3, <1>4, <1>5, Zenon

\* The domain of a url is the host without "www.", when it had at most two.
LEMMA DomainOf ==
    ASSUME NEW small \in Text, Lower(small) = small, NEW a \in 1..Len(small), NEW b \in a..Len(small),
           IsHostname(Hostname(SubSeq(small, a, b))),
           ~(small[a] = Www /\ small[a + 1] = Www /\ small[a + 2] = Www /\ a + 2 <= b)
    PROVE  extract_domain(<<"https://">> \o removeprefix(Hostname(SubSeq(small, a, b)), "www.")) = <<HOST>>
<1> DEFINE host == Hostname(SubSeq(small, a, b))
           rest == removeprefix(host, Www)
<1>1. <<HOST>> # <<>> /\ Head(<<HOST>>) = HOST
  OBVIOUS
<1>2. removeprefix(<<HOST>>, Www) = <<HOST>>
  BY <1>1, DistinctWords, Zenon DEF removeprefix
<1>3. <<Www, HOST>> # <<>> /\ Head(<<Www, HOST>>) = Www /\ Tail(<<Www, HOST>>) = <<HOST>>
  OBVIOUS
<1>4. removeprefix(<<Www, HOST>>, Www) = <<HOST>>
  BY <1>3, Zenon DEF removeprefix
<1>5. rest = <<HOST>> \/ rest = <<Www, HOST>>
  <2>1. CASE host = <<HOST>>
    BY <1>2, <2>1
  <2>2. CASE /\ host = SubSeq(small, a, b)
             /\ small[b] = HOST /\ \A k \in a..(b - 1) : small[k] = Www
    <3>1. host # <<>> /\ Head(host) = small[a] /\ Tail(host) = SubSeq(small, a + 1, b)
      <4>1. LET part == SubSeq(small, a, b)
            IN  part # <<>> /\ Head(part) = small[a] /\ Tail(part) = SubSeq(small, a + 1, b)
        BY PartOf
      <4>2. QED
        BY <2>2, <4>1, Zenon
    <3>2. CASE a = b
      <4>1. host = <<HOST>>
        BY <2>2, <3>2, OneWord
      <4>2. QED
        BY <1>2, <4>1
    <3>3. CASE a + 1 = b
      <4>1. Tail(host) = <<HOST>>
        <5>1. b \in 1..Len(small)
          BY WholeText
        <5>2. QED
          BY <2>2, <3>1, <3>3, <5>1, OneWord
      <4>2. small[a] = Www
        BY <2>2, <3>3
      <4>3. QED
        BY <3>1, <4>1, <4>2, Zenon DEF removeprefix
    <3>4. CASE a + 2 = b
      <4>1. a + 1 \in 1..Len(small) /\ b \in (a + 1)..Len(small) /\ a \in a..(b - 1) /\ a + 1 \in a..(b - 1)
        BY <3>4, WholeText
      <4>2. small[a] = Www /\ small[a + 1] = Www
        BY <2>2, <4>1
      <4>3. /\ Tail(host) \in Text /\ Len(Tail(host)) = 2
            /\ Tail(host)[1] = Www /\ Tail(host)[2] = HOST
        <5>1. LET part == SubSeq(small, a + 1, b)
              IN  /\ part \in Text /\ Len(part) = b - (a + 1) + 1
                  /\ \A k \in 1..(b - (a + 1) + 1) : part[k] = small[a + 1 + k - 1]
          BY <4>1, PartOf
        <5>2. /\ Tail(host) \in Text /\ Len(Tail(host)) = b - (a + 1) + 1
              /\ \A k \in 1..(b - (a + 1) + 1) : Tail(host)[k] = small[a + 1 + k - 1]
          BY <3>1, <5>1, Zenon
        <5>3. b - (a + 1) + 1 = 2 /\ a + 1 + 1 - 1 = a + 1 /\ a + 1 + 2 - 1 = b
          BY <3>4
        <5>4. QED
          BY <2>2, <4>2, <5>2, <5>3
      <4>4. \A t \in Seq(Word) : Len(t) = 2 /\ t[1] = Www /\ t[2] = HOST => t = <<Www, HOST>>
        OBVIOUS
      <4>5. Tail(host) = <<Www, HOST>>
        BY <4>3, <4>4, Zenon DEF Text
      <4>6. QED
        BY <3>1, <4>2, <4>5, Zenon DEF removeprefix
    <3>5. CASE a + 2 < b
      <4>1. a \in a..(b - 1) /\ a + 1 \in a..(b - 1) /\ a + 2 \in a..(b - 1) /\ a + 2 <= b
        BY <3>5
      <4>2. QED
        BY <2>2, <4>1
    <3>6. a = b \/ a + 1 = b \/ a + 2 = b \/ a + 2 < b
      OBVIOUS
    <3>7. QED
      BY <3>2, <3>3, <3>4, <3>5, <3>6, Zenon
  <2>3. QED
    BY <2>1, <2>2, HostShapes, Zenon
<1>6. Hostname(<<HOST>>) = <<HOST>> /\ Hostname(<<Www, HOST>>) = <<Www, HOST>>
  <2>1. Small(HOST) # ADDRESS /\ Small(Www) # ADDRESS /\ Small(HOST) = HOST /\ Small(Www) = Www
    BY SmallWords, DistinctWords
  <2>2. {k \in DOMAIN <<HOST>> : Small(<<HOST>>[k]) = ADDRESS} = {} /\ Lower(<<HOST>>) = <<HOST>>
    BY <2>1 DEF Lower
  <2>3. /\ {k \in DOMAIN <<Www, HOST>> : Small(<<Www, HOST>>[k]) = ADDRESS} = {}
        /\ Lower(<<Www, HOST>>) = <<Www, HOST>>
    BY <2>1 DEF Lower
  <2>4. QED
    BY <2>2, <2>3, Zenon DEF Hostname
<1>7. \A text : text \in {<<HOST>>, <<Www, HOST>>} => extract_domain(<<Secure>> \o text) = <<HOST>>
  <2>1. \A text : text \in {<<HOST>>, <<Www, HOST>>} =>
            /\ <<Secure>> \o text # <<>> /\ Head(<<Secure>> \o text) = Secure
            /\ Tail(<<Secure>> \o text) = text
    OBVIOUS
  <2>2. Small(Secure) \in Schemes
    BY SmallWords, DistinctWords
  <2>3. \A text : text \in {<<HOST>>, <<Www, HOST>>} =>
            extract_domain(<<Secure>> \o text) = removeprefix(Hostname(text), Www)
    BY <2>1, <2>2, Zenon DEF extract_domain, Www
  <2>4. QED
    BY <1>2, <1>4, <1>6, <2>3
<1>8. extract_domain(<<Secure>> \o rest) = <<HOST>>
  BY <1>5, <1>7
<1>9. QED
  BY <1>8, Zenon DEF Secure, Www

-----------------------------------------------------------------------------
(***************************************************************************)
(* Websites.                                                               *)
(***************************************************************************)
Few(text) == Cardinality({k \in DOMAIN text : Small(text[k]) = "www."}) <= 2

\* No three "www." follow each other.
LEMMA FewWww ==
    ASSUME NEW text \in Text, Few(text), NEW k \in 1..Len(text), k + 2 <= Len(text)
    PROVE  ~(Small(text[k]) = Www /\ Small(text[k + 1]) = Www /\ Small(text[k + 2]) = Www)
<1> SUFFICES ASSUME Small(text[k]) = Www, Small(text[k + 1]) = Www, Small(text[k + 2]) = Www
             PROVE  FALSE
  OBVIOUS
<1> DEFINE S == {i \in DOMAIN text : Small(text[i]) = Www}
<1>1. Len(text) \in Nat /\ DOMAIN text = 1..Len(text)
  BY WholeText
<1>2. k..(k + 2) \in SUBSET S
  <2>1. \A i \in k..(k + 2) : i \in 1..Len(text) /\ (i = k \/ i = k + 1 \/ i = k + 2)
    BY <1>1
  <2>2. QED
    BY <1>1, <2>1
<1>3. S \in SUBSET (1..Len(text))
  BY <1>1
<1>4. Cardinality(S) <= 2
  BY Zenon DEF Few, Www
<1> HIDE DEF S
<1>5. IsFiniteSet(S)
  <2>1. IsFiniteSet(1..Len(text))
    BY <1>1, FS_Interval
  <2>2. QED
    BY <1>3, <2>1, FS_Subset
<1>6. Cardinality(k..(k + 2)) <= Cardinality(S)
  BY <1>2, <1>5, FS_Subset
<1>7. Cardinality(k..(k + 2)) = 3
  BY FS_Interval
<1>8. Cardinality(S) \in Nat
  BY <1>5, FS_CardinalityType
<1>9. QED
  BY <1>4, <1>6, <1>7, <1>8

\* The host of a text does not depend on its capitals.
LEMMA HostnameLower ==
    ASSUME NEW text \in Text
    PROVE  Hostname(Lower(text)) = Hostname(text)
<1>1. /\ DOMAIN text = 1..Len(text) /\ DOMAIN Lower(text) = 1..Len(text)
      /\ Len(Lower(text)) = Len(text) /\ Lower(Lower(text)) = Lower(text)
      /\ \A k \in 1..Len(text) : Lower(text)[k] = Small(text[k])
  BY LowerText, WholeText
<1>2. \A k \in 1..Len(text) : Small(Lower(text)[k]) = Small(text[k])
  BY <1>1, SmallWords, Zenon
<1>3. {k \in DOMAIN Lower(text) : Small(Lower(text)[k]) = ADDRESS} =
          {k \in DOMAIN text : Small(text[k]) = ADDRESS}
  BY <1>1, <1>2
<1>4. QED
  BY <1>1, <1>3, Zenon DEF Hostname

\* The host that normalize_url looks at.
LEMMA HostOfUrl ==
    ASSUME NEW text \in Text, NEW a \in 1..Len(text), NEW b \in a..Len(text)
    PROVE  Hostname(removeprefix(Lower(SubSeq(text, a, b)), "https://")) =
               Hostname(SubSeq(Lower(text), IF Small(text[a]) = Secure THEN a + 1 ELSE a, b))
<1> DEFINE small == Lower(text)
<1>1. small \in Text /\ Len(small) = Len(text) /\ small[a] = Small(text[a])
  BY LowerText
<1>2. Lower(SubSeq(text, a, b)) = SubSeq(small, a, b)
  BY LowerPart
<1> HIDE DEF small
<1>3. LET part == SubSeq(small, a, b)
      IN  part # <<>> /\ Head(part) = small[a] /\ Tail(part) = SubSeq(small, a + 1, b)
  <2>1. a \in 1..Len(small) /\ b \in a..Len(small)
    BY <1>1
  <2>2. QED
    BY <1>1, <2>1, PartOf
<1>4. removeprefix(SubSeq(small, a, b), Secure) =
          SubSeq(small, IF Small(text[a]) = Secure THEN a + 1 ELSE a, b)
  BY <1>1, <1>3, Zenon DEF removeprefix
<1>5. QED
  BY <1>2, <1>4, Zenon DEF Secure, small

\* A website that is shown validly gives the domain of the company, and nothing else.
LEMMA ValidWebsite ==
    ASSUME NEW text \in Text, Few(text), validate_url_field(normalize_url(text)) = "valid"
    PROVE  extract_domain(normalize_url(text)) = <<HOST>>
<1> DEFINE url == clean_text(text)
           host == Hostname(removeprefix(Lower(url), "https://"))
           small == Lower(text)
<1>1. Len(text) \in Nat /\ DOMAIN text = 1..Len(text) /\ SubSeq(text, 1, Len(text)) = text
  BY WholeText
<1>2. normalize_url(text) = IF \/ url = <<>>
                               \/ HasScheme(url) /\ Small(Head(url)) # Secure
                               \/ Small(Head(url)) = Link
                               \/ ~IsHostname(host)
                            THEN url ELSE <<"https://">> \o removeprefix(host, "www.")
  BY Zenon DEF normalize_url, Secure, Link
<1>3. /\ normalize_url(text) # <<>> /\ Small(Head(normalize_url(text))) = Secure
      /\ IsHostname(Hostname(Tail(normalize_url(text))))
  <2>1. "unknown" # "valid" /\ "invalid" # "valid"
    OBVIOUS
  <2>2. QED
    BY <2>1, Zenon DEF validate_url_field, Secure
<1>4. url # <<>>
  BY <1>2, <1>3, Zenon
<1>5. PICK p \in 1..Len(text) : text[p] \notin {Blank}
  <2>1. SUFFICES ASSUME \A k \in 1..Len(text) : text[k] \in {Blank} PROVE url = <<>>
    BY <1>4, Zenon
  <2>2. {k \in DOMAIN text : text[k] \notin {Blank}} = {}
    BY <1>1, <2>1, Zenon
  <2>3. QED
    BY <2>2, CleanText, Zenon DEF Strip
<1>6. PICK a \in 1..p, b \in p..Len(text) : Stripped(text, 1, Len(text), {Blank}, a, b)
  <2>1. 1 \in 1..Len(text) /\ Len(text) \in 1..Len(text)
    BY <1>1
  <2>2. QED
    BY <1>5, <2>1, StripPart, Zenon
<1>7. a \in 1..Len(text) /\ b \in a..Len(text) /\ url = SubSeq(text, a, b)
  <2>1. a \in 1..Len(text) /\ b \in a..Len(text)
    BY <1>1
  <2>2. QED
    BY <1>1, <1>6, <2>1, CleanText, Zenon DEF Stripped
<1> DEFINE from == IF Small(text[a]) = Secure THEN a + 1 ELSE a
<1>8. host = Hostname(SubSeq(small, from, b))
  BY <1>7, HostOfUrl, Zenon
<1>9. /\ small \in Text /\ Len(small) = Len(text) /\ Lower(small) = small
      /\ \A k \in 1..Len(text) : small[k] = Small(text[k])
  BY LowerText
<1> HIDE DEF host, url, small
<1>10. b \in Int /\ a \in Int /\ a <= b
  BY <1>1
<1>11. IsHostname(host) => from \in 1..Len(small) /\ b \in from..Len(small)
  <2>1. CASE from <= b
    BY <1>7, <1>9, <1>10, <2>1
  <2>2. CASE b < from
    <3>1. SubSeq(small, from, b) = <<>>
      BY <1>10, <2>2, SubSeqEmpty
    <3>2. QED
      BY <1>8, <3>1, NoHost
  <2>3. QED
    BY <1>10, <2>1, <2>2
<1>12. IsHostname(host) =>
           ~(small[from] = Www /\ small[from + 1] = Www /\ small[from + 2] = Www /\ from + 2 <= b)
  <2>1. SUFFICES ASSUME IsHostname(host), from + 2 <= b,
                        small[from] = Www, small[from + 1] = Www, small[from + 2] = Www
                 PROVE  FALSE
    OBVIOUS
  <2>2. PICK k \in 1..Len(text) : k = from
    BY <1>9, <1>11, <2>1
  <2>3. k + 1 \in 1..Len(text) /\ k + 2 \in 1..Len(text) /\ k + 2 <= Len(text)
    BY <1>1, <1>7, <1>10, <2>1, <2>2
  <2>4. Small(text[k]) = Www /\ Small(text[k + 1]) = Www /\ Small(text[k + 2]) = Www
    BY <1>9, <2>1, <2>2, <2>3
  <2>5. QED
    BY <2>3, <2>4, FewWww
<1>13. CASE normalize_url(text) = url
  <2>1. LET part == SubSeq(text, a, b)
        IN  part # <<>> /\ Head(part) = text[a] /\ Tail(part) = SubSeq(text, a + 1, b)
    BY <1>7, PartOf
  <2>2. Small(text[a]) = Secure /\ IsHostname(Hostname(SubSeq(text, a + 1, b)))
    BY <1>3, <1>7, <1>13, <2>1, Zenon
  <2>3. a + 1 <= b
    <3>1. SUFFICES ASSUME b < a + 1 PROVE FALSE
      BY <1>10
    <3>2. SubSeq(text, a + 1, b) = <<>>
      BY <1>10, <3>1, SubSeqEmpty
    <3>3. QED
      BY <2>2, <3>2, NoHost
  <2>4. a + 1 \in 1..Len(text) /\ b \in (a + 1)..Len(text)
    BY <1>7, <1>10, <2>3
  <2>5. SubSeq(text, a + 1, b) \in Text
    BY <2>4, PartOf
  <2>6. Hostname(SubSeq(small, a + 1, b)) = Hostname(SubSeq(text, a + 1, b))
    <3>1. Lower(SubSeq(text, a + 1, b)) = SubSeq(small, a + 1, b)
      BY <2>4, LowerPart DEF small
    <3>2. QED
      BY <2>5, <3>1, HostnameLower
  <2>7. IsHostname(host)
    BY <1>8, <2>2, <2>6
  <2>8. Small(Head(url)) = Secure
    BY <1>3, <1>13
  <2>9. normalize_url(text) = <<"https://">> \o removeprefix(host, "www.")
    BY <1>2, <1>4, <2>7, <2>8, DistinctWords, Zenon
  <2>10. extract_domain(<<"https://">> \o removeprefix(host, "www.")) = <<HOST>>
    <3>1. from = a + 1
      BY <2>2
    <3>2. ~(small[from] = Www /\ small[from + 1] = Www /\ small[from + 2] = Www /\ from + 2 <= b)
      BY <1>12, <2>7
    <3>3. QED
      BY <1>8, <1>9, <1>11, <2>7, <3>2, DomainOf, Zenon
  <2>11. QED
    BY <2>9, <2>10
<1>14. CASE normalize_url(text) # url
  <2>1. IsHostname(host) /\ normalize_url(text) = <<"https://">> \o removeprefix(host, "www.")
    BY <1>2, <1>14, Zenon
  <2>2. ~(small[from] = Www /\ small[from + 1] = Www /\ small[from + 2] = Www /\ from + 2 <= b)
    BY <1>12, <2>1
  <2>3. extract_domain(<<"https://">> \o removeprefix(host, "www.")) = <<HOST>>
    BY <1>8, <1>9, <1>11, <2>1, <2>2, DomainOf, Zenon
  <2>4. QED
    BY <2>1, <2>3
<1>15. QED
  BY <1>13, <1>14

\* "https://" and "www." come off the one host of a legible text.
LEMMA LegibleDomain ==
    ASSUME NEW text \in Text, Few(text), Legible("domain", text)
    PROVE  normalize_value("domain", text) = <<HOST>>
<1> DEFINE url == clean_text(text)
           host == Hostname(removeprefix(Lower(url), "https://"))
           small == Lower(text)
<1>1. Len(text) \in Nat /\ DOMAIN text = 1..Len(text) /\ SubSeq(text, 1, Len(text)) = text
  BY WholeText
<1>2. /\ small \in Text /\ Len(small) = Len(text) /\ Lower(small) = small
      /\ \A k \in 1..Len(text) : small[k] = Small(text[k])
  BY LowerText
<1>3. PICK p \in DOMAIN text :
         /\ small[p] \in {HOST, ADDRESS}
         /\ \A k \in (p + 1)..Len(text) : text[k] = Blank
         /\ \A k \in 1..(p - 1) : small[k] \in {Secure, Www, Blank}
         /\ \A k \in 1..(p - 1) : small[k] # Www => \A j \in 1..(k - 1) : text[j] = Blank
  <2>1. "domain" # "email"
    OBVIOUS
  <2>2. QED
    BY <2>1, Zenon DEF Legible, Secure, Www, Blank
<1>4. \A k \in 1..(p - 1) : small[k] \in {Secure, Www, Blank}
  BY <1>3
<1>5. \A k \in 1..(p - 1) : small[k] # Www => \A j \in 1..(k - 1) : text[j] = Blank
  BY <1>3
<1> HIDE DEF host, url, small
<1>6. p \in 1..Len(text) /\ Small(text[p]) \in {HOST, ADDRESS} /\ text[p] # Blank
  <2>1. p \in 1..Len(text) /\ small[p] \in {HOST, ADDRESS} /\ small[p] = Small(text[p])
    BY <1>1, <1>2, <1>3
  <2>2. QED
    BY <2>1, SmallWords, DistinctWords
<1>7. PICK a \in 1..p, b \in p..Len(text) : Stripped(text, 1, Len(text), {Blank}, a, b)
  <2>1. 1 \in 1..Len(text) /\ Len(text) \in 1..Len(text) /\ text[p] \notin {Blank}
    BY <1>1, <1>6
  <2>2. QED
    BY <1>6, <2>1, StripPart, Zenon
<1>8. text[a] # Blank /\ text[b] # Blank /\ a \in 1..Len(text) /\ p \in a..Len(text)
  BY <1>1, <1>6, <1>7 DEF Stripped
<1>9. b = p
  <2>1. p < b => b \in (p + 1)..Len(text)
    BY <1>1, <1>6
  <2>2. QED
    BY <1>3, <1>6, <1>8, <2>1
<1>10. url = SubSeq(text, a, p)
  BY <1>1, <1>7, <1>9, CleanText, Zenon DEF Stripped, url
<1> DEFINE from == IF Small(text[a]) = Secure THEN a + 1 ELSE a
<1>11. host = Hostname(SubSeq(small, from, p))
  BY <1>8, <1>10, HostOfUrl, Zenon DEF host, small
<1>12. ASSUME NEW k \in (a + 1)..(p - 1) PROVE small[k] = Www
  <2>1. k \in 1..(p - 1) /\ a \in 1..(k - 1)
    BY <1>6
  <2>2. QED
    BY <1>5, <1>8, <2>1, Zenon
<1>13. a < p => small[a] \in {Secure, Www}
  <2>1. a < p => a \in 1..(p - 1)
    BY <1>6
  <2>2. small[a] # Blank
    BY <1>2, <1>8, SmallWords
  <2>3. QED
    BY <1>4, <2>1, <2>2
<1>14. small[a] = Small(text[a]) /\ small[p] = Small(text[p])
  BY <1>2, <1>6, <1>8
<1>15. small[a] = Secure => a < p
  <2>1. a = p \/ a < p
    BY <1>6
  <2>2. QED
    BY <1>6, <1>14, <2>1, DistinctWords
<1>16. /\ from \in 1..Len(small) /\ p \in from..Len(small) /\ a <= from
       /\ \A k \in from..(p - 1) : small[k] = Www
  <2>1. CASE small[a] = Secure
    <3>1. from = a + 1 /\ a < p
      BY <1>14, <1>15, <2>1
    <3>2. QED
      BY <1>2, <1>6, <1>12, <3>1
  <2>2. CASE small[a] # Secure
    <3>1. from = a
      BY <1>14, <2>2
    <3>2. ASSUME NEW k \in from..(p - 1) PROVE small[k] = Www
      <4>1. CASE k = a
        BY <1>13, <2>2, <3>1, <3>2, <4>1
      <4>2. CASE k \in (a + 1)..(p - 1)
        BY <1>12, <4>2
      <4>3. QED
        BY <3>1, <4>1, <4>2
    <3>3. QED
      BY <1>2, <1>6, <3>1, <3>2
  <2>3. QED
    BY <2>1, <2>2
<1>17. IsHostname(host)
  <2>1. \/ /\ \A k \in from..p : small[k] # ADDRESS
           /\ Hostname(SubSeq(small, from, p)) = SubSeq(small, from, p)
        \/ \E m \in from..p : /\ small[m] = ADDRESS /\ \A k \in (m + 1)..p : small[k] # ADDRESS
                              /\ Hostname(SubSeq(small, from, p)) = <<HOST>> \o SubSeq(small, m + 1, p)
    <3>1. from \in 1..Len(small) /\ p \in from..Len(small)
      BY <1>16
    <3>2. QED
      BY <1>2, <3>1, HostOfPart, Zenon
  <2>2. CASE (\A k \in from..p : small[k] # ADDRESS) /\ host = SubSeq(small, from, p)
    <3>1. LET part == SubSeq(small, from, p)
          IN  /\ part # <<>> /\ Len(part) = p - from + 1
              /\ \A k \in 1..(p - from + 1) : part[k] = small[from + k - 1]
      BY <1>2, <1>16, PartOf
    <3>2. small[p] = HOST
      <4>1. p \in from..p
        BY <1>16
      <4>2. QED
        BY <1>6, <1>14, <2>2, <4>1
    <3>3. host[Len(host)] = HOST
      <4>1. p - from + 1 \in 1..(p - from + 1) /\ from + (p - from + 1) - 1 = p
        BY <1>6, <1>16
      <4>2. QED
        BY <2>2, <3>1, <3>2, <4>1
    <3>4. ASSUME NEW k \in 1..(Len(host) - 1) PROVE host[k] = Www
      <4>1. k \in 1..(p - from + 1) /\ from + k - 1 \in from..(p - 1)
        BY <1>6, <1>16, <2>2, <3>1
      <4>2. QED
        BY <1>16, <2>2, <3>1, <4>1
    <3>5. QED
      BY <2>2, <3>1, <3>3, <3>4, Zenon DEF IsHostname, Www
  <2>3. CASE \E m \in from..p : small[m] = ADDRESS /\ host = <<HOST>> \o SubSeq(small, m + 1, p)
    <3>1. PICK m \in from..p : small[m] = ADDRESS /\ host = <<HOST>> \o SubSeq(small, m + 1, p)
      BY <2>3
    <3>2. m = p
      <4>1. m \in from..(p - 1) \/ m = p
        BY <1>6, <1>16
      <4>2. QED
        BY <1>16, <3>1, <4>1, DistinctWords
    <3>3. SubSeq(small, m + 1, p) = <<>>
      <4>1. p < m + 1 /\ m + 1 \in Int /\ p \in Int
        BY <1>6, <3>2
      <4>2. QED
        BY <4>1, SubSeqEmpty
    <3>4. <<HOST>> \o <<>> = <<HOST>>
      BY OneHost, ConcatEmptySeq DEF Text
    <3>5. QED
      BY <3>1, <3>3, <3>4, OneHost
  <2>4. QED
    BY <1>11, <2>1, <2>2, <2>3, Zenon
<1>18. ~(small[from] = Www /\ small[from + 1] = Www /\ small[from + 2] = Www /\ from + 2 <= p)
  <2>1. SUFFICES ASSUME small[from] = Www, small[from + 1] = Www, small[from + 2] = Www, from + 2 <= p
                 PROVE  FALSE
    OBVIOUS
  <2>2. PICK k \in 1..Len(text) : k = from
    BY <1>2, <1>16
  <2>3. k + 1 \in 1..Len(text) /\ k + 2 \in 1..Len(text) /\ k + 2 <= Len(text)
    BY <1>1, <1>6, <2>1, <2>2
  <2>4. Small(text[k]) = Www /\ Small(text[k + 1]) = Www /\ Small(text[k + 2]) = Www
    BY <1>2, <2>1, <2>2, <2>3
  <2>5. QED
    BY <2>3, <2>4, FewWww
<1>19. LET part == SubSeq(text, a, p)
       IN  /\ part # <<>> /\ Head(part) = text[a] /\ DOMAIN part = 1..(p - a + 1)
           /\ \A k \in 1..(p - a + 1) : part[k] = text[a + k - 1]
  <2>1. LET part == SubSeq(text, a, p)
        IN  /\ part # <<>> /\ Head(part) = text[a] /\ part \in Text /\ Len(part) = p - a + 1
            /\ \A k \in 1..(p - a + 1) : part[k] = text[a + k - 1]
    BY <1>8, PartOf
  <2>2. SubSeq(text, a, p) \in Text => DOMAIN SubSeq(text, a, p) = 1..Len(SubSeq(text, a, p))
    BY WholeText
  <2>3. QED
    BY <2>1, <2>2, Zenon
<1>20. url # <<>> /\ Head(url) = text[a]
  BY <1>10, <1>19
<1>21. Small(text[a]) # Link
  <2>1. a = p \/ a < p
    BY <1>6
  <2>2. QED
    BY <1>6, <1>13, <1>14, <2>1, DistinctWords
<1>22. Small(text[a]) # Secure => ~HasScheme(url)
  <2>1. SUFFICES ASSUME Small(text[a]) # Secure, NEW k \in 1..(p - a + 1)
                 PROVE  Small(url[k]) \notin Schemes
    BY <1>10, <1>19, Zenon DEF HasScheme
  <2>2. a + k - 1 \in from..(p - 1) \/ a + k - 1 = p
    BY <1>6, <2>1
  <2>3. a + k - 1 \in 1..Len(text) /\ url[k] = text[a + k - 1]
    BY <1>6, <1>10, <1>19
  <2>4. small[a + k - 1] \in {Www, HOST, ADDRESS}
    BY <1>6, <1>14, <1>16, <2>2
  <2>5. QED
    BY <1>2, <2>3, <2>4, DistinctWords
<1>23. normalize_url(text) = <<"https://">> \o removeprefix(host, "www.")
  BY <1>17, <1>20, <1>21, <1>22, Zenon DEF normalize_url, Secure, Link, url, host
<1>24. extract_domain(<<"https://">> \o removeprefix(host, "www.")) = <<HOST>>
  BY <1>2, <1>11, <1>16, <1>17, <1>18, DomainOf, Zenon
<1>25. <<HOST>> # <<>> /\ "domain" # "email"
  OBVIOUS
<1>26. QED
  BY <1>23, <1>24, <1>25, Zenon DEF normalize_value

-----------------------------------------------------------------------------
(***************************************************************************)
(* Opting out.                                                             *)
(***************************************************************************)
\* Operators type and sites publish texts, with at most two "www." in each.
LEMMA AreTexts ==
    /\ Typed \subseteq Text /\ \A text \in Typed : Few(text)
    /\ \A page \in Pages : page.website \in Text /\ Few(page.website)
<1>1. Seq(STRING) \subseteq Text
  BY SeqMonotonic, Zenon DEF Text, Word
<1>2. \A page \in Pages : page.website \in Seq(STRING)
  BY TextsAssumption
<1>3. \A text \in Typed \cup {page.website : page \in Pages} : Few(text)
  BY WwwAssumption, Zenon DEF Few
<1>4. QED
  BY <1>1, <1>2, <1>3, TextsAssumption, Zenon

\* A contact as the code stores it, and its entry in the list.
PlainText(kind) == IF kind = "email" THEN <<ADDRESS>> ELSE <<HOST>>
Entry(kind) == [kind |-> kind, value |-> PlainText(kind)]

\* A contact as the code stores it is legible, and is its own normal form.
LEMMA PlainIsLegible ==
    ASSUME NEW kind \in Kinds
    PROVE  /\ Legible(kind, PlainText(kind)) /\ PlainText(kind) # <<>>
           /\ normalize_value(kind, PlainText(kind)) = PlainText(kind)
<1> DEFINE text == PlainText(kind)
<1>1. text \in Text /\ Len(text) = 1 /\ DOMAIN text = 1..1 /\ text[1] \in {ADDRESS, HOST} /\ text # <<>>
  <2>1. ASSUME NEW w \in {ADDRESS, HOST}
        PROVE  <<w>> \in Text /\ Len(<<w>>) = 1 /\ DOMAIN <<w>> = 1..1 /\ <<w>>[1] = w /\ <<w>> # <<>>
    BY DEF Text, Word
  <2>2. text = <<ADDRESS>> \/ text = <<HOST>>
    BY DEF PlainText
  <2>3. QED
    BY <2>1, <2>2
<1>2. kind = "email" => text[1] = ADDRESS
  BY DEF PlainText
<1>3. Small(text[1]) = text[1]
  BY <1>1, SmallWords, Zenon
<1>4. 1 \in DOMAIN text /\ Lower(text)[1] = text[1] /\ DOMAIN text \ {1} = {}
  BY <1>1, <1>3 DEF Lower
<1>5. text[1] # Link
  BY <1>1, DistinctWords
<1> HIDE DEF text
<1>6. CASE kind = "email"
  <2>1. /\ Lower(text)[1] = ADDRESS
        /\ \A k \in DOMAIN text \ {1} : text[k] \in {Link, "<", ">", Blank}
        /\ \A k \in DOMAIN text : text[k] # Link
        /\ \A k \in DOMAIN text \ {1} : FALSE
    BY <1>1, <1>2, <1>4, <1>5, <1>6
  <2>2. Legible("email", text)
    BY <1>4, <2>1, Zenon DEF Legible, Link, Blank
  <2>3. QED
    BY <1>1, <1>6, <2>2, LegibleEmail DEF text, PlainText
<1>7. CASE kind = "domain"
  <2>1. kind # "email"
    BY <1>7
  <2>2. /\ Lower(text)[1] \in {HOST, ADDRESS}
        /\ \A k \in 2..Len(text) : FALSE
        /\ \A k \in 1..(1 - 1) : FALSE
        /\ 1 + 1 = 2
    BY <1>1, <1>4
  <2>3. Legible("domain", text)
    BY <1>4, <1>7, <2>1, <2>2, Zenon DEF Legible
  <2>4. Few(text)
    <3>1. \A k \in DOMAIN text : Small(text[k]) # Www
      BY <1>1, <1>3, DistinctWords
    <3>2. {k \in DOMAIN text : Small(text[k]) = Www} = {}
      BY <3>1
    <3>3. Cardinality({k \in DOMAIN text : Small(text[k]) = Www}) = 0
      BY <3>2, FS_EmptySet
    <3>4. Cardinality({k \in DOMAIN text : Small(text[k]) = Www}) <= 2
      BY <3>3
    <3>5. QED
      BY <3>4, Zenon DEF Few, Www
  <2>5. QED
    BY <1>1, <1>7, <2>3, <2>4, LegibleDomain DEF text, PlainText
<1>8. QED
  BY <1>6, <1>7 DEF Kinds

\* What an operator types legibly is normalized to the contact as the code stores it.
LEMMA LegibleText ==
    ASSUME NEW kind \in Kinds, NEW text \in Typed, Legible(kind, text)
    PROVE  normalize_value(kind, text) = PlainText(kind)
<1>1. text \in Text /\ Few(text)
  BY AreTexts
<1>2. CASE kind = "email"
  BY <1>1, <1>2, LegibleEmail DEF PlainText
<1>3. CASE kind = "domain"
  BY <1>1, <1>3, LegibleDomain DEF PlainText
<1>4. QED
  BY <1>2, <1>3 DEF Kinds

\* What opted out is on the list as the code writes it, and a lead that shows a
\* contact validly stores it that way.
OptOutInv ==
    /\ \A kind \in optedOut : kind \in Kinds /\ Entry(kind) \in suppressed
    /\ \A kind \in lead.shows : /\ kind \in Kinds
                                /\ kind = "email" => lead.email = PlainText("email")
                                /\ kind = "domain" => lead.domain = PlainText("domain")

\* At first nothing opted out, and no lead is stored.
LEMMA OptOutStarts == MCInit => OptOutInv
BY DEF MCInit, Init, OptOutInv, NoLead

\* What a page shows validly is in the lead as the code writes it.
LEMMA CollectShows ==
    ASSUME NEW page \in Pages, Collect(page), NEW kind \in lead'.shows
    PROVE  /\ kind \in Kinds /\ Entry(kind) \notin suppressed
           /\ kind = "email" => lead'.email = PlainText("email")
           /\ kind = "domain" => lead'.domain = PlainText("domain")
<1> DEFINE email == normalize_email(page.email)
           website == normalize_url(page.website)
           domain == extract_domain(website)
           valid == {kn \in Kinds : IF kn = "email" THEN validate_email_field(email) = "valid"
                                    ELSE validate_url_field(website) = "valid"}
<1>1. ~Blocks(email, domain) /\ lead' = [email |-> email, domain |-> domain,
                                         status |-> validate_lead(email, website), shows |-> valid]
  BY Zenon DEF Collect
<1>2. page.website \in Text /\ Few(page.website)
  BY AreTexts
<1>3. /\ validate_email_field(email) = "valid" => email = PlainText("email")
      /\ validate_url_field(website) = "valid" => domain = PlainText("domain")
  BY <1>2, ValidEmail, ValidWebsite DEF PlainText
<1>4. PlainText("email") # <<>> /\ PlainText("domain") # <<>>
  BY PlainIsLegible DEF Kinds
<1> HIDE DEF email, domain, website
<1>5. kind \in valid /\ lead'.email = email /\ lead'.domain = domain
  BY <1>1
<1>6. kind \in Kinds
  BY <1>5
<1>7. CASE kind = "email"
  <2>1. email = PlainText("email")
    BY <1>3, <1>5, <1>7
  <2>2. [kind |-> "email", value |-> email] \notin suppressed
    BY <1>1, <1>4, <2>1 DEF Blocks
  <2>3. QED
    BY <1>5, <1>6, <1>7, <2>1, <2>2 DEF Entry
<1>8. CASE kind = "domain"
  <2>1. domain = PlainText("domain")
    BY <1>3, <1>5, <1>8
  <2>2. [kind |-> "domain", value |-> domain] \notin suppressed
    BY <1>1, <1>4, <2>1 DEF Blocks
  <2>3. QED
    BY <1>5, <1>6, <1>8, <2>1, <2>2 DEF Entry
<1>9. QED
  BY <1>6, <1>7, <1>8 DEF Kinds

\* Who removes the entry of a contact takes its opt-out back: OptOutInv is kept.
LEMMA LiftKeeps ==
    ASSUME OptOutInv, NEW entries, Lift(entries)
    PROVE  OptOutInv'
<1>1. /\ suppressed' = suppressed \ entries /\ lead' = lead
      /\ optedOut' = optedOut \ {entry.kind : entry \in {en \in entries : Legible(en.kind, en.value)}}
  BY Zenon DEF Lift
<1>2. ASSUME NEW kind \in optedOut' PROVE kind \in Kinds /\ Entry(kind) \in suppressed'
  <2>1. kind \in optedOut /\ kind \in Kinds /\ Entry(kind) \in suppressed
    BY <1>1 DEF OptOutInv
  <2>2. Entry(kind).kind = kind /\ Entry(kind).value = PlainText(kind)
    BY DEF Entry
  <2>3. Legible(Entry(kind).kind, Entry(kind).value)
    BY <2>1, <2>2, PlainIsLegible
  <2>4. Entry(kind) \notin entries
    BY <1>1, <2>2, <2>3
  <2>5. QED
    BY <1>1, <2>1, <2>4
<1>3. QED
  BY <1>1, <1>2, Zenon DEF OptOutInv, Entry

\* The contacts that a deleted lead shows validly are on the list as the code writes them.
LEMMA DeletionKeeps ==
    ASSUME OptOutInv, DeleteLead
    PROVE  OptOutInv'
<1>1. lead' = NoLead
  BY DEF DeleteLead
<1>2. CASE UNCHANGED <<suppressed, changes, optedOut>>
  BY <1>1, <1>2 DEF OptOutInv, NoLead, Entry, PlainText
<1>3. CASE /\ suppressed' = suppressed \cup
                  {[kind |-> pair[1], value |-> normalize_value(pair[1], pair[2])] :
                       pair \in add_for_lead(lead)}
           /\ optedOut' = optedOut \cup lead.shows
  <2>1. ASSUME NEW kind \in lead.shows PROVE kind \in Kinds /\ Entry(kind) \in suppressed'
    <3>1. /\ kind \in Kinds /\ PlainText(kind) # <<>>
          /\ normalize_value(kind, PlainText(kind)) = PlainText(kind)
      BY PlainIsLegible DEF OptOutInv
    <3>2. <<kind, PlainText(kind)>> \in {<<"email", lead.email>>, <<"domain", lead.domain>>}
      BY <3>1 DEF OptOutInv, Kinds
    <3>3. <<kind, PlainText(kind)>> \in add_for_lead(lead)
      BY <3>1, <3>2 DEF add_for_lead
    <3>4. [kind |-> kind, value |-> normalize_value(kind, PlainText(kind))] \in suppressed'
      BY <1>3, <3>3
    <3>5. QED
      BY <3>1, <3>4 DEF Entry
  <2>2. ASSUME NEW kind \in optedOut' PROVE kind \in Kinds /\ Entry(kind) \in suppressed'
    <3>1. kind \in optedOut => kind \in Kinds /\ Entry(kind) \in suppressed'
      BY <1>3 DEF OptOutInv
    <3>2. QED
      BY <1>3, <2>1, <3>1
  <2>3. lead'.shows = {}
    BY <1>1 DEF NoLead
  <2>4. QED
    BY <2>2, <2>3, Zenon DEF OptOutInv, Entry
<1>4. QED
  BY <1>2, <1>3, Zenon DEF DeleteLead

\* A contact that was typed legibly is on the list as the code writes it.
LEMMA SuppressKeeps ==
    ASSUME OptOutInv, NEW kind \in Kinds, NEW text \in Typed, Suppress(kind, text)
    PROVE  OptOutInv'
<1>1. /\ suppressed' = suppressed \cup {[kind |-> kind, value |-> normalize_value(kind, text)]}
      /\ optedOut' = IF Legible(kind, text) THEN optedOut \cup {kind} ELSE optedOut
      /\ lead' = lead
  BY Zenon DEF Suppress
<1>2. Legible(kind, text) => Entry(kind) \in suppressed'
  BY <1>1, LegibleText DEF Entry
<1>3. ASSUME NEW kn \in optedOut' PROVE kn \in Kinds /\ Entry(kn) \in suppressed'
  <2>1. CASE kn \in optedOut
    BY <1>1, <2>1 DEF OptOutInv
  <2>2. CASE kn = kind /\ Legible(kind, text)
    BY <1>2, <2>2
  <2>3. QED
    BY <1>1, <2>1, <2>2
<1>4. QED
  BY <1>1, <1>3, Zenon DEF OptOutInv, Entry

\* Every step keeps OptOutInv.
LEMMA OptOutSteps == OptOutInv /\ [MCNext]_AllVars => OptOutInv'
<1> SUFFICES ASSUME OptOutInv, [MCNext]_AllVars PROVE OptOutInv'
  OBVIOUS
<1>1. ASSUME NEW page \in Pages, Collect(page) PROVE OptOutInv'
  <2>1. suppressed' = suppressed /\ optedOut' = optedOut
    BY <1>1 DEF Collect
  <2>2. \A kind \in optedOut' : kind \in Kinds /\ Entry(kind) \in suppressed'
    BY <2>1, Zenon DEF OptOutInv
  <2>3. QED
    BY <1>1, <2>2, CollectShows, Zenon DEF OptOutInv, Entry
<1>2. ASSUME NEW kind \in Kinds, NEW text \in Typed, RemoveByValue(kind, text) PROVE OptOutInv'
  BY <1>2, LiftKeeps, Zenon DEF RemoveByValue
<1>3. ASSUME NEW entry \in suppressed, Remove(entry) PROVE OptOutInv'
  BY <1>3, LiftKeeps, Zenon DEF Remove
<1>4. CASE UNCHANGED vars
  BY <1>4 DEF vars, OptOutInv, Entry
<1>5. QED
  <2>1. (\E page \in Pages : Collect(page))
        \/ (\E kind \in Kinds, text \in Typed : Suppress(kind, text) \/ RemoveByValue(kind, text))
        \/ (\E entry \in suppressed : Remove(entry)) \/ DeleteLead \/ UNCHANGED vars
    BY Zenon DEF MCNext, AllVars, Next
  <2>2. QED
    BY <1>1, <1>2, <1>3, <1>4, <2>1, SuppressKeeps, DeletionKeeps, Zenon

\* No lead that shows a contact validly is stored after the contact opted out,
\* in whatever legible spelling and however a site writes it, until the entry is
\* taken off the list: for every set of texts with at most two "www." in each.
THEOREM OptOutsAreHonoured == MCSpec => OptOutHonoured
<1>1. OptOutInv /\ [MCNext]_AllVars => [lead' # lead => lead'.shows \cap optedOut = {}]_vars
  <2> SUFFICES ASSUME OptOutInv, [MCNext]_AllVars, lead' # lead
               PROVE  lead'.shows \cap optedOut = {}
    OBVIOUS
  <2>1. (\E page \in Pages : Collect(page)) \/ DeleteLead
    <3>1. \/ \E page \in Pages : Collect(page)
          \/ \E kind \in Kinds, text \in Typed : Suppress(kind, text) \/ RemoveByValue(kind, text)
          \/ \E entry \in suppressed : Remove(entry)
          \/ DeleteLead
      BY Zenon DEF MCNext, AllVars, Next, vars
    <3>2. QED
      BY <3>1, Zenon DEF Suppress, RemoveByValue, Remove, Lift
  <2>2. CASE \E page \in Pages : Collect(page)
    <3>1. \A kind \in lead'.shows : Entry(kind) \notin suppressed
      BY <2>2, CollectShows, Zenon
    <3>2. \A kind \in optedOut : Entry(kind) \in suppressed
      BY Zenon DEF OptOutInv
    <3>3. QED
      BY <3>1, <3>2, Zenon
  <2>3. CASE DeleteLead
    BY <2>3 DEF DeleteLead, NoLead
  <2>4. QED
    BY <2>1, <2>2, <2>3
<1>2. QED
  BY <1>1, OptOutStarts, OptOutSteps, PTL DEF MCSpec, OptOutHonoured
=============================================================================
