---------------------------- MODULE CronCalendar ----------------------------
(***************************************************************************)
(* The schedule of a job, written as a crontab expression, becomes the     *)
(* OnCalendar= line of a systemd timer (backends/quadlet/jobs/calendar and *)
(* jobs/timer).  A field is a sequence of comma separated items; an item   *)
(* is a range, with or without a step.  A word of the file is a tuple      *)
(* <<"num", n>>, <<"name", i>> (the i-th name of the field) or <<"bad">>.  *)
(* A parse that fails yields the empty set, which no valid field denotes.  *)
(***************************************************************************)
EXTENDS Integers, Sequences, FiniteSets, FiniteSetsExt, SequencesExt

\* field.rs: the five fields, with their range, their names and `?`.
FieldSpec ==
    [minute  |-> [min |-> 0, max |-> 59, names |-> 0,  question |-> FALSE],
     hour    |-> [min |-> 0, max |-> 23, names |-> 0,  question |-> FALSE],
     day     |-> [min |-> 1, max |-> 31, names |-> 0,  question |-> TRUE],
     month   |-> [min |-> 1, max |-> 12, names |-> 12, question |-> FALSE],
     weekday |-> [min |-> 0, max |-> 7,  names |-> 7,  question |-> TRUE]]

Star     == <<[range |-> <<<<"*">>>>, step |-> <<"none">>]>>
Question == <<[range |-> <<<<"?">>>>, step |-> <<"none">>]>>
Value(n) == <<[range |-> <<<<"num", n>>>>, step |-> <<"none">>]>>

\* A text of at most two digits, or a name of the field: its value, or -1.
parse_value(word, spec) ==
    LET n == CASE word[1] = "num" /\ word[2] <= 99          -> word[2]
               [] word[1] = "name" /\ word[2] < spec.names  -> word[2] + spec.min
               [] OTHER                                     -> -1
    IN IF n \in spec.min .. spec.max THEN n ELSE -1

parse_step(word, spec) ==
    IF word[1] = "num" /\ word[2] \in 1 .. (spec.max - spec.min) THEN word[2] ELSE 0

\* A step is taken over a range or over `*`, never over a single value, and a
\* range that runs backwards is refused.
parse_item(item, spec) ==
    LET Over(low, high, step) ==
            IF low = -1 \/ high = -1 \/ low > high \/ step = 0 THEN {}
            ELSE {v \in low .. high : (v - low) % step = 0}
        Bounds == IF item.range = Star[1].range THEN <<spec.min, spec.max>>
                  ELSE <<parse_value(item.range[1], spec), parse_value(Last(item.range), spec)>>
        Stepped == item.range = Star[1].range \/ Len(item.range) = 2
    IN IF item.step[1] = "none" THEN Over(Bounds[1], Bounds[2], 1)
       ELSE IF Stepped THEN Over(Bounds[1], Bounds[2], parse_step(item.step, spec))
       ELSE {}

parse_field(text, spec) ==
    IF text = Question THEN IF spec.question THEN spec.min .. spec.max ELSE {}
    ELSE LET items == {parse_item(text[i], spec) : i \in DOMAIN text}
         IN IF {} \in items THEN {} ELSE UNION items

is_unrestricted(text) == text \in {Star, Question}

\* cron.rs:83: the macros of crontab; @reboot has no calendar time.
Macros ==
    [hourly   |-> <<Value(0), Star, Star, Star, Star>>,
     daily    |-> <<Value(0), Value(0), Star, Star, Star>>,
     weekly   |-> <<Value(0), Value(0), Star, Star, Value(0)>>,
     monthly  |-> <<Value(0), Value(0), Value(1), Star, Star>>,
     yearly   |-> <<Value(0), Value(0), Value(1), Value(1), Star>>,
     annually |-> <<Value(0), Value(0), Value(1), Value(1), Star>>]

\* An expression is <<"macro", name>> or a sequence of field texts.
expand_macro(expression) ==
    IF Len(expression) = 2 /\ expression[1] = "macro"
    THEN IF expression[2] \in DOMAIN Macros THEN Macros[expression[2]] ELSE <<>>
    ELSE expression

NoCalendar == [minutes |-> {}, hours |-> {}, days |-> {}, months |-> {}, weekdays |-> {}]

\* cron.rs:41.  systemd fires when the day of the month AND the day of the week
\* match, cron when either does: an expression that restricts both is refused.
parse_fields(fields) ==
    LET Complete(parsed) == IF \E f \in DOMAIN parsed : parsed[f] = {} THEN NoCalendar ELSE parsed
    IN IF Len(fields) # 5 \/ (~is_unrestricted(fields[3]) /\ ~is_unrestricted(fields[5]))
       THEN NoCalendar
       ELSE Complete([minutes  |-> parse_field(fields[1], FieldSpec.minute),
                      hours    |-> parse_field(fields[2], FieldSpec.hour),
                      days     |-> parse_field(fields[3], FieldSpec.day),
                      months   |-> parse_field(fields[4], FieldSpec.month),
                      weekdays |-> {d % 7 : d \in parse_field(fields[5], FieldSpec.weekday)}])

parse_cron(expression) == parse_fields(expand_macro(expression))

LongestDay(month) == IF month = 2 THEN 29 ELSE IF month \in {4, 6, 9, 11} THEN 30 ELSE 31

never_fires(calendar) ==
    \A month \in calendar.months : \A day \in calendar.days : day > LongestDay(month)

----------------------------------------------------------------------------
\* on_calendar.rs: the maximal runs of consecutive values, as pairs.
runs(values) ==
    {<<low, Min({high \in values : high >= low /\ high + 1 \notin values})>> :
        low \in {v \in values : v - 1 \notin values}}

\* A first value and a step of two or more, when they denote exactly the values.
series(values, max) ==
    IF Cardinality(values) < 3 THEN {}
    ELSE LET first == Min(values)
             step  == Min(values \ {first}) - first
         IN IF step >= 2 /\ {v \in first .. max : (v - first) % step = 0} = values
            THEN {<<first, step>>} ELSE {}

field(values, min, max) ==
    IF Cardinality(values) = max - min + 1 THEN [form |-> "all", parts |-> {}]
    ELSE IF series(values, max) # {} THEN [form |-> "series", parts |-> series(values, max)]
    ELSE [form |-> "runs", parts |-> runs(values)]

RenderSunday(calendar) ==
    [weekdays |-> [form  |-> IF calendar.weekdays = 0 .. 6 THEN "all" ELSE "runs",
                   parts |-> runs(calendar.weekdays)],
     months   |-> field(calendar.months, 1, 12),
     days     |-> field(calendar.days, 1, 31),
     hours    |-> field(calendar.hours, 0, 23),
     minutes  |-> field(calendar.minutes, 0, 59)]

\* on_calendar.rs:20.  systemd's week starts on Monday, cron's on Sunday.
render(calendar) ==
    [weekdays |-> [form  |-> IF calendar.weekdays = 0 .. 6 THEN "all" ELSE "runs",
                   parts |-> runs({(d + 6) % 7 : d \in calendar.weekdays})],
     months   |-> field(calendar.months, 1, 12),
     days     |-> field(calendar.days, 1, 31),
     hours    |-> field(calendar.hours, 0, 23),
     minutes  |-> field(calendar.minutes, 0, 59)]

----------------------------------------------------------------------------
\* timer.rs: the zones a timer may name; the letters of a name are abstracted.
SafeZones      == {"UTC", "Etc/GMT", "Europe/Madrid"}
FixedZones     == {"UTC", "Etc/GMT"}

\* schedule.rs: a schedule entry is an expression and, when written in detail,
\* a time zone, a concurrency and what to do with a missed fire.  "" is unset.
Refused(why) == [ok |-> FALSE, why |-> why]

plan(entry) ==
    LET Timed(calendar) ==
            IF calendar = NoCalendar THEN Refused("cron")
            ELSE [ok          |-> TRUE,
                  calendar    |-> render(calendar),
                  timezone    |-> entry.timezone,
                  persistent  |-> entry.missed_fires # "skip",
                  never_fires |-> never_fires(calendar)]
    IN IF entry.concurrency = "queue" THEN Refused("queue")
       ELSE IF entry.timezone \notin SafeZones \cup {""} THEN Refused("timezone")
       ELSE Timed(parse_cron(entry.cron))

\* systemd's reading of an OnCalendar= field (systemd.time(7)): a value and a
\* step run to the end of the field's range.
Denoted(text, min, max) ==
    CASE text.form = "all"    -> min .. max
      [] text.form = "series" -> UNION {{v \in p[1] .. max : (v - p[1]) % p[2] = 0} :
                                            p \in text.parts}
      [] text.form = "runs"   -> UNION {p[1] .. p[2] : p \in text.parts}

\* The fires of a rendered calendar, its days as <<day of month, cron's weekday>>:
\* systemd fires when both match.
Fires(text) ==
    [minutes |-> Denoted(text.minutes, 0, 59),
     hours   |-> Denoted(text.hours, 0, 23),
     months  |-> Denoted(text.months, 1, 12),
     days    |-> Denoted(text.days, 1, 31)
                 \X {(d + 1) % 7 : d \in Denoted(text.weekdays, 0, 6)}]

\* crontab(5)'s reading of one item: a value matches when it is in the range and a
\* whole number of steps from its start.  A name counts from the field's first value.
Bound(word, spec) == IF word[1] = "name" THEN word[2] + spec.min ELSE word[2]

Matches(item, v, spec) ==
    LET any  == item.range \in {Star[1].range, Question[1].range}
        low  == IF any THEN spec.min ELSE Bound(item.range[1], spec)
        high == IF any THEN spec.max ELSE Bound(Last(item.range), spec)
        step == IF item.step[1] = "none" THEN 1 ELSE item.step[2]
    IN low <= v /\ v <= high /\ \E k \in 0 .. 59 : v = low + k * step

CronField(text, spec) ==
    {v \in spec.min .. spec.max : \E i \in DOMAIN text : Matches(text[i], v, spec)}

\* crontab(5)'s reading of an expression.  A day counts when its day of the month or
\* its day of the week matches if both are restricted, and when both match otherwise.
CronFires(expression) ==
    LET fields == expand_macro(expression)
        doms   == CronField(fields[3], FieldSpec.day)
        dows   == {d % 7 : d \in CronField(fields[5], FieldSpec.weekday)}
        both   == ~is_unrestricted(fields[3]) /\ ~is_unrestricted(fields[5])
    IN [minutes |-> CronField(fields[1], FieldSpec.minute),
        hours   |-> CronField(fields[2], FieldSpec.hour),
        months  |-> CronField(fields[4], FieldSpec.month),
        days    |-> {d \in (1 .. 31) \X (0 .. 6) :
                        IF both THEN d[1] \in doms \/ d[2] \in dows
                                ELSE d[1] \in doms /\ d[2] \in dows}]
=============================================================================
