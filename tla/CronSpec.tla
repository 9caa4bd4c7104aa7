------------------------------ MODULE CronSpec ------------------------------
(***************************************************************************)
(* The cron expressions of package job: parser.go turns an expression into *)
(* bit sets, and SpecSchedule.Next of spec.go walks from a time to the     *)
(* next one in them, a month, a day, an hour, a minute or a second at a    *)
(* time.  One action is one turn of one of its loops.                      *)
(*                                                                         *)
(* The calendar is a parameter: the months and their days, the days of the *)
(* week, the hours of a day and so on.  Local time is a number of seconds  *)
(* from the start of year 0; a schedule's time zone shifts it by whole     *)
(* minutes, and no zone changes its offset (no daylight saving).  A bit    *)
(* set is a set of numbers, with Star for the top bit.  A text of the      *)
(* expression is the number it parses to, Any for "*" and "?", or NaN.     *)
(***************************************************************************)
EXTENDS Integers, Sequences, FiniteSets

CONSTANTS
  MonthDays,                \* the days of each month, a sequence
  Hours, Minutes, Seconds,  \* how many of them the next longer unit has
  Week,                     \* the days of a week
  Nanos,                    \* the fractions of a second a time may have
  YearLimit,                \* 5 in the code: the years Next looks ahead
  Specs,                    \* the expressions: tz, options and fields, or a descriptor
  Starts                    \* the times Next is asked about, in 1/Nanos seconds

ASSUME CalendarAssumption ==
  /\ MonthDays \in Seq(Nat \ {0}) /\ MonthDays # <<>>
  /\ {Hours, Minutes, Seconds, Week, Nanos} \subseteq Nat \ {0}
  /\ YearLimit \in Nat /\ Starts \subseteq Nat

VARIABLE cron  \* the call: pc, the spec, its sched, the start, t, added, limit

Any == -1      \* "*" or "?"
None == -1     \* a part of a range that is not there
NaN == -2      \* a text that is no number, or a negative one
Star == -1     \* starBit
Local == -1    \* time.Local
Refused == {-2}  \* the bits of a range that is refused
ZeroTime == -1 \* time.Time{}

Numbers == Nat \cup {None, NaN}
ASSUME SpecsAssumption ==
  \A spec \in Specs :
    /\ spec.tz \in Int
    /\ spec.fields \in Seq(Seq([low : Numbers, high : Numbers, step : Numbers]))
    /\ spec.kind = "every" => spec.delay \in Int

-----------------------------------------------------------------------------
(* The parser. *)

Places == <<"Second", "Minute", "Hour", "Dom", "Month", "Dow">>
Range1(low, high, step) == [low |-> low, high |-> high, step |-> step]
Defaults == [i \in 1..6 |-> <<Range1(IF i <= 3 THEN 0 ELSE Any, None, None)>>]

LongestMonth == CHOOSE n \in {MonthDays[m] : m \in DOMAIN MonthDays} :
  \A m \in DOMAIN MonthDays : MonthDays[m] <= n
Bounds == <<[min |-> 0, max |-> Seconds - 1], [min |-> 0, max |-> Minutes - 1],
            [min |-> 0, max |-> Hours - 1], [min |-> 1, max |-> LongestMonth],
            [min |-> 1, max |-> Len(MonthDays)], [min |-> 0, max |-> Week - 1]>>

getBits(min, max, step) == {i \in min..max : (i - min) % step = 0}
all(b) == getBits(b.min, b.max, 1) \cup {Star}

\* "N/step" means "N-max/step", and a star with a step above 1 is no star.
getRange(r, b) ==
  LET star == r.low = Any
      start == IF star THEN b.min ELSE r.low
      end == IF star \/ (r.high = None /\ r.step # None) THEN b.max
             ELSE IF r.high = None THEN start ELSE r.high
      step == IF r.step = None THEN 1 ELSE r.step
      numbers == NaN \notin {r.low, IF star THEN None ELSE r.high, r.step}
  IN  IF ~numbers \/ start < b.min \/ end > b.max \/ start > end \/ step = 0 THEN Refused
      ELSE getBits(start, end, step) \cup (IF star /\ step = 1 THEN {Star} ELSE {})

\* The ranges of a comma-separated field; none at all is no error.
getField(field, b) ==
  LET bits == [i \in DOMAIN field |-> getRange(field[i], b)]
  IN  IF \E i \in DOMAIN field : bits[i] = Refused THEN Refused
      ELSE UNION {bits[i] : i \in DOMAIN field}

Optional == [SecondOptional |-> "Second", DowOptional |-> "Dow"]
WithOptional(options) ==
  options \cup {Optional[o] : o \in options \cap DOMAIN Optional}
NewParserPanics(options) == DOMAIN Optional \subseteq options

\* The fields given, one for each place of the options, the optional one
\* filled in when it is missing and the other places with their defaults.
FieldIndex(options, i) == Cardinality({j \in 1..i : Places[j] \in WithOptional(options)})
FieldCount(options) == {n \in 0..6 :
  LET max == FieldIndex(options, 6)
  IN  max - (IF options \cap DOMAIN Optional # {} THEN 1 ELSE 0) <= n /\ n <= max}
normalizeFields(fields, options) ==
  LET given == IF Len(fields) = FieldIndex(options, 6) THEN fields
               ELSE IF "DowOptional" \in options THEN Append(fields, Defaults[6])
               ELSE <<Defaults[1]>> \o fields
  IN  [i \in 1..6 |-> IF Places[i] \in WithOptional(options) THEN given[FieldIndex(options, i)]
                      ELSE Defaults[i]]

\* The descriptors: the fields from the left that are at their minimum.
Pinned == [yearly |-> 5, monthly |-> 4, weekly |-> 3, daily |-> 3, hourly |-> 2]
parseDescriptor(name) == [i \in 1..6 |->
  IF i <= Pinned[name] \/ (name = "weekly" /\ i = 6) THEN {Bounds[i].min} ELSE all(Bounds[i])]

\* The bit sets of an expression, or <<>> when it is refused.
Parse(spec) ==
  LET bits == [i \in 1..6 |-> getField(normalizeFields(spec.fields, spec.options)[i], Bounds[i])]
  IN  IF spec.kind = "descriptor" THEN
        IF "Descriptor" \in spec.options /\ spec.name \in DOMAIN Pinned
        THEN parseDescriptor(spec.name) ELSE <<>>
      ELSE IF Len(spec.fields) \in FieldCount(spec.options) /\ \A i \in 1..6 : bits[i] # Refused
        THEN bits ELSE <<>>

\* "@every": no less than a second, and whole seconds.
Every(duration) ==
  LET d == IF duration < Nanos THEN Nanos ELSE duration IN d - (d % Nanos)

-----------------------------------------------------------------------------
(* The calendar: package time. *)

MinuteLen == Seconds
HourLen == Minutes * MinuteLen
DayLen == Hours * HourLen
DaysBefore[m \in 1..Len(MonthDays) + 1] == IF m = 1 THEN 0 ELSE DaysBefore[m - 1] + MonthDays[m - 1]
YearLen == DaysBefore[Len(MonthDays) + 1] * DayLen

Year(t) == t \div YearLen
DayOfYear(t) == (t % YearLen) \div DayLen
MonthOf(t) == CHOOSE m \in DOMAIN MonthDays :
  DaysBefore[m] <= DayOfYear(t) /\ DayOfYear(t) < DaysBefore[m + 1]
Day(t) == DayOfYear(t) - DaysBefore[MonthOf(t)] + 1
Weekday(t) == (t \div DayLen) % Week
HourOf(t) == (t % DayLen) \div HourLen
MinuteOf(t) == (t % HourLen) \div MinuteLen
SecondOf(t) == t % MinuteLen

-----------------------------------------------------------------------------
(* Next. *)

dayMatches(s, t) ==
  LET domMatch == Day(t) \in s[4]
      dowMatch == Weekday(t) \in s[6]
  IN  IF Star \in s[4] \/ Star \in s[6] THEN domMatch /\ dowMatch ELSE domMatch \/ dowMatch

ZoneOffset(spec) == IF spec.tz = Local THEN 0 ELSE spec.tz

InitCron ==
  \E spec \in Specs, start \in Starts :
    cron = [pc |-> "parse", spec |-> spec, start |-> start, sched |-> <<>>,
            t |-> 0, added |-> FALSE, limit |-> 0]
IdleCron == cron = [pc |-> "idle", spec |-> "", start |-> 0, sched |-> <<>>,
                    t |-> 0, added |-> FALSE, limit |-> 0]

\* NewParser panics on two optional fields, Parse when nothing follows a zone:
\* it then slices up to -1.
ParsePanics(spec) == NewParserPanics(spec.options) \/ spec.kind = "zoneOnly"
\* An empty text, a zone that LoadLocation or a duration that ParseDuration
\* refuses, and "@every" for a parser that takes no descriptors.
Malformed == {"empty", "badLocation", "badDuration"}
ParseRefuses(spec) ==
  spec.kind \in Malformed \/ (spec.kind = "every" /\ "Descriptor" \notin spec.options)

\* Parse panics, returns an error, the bit sets or a constant delay, whose Next
\* is one addition.
ParseSpec ==
  /\ cron.pc = "parse"
  /\ LET spec == cron.spec
         nano == cron.start % Nanos
     IN  IF ParsePanics(spec) THEN cron' = [cron EXCEPT !.pc = "panic"]
         ELSE IF ParseRefuses(spec) THEN cron' = [cron EXCEPT !.pc = "error"]
         ELSE IF spec.kind = "every"
         THEN cron' = [cron EXCEPT !.pc = "done", !.t = cron.start + Every(spec.delay) - nano]
         ELSE cron' = [cron EXCEPT !.sched = Parse(spec),
                                   !.pc = IF Parse(spec) = <<>> THEN "error" ELSE "start"]

\* The upcoming second, in the schedule's time zone.
Upcoming ==
  /\ cron.pc = "start"
  /\ LET t == cron.start \div Nanos + 1 + ZoneOffset(cron.spec)
     IN  cron' = [cron EXCEPT !.pc = "wrap", !.t = t, !.limit = Year(t) + YearLimit]

Wrap ==
  /\ cron.pc = "wrap"
  /\ cron' = IF Year(cron.t) > cron.limit THEN [cron EXCEPT !.pc = "done", !.t = ZeroTime]
             ELSE [cron EXCEPT !.pc = "month"]

\* The time after a step by one unit; the first step resets the smaller fields.
Stepped(reset, unit) == (IF cron.added THEN cron.t ELSE reset) + unit

\* A turn of a loop: leave it when the field matches; otherwise go on to t, and
\* start over when the field wrapped.
Loop(pc, next, matches, t, wrapped) ==
  /\ cron.pc = pc
  /\ cron' = IF matches THEN [cron EXCEPT !.pc = next]
             ELSE [cron EXCEPT !.added = TRUE, !.t = t, !.pc = IF wrapped THEN "wrap" ELSE @]

MonthLoop ==
  LET t == cron.t
      u == Stepped(t - (Day(t) - 1) * DayLen - (t % DayLen), MonthDays[MonthOf(t)] * DayLen)
  IN  Loop("month", "day", MonthOf(t) \in cron.sched[5], u, MonthOf(u) = 1)
\* Faulty: a new month does not start over.
DayLoopGoesOn ==
  LET u == Stepped(cron.t - (cron.t % DayLen), DayLen)
  IN  Loop("day", "hour", dayMatches(cron.sched, cron.t), u, FALSE)
DayLoop ==
  LET u == Stepped(cron.t - (cron.t % DayLen), DayLen)
  IN  Loop("day", "hour", dayMatches(cron.sched, cron.t), u, Day(u) = 1)
HourLoop ==
  LET u == Stepped(cron.t - (cron.t % HourLen), HourLen)
  IN  Loop("hour", "minute", HourOf(cron.t) \in cron.sched[3], u, HourOf(u) = 0)
MinuteLoop ==
  LET u == Stepped(cron.t - (cron.t % MinuteLen), MinuteLen)
  IN  Loop("minute", "second", MinuteOf(cron.t) \in cron.sched[2], u, MinuteOf(u) = 0)
SecondLoop ==
  LET u == Stepped(cron.t, 1)
  IN  Loop("second", "found", SecondOf(cron.t) \in cron.sched[1], u, SecondOf(u) = 0)

\* The time found, in the location of the time that was given.
Found ==
  /\ cron.pc = "found"
  /\ cron' = [cron EXCEPT !.pc = "done", !.t = (@ - ZoneOffset(cron.spec)) * Nanos]

NextCron ==
  \/ ParseSpec \/ Upcoming \/ Wrap \/ MonthLoop \/ DayLoop \/ HourLoop \/ MinuteLoop \/ SecondLoop
  \/ Found

CronNext == InitCron /\ [][NextCron]_cron

-----------------------------------------------------------------------------
(* What an expression means. *)

\* The field of a place: the one the expression gives it, or its default.
FieldOf(spec, i) ==
  LET opts == WithOptional(spec.options)
      given == {j \in 1..6 : Places[j] \in opts}
      left == Len(spec.fields) < (CHOOSE n \in FieldCount(spec.options) :
                                    \A k \in FieldCount(spec.options) : k <= n)
      omitted == IF ~left THEN {} ELSE IF "DowOptional" \in spec.options THEN {6} ELSE {1}
  IN  IF i \in given \ omitted THEN spec.fields[Cardinality({j \in given \ omitted : j <= i})]
      ELSE <<Range1(IF i <= 3 THEN 0 ELSE Any, None, None)>>

InRange(v, r, b) ==
  LET low == IF r.low = Any THEN b.min ELSE r.low
  IN  /\ v >= low
      /\ r.high # None /\ r.low # Any => v <= r.high
      /\ r.step # None => \E k \in 0..v : v = low + k * r.step
      /\ r.step = None /\ r.high = None /\ r.low # Any => v = low
Wanted(v, field, b) == \E k \in DOMAIN field : InRange(v, field[k], b)
Unrestricted(field) == \E k \in DOMAIN field : field[k].low = Any /\ field[k].step \in {None, 1}

DueAt(spec, t) ==
  LET want(v, i) == Wanted(v, FieldOf(spec, i), Bounds[i])
      dom == want(Day(t), 4)
      dow == want(Weekday(t), 6)
      midnight == t % DayLen = 0
  IN  IF spec.kind = "descriptor"
      THEN CASE spec.name = "yearly" -> t % YearLen = 0
             [] spec.name = "monthly" -> midnight /\ Day(t) = 1
             [] spec.name = "weekly" -> midnight /\ Weekday(t) = 0
             [] spec.name = "daily" -> midnight
             [] OTHER -> t % HourLen = 0
      ELSE /\ want(SecondOf(t), 1) /\ want(MinuteOf(t), 2) /\ want(HourOf(t), 3)
           /\ want(MonthOf(t), 5)
           /\ IF Unrestricted(FieldOf(spec, 4)) \/ Unrestricted(FieldOf(spec, 6))
              THEN dom /\ dow ELSE dom \/ dow

(***************************************************************************)
(* NextIsLeast: the time SpecSchedule.Next returns is the first after the  *)
(* start at which the expression is due, and the zero time when there is   *)
(* none in the years it looks ahead, though its loops step over whole      *)
(* months and days and reset the smaller fields only once; for "@every" it *)
(* is a whole second in the delay that follows the start.                  *)
(***************************************************************************)
NextIsLeast ==
  cron.pc = "done" =>
    LET spec == cron.spec
        first == cron.start \div Nanos + 1 + ZoneOffset(spec)
        times == first..((Year(first) + YearLimit + 1) * YearLen - 1)
        local == IF cron.t = ZeroTime THEN ZeroTime ELSE cron.t \div Nanos + ZoneOffset(spec)
    IN  IF spec.kind = "every"
        THEN /\ cron.t % Nanos = 0
             /\ cron.t > cron.start
             /\ spec.delay >= Nanos => cron.t <= cron.start + spec.delay
        ELSE IF cron.t = ZeroTime THEN \A t \in times : ~DueAt(spec, t)
        ELSE /\ local \in times /\ cron.t % Nanos = 0
             /\ DueAt(spec, local)
             /\ \A t \in first..local - 1 : ~DueAt(spec, t)
=============================================================================
