-------------------------------- MODULE DateTime --------------------------------
(* src/src/aws/common/data_time.c: dates to and from text. A text is a sequence *)
(* of one-character strings, an instant is in seconds since 1970. The weekday   *)
(* that strftime prints is not computed (the parser skips it).                  *)
EXTENDS Integers, SequencesExt, FiniteSetsExt

CONSTANTS DtDates,   \* [year, mon, mday, hour, min, sec], as in struct tm
          DtZone     \* seconds that the device's time zone is ahead of UTC
VARIABLE dt          \* a date that is printed, its text cut, and read back
dtVars == <<dt>>

Dig == <<"0", "1", "2", "3", "4", "5", "6", "7", "8", "9">>
Low == <<"a","b","c","d","e","f","g","h","i","j","k","l","m","n","o","p","q","r","s","t","u","v","w","x","y","z">>
Upp == <<"A","B","C","D","E","F","G","H","I","J","K","L","M","N","O","P","Q","R","S","T","U","V","W","X","Y","Z">>
IsDigit(c) == Contains(Dig, c)
IsAlpha(c) == Contains(Low, c) \/ Contains(Upp, c)
DigitVal(c) == (CHOOSE i \in 1..10 : Dig[i] = c) - 1
tolower(c) == IF Contains(Upp, c) THEN Low[CHOOSE i \in 1..26 : Upp[i] = c] ELSE c
Lowered(s) == [i \in DOMAIN s |-> tolower(s[i])]
Names == << <<"j","a","n">>, <<"f","e","b">>, <<"m","a","r">>, <<"a","p","r">>, <<"m","a","y">>,
            <<"j","u","n">>, <<"j","u","l">>, <<"a","u","g">>, <<"s","e","p">>, <<"o","c","t">>,
            <<"n","o","v">>, <<"d","e","c">> >>

\* mktime: struct tm in local time; aws_timegm is the same function (time.c:5)
Leaps(y) == y \div 4 - y \div 100 + y \div 400
DaysBefore == <<0, 31, 59, 90, 120, 151, 181, 212, 243, 273, 304, 334>>
Seconds(tm) ==
  LET y == tm.year + 1900 + tm.mon \div 12
      m == tm.mon % 12
      leapDay == IF Leaps(y) > Leaps(y - 1) /\ m >= 2 THEN 1 ELSE 0
      days == 365 * (y - 1970) + Leaps(y - 1) - Leaps(1969) + DaysBefore[m + 1] + leapDay + tm.mday - 1
  IN  86400 * days + 3600 * tm.hour + 60 * tm.min + tm.sec
mktime(tm) == Seconds(tm) - DtZone
aws_timegm(tm) == mktime(tm)
ZeroTm == [year |-> 0, mon |-> 0, mday |-> 0, hour |-> 0, min |-> 0, sec |-> 0]

\* get_month_number_from_str: the first three characters, if stop - start says there are
MonthNumber(text, start, stop) ==
  LET word == Lowered(SubSeq(text, start + 1, start + 3))
  IN  IF stop - start < 3 \/ ~Contains(Names, word) THEN -1
      ELSE (CHOOSE i \in 1..12 : Names[i] = word) - 1

is_utc_time_zone(tz) ==
  \/ tolower(tz[1]) = "z"
  \/ Len(tz) = 5 /\ tz[1] \in {"+", "-"}
  \/ Len(tz) = 2 /\ Lowered(tz) = <<"u", "t">>
  \/ Len(tz) >= 3 /\ SubSeq(Lowered(tz), 1, 3) \in {<<"u", "t", "c">>, <<"g", "m", "t">>}

-----------------------------------------------------------------------------
(* s_parse_rfc_822: one character at a time *)
RfcStart == [state |-> "weekday", start |-> 0, index |-> 0, error |-> FALSE, tm |-> ZeroTm, tz |-> <<>>]
To(p, state) == [p EXCEPT !.state = state, !.start = p.index + 1]
Fail(p) == [p EXCEPT !.error = TRUE]
\* a digit of a field, or its end, or an error
Field(p, c, field, isEnd, atEnd) ==
  IF isEnd THEN atEnd
  ELSE IF IsDigit(c) THEN [p EXCEPT !.tm[field] = 10 * @ + DigitVal(c)] ELSE Fail(p)
Wide(p, n) == p.index - p.start = n

RfcYear(p, c) ==
  Field(p, c, "year", c = " " /\ (Wide(p, 4) \/ Wide(p, 2)),
        [To(p, "hour") EXCEPT !.tm.year = IF Wide(p, 4) THEN @ - 1900 ELSE @ + 2000 - 1900])
RfcMonth(p, c, text) ==
  LET m == MonthNumber(text, p.start, p.index + 1)
  IN  IF c = " " THEN (IF m > -1 THEN [To(p, "year") EXCEPT !.tm.mon = m] ELSE Fail(p))
      ELSE IF IsAlpha(c) THEN p ELSE Fail(p)
RfcWeekday(p, c) ==
  IF c = "," THEN To(p, "space")
  ELSE IF IsDigit(c) THEN [p EXCEPT !.state = "mday"]
  ELSE IF IsAlpha(c) THEN p ELSE Fail(p)
RfcZone(p, c) ==
  IF (IsAlpha(c) \/ IsDigit(c) \/ c \in {"-", "+"}) /\ p.index - p.start < 5
  THEN [p EXCEPT !.tz = Append(@, c)] ELSE Fail(p)
RfcStep(p, c, text) ==
  CASE p.state = "weekday" -> RfcWeekday(p, c)
    [] p.state = "space" -> IF c = " " THEN To(p, "mday") ELSE Fail(p)
    [] p.state = "mday" -> Field(p, c, "mday", c = " ", To(p, "month"))
    [] p.state = "month" -> RfcMonth(p, c, text)
    [] p.state = "year" -> RfcYear(p, c)
    [] p.state = "hour" -> Field(p, c, "hour", c = ":" /\ Wide(p, 2), To(p, "minute"))
    [] p.state = "minute" -> Field(p, c, "min", c = ":" /\ Wide(p, 2), To(p, "second"))
    [] p.state = "second" -> Field(p, c, "sec", c = " " /\ Wide(p, 2), To(p, "zone"))
    [] p.state = "zone" -> RfcZone(p, c)
s_parse_rfc_822(text) ==
  LET p == FoldLeft(LAMBDA q, c : IF q.error THEN q
                                  ELSE [RfcStep(q, c, text) EXCEPT !.index = q.index + 1],
                    RfcStart, text)
      utc == p.tz # <<>> /\ is_utc_time_zone(p.tz)
      digit(i) == IF i <= Len(p.tz) /\ IsDigit(p.tz[i]) THEN DigitVal(p.tz[i]) ELSE 0
      east == (10 * digit(2) + digit(3)) * 3600 + (10 * digit(4) + digit(5)) * 60
  IN  [ok |-> ~p.error /\ p.state = "zone" /\ (p.tz # <<>> => utc), tm |-> p.tm, utc |-> utc,
       offset |-> IF utc /\ p.tz[1] = "+" THEN east ELSE IF utc /\ p.tz[1] = "-" THEN -east ELSE 0]

-----------------------------------------------------------------------------
(* s_parse_iso_8601: one part of the text after the other; rest is not read yet *)
IsoStart(text) == [rest |-> text, error |-> FALSE, done |-> FALSE, sep |-> FALSE, tm |-> ZeroTm,
                   east |-> [sign |-> 0, hour |-> 0, min |-> 0]]
IsoParts == <<"year", "-?", "mon", "-", "mday", "T", "hour", ":?", "min", ":", "sec", "fraction",
              "zone", "east hour", ":?", "east min">>
HasDigits(s, n) == Len(s) >= n /\ \A i \in 1..n : IsDigit(s[i])
Number(s) == FoldLeft(LAMBDA acc, c : 10 * acc + DigitVal(c), 0, s)
NextIs(s, cs) == s # <<>> /\ tolower(s[1]) \in cs
Skip(p, n) == [p EXCEPT !.rest = SubSeq(@, n + 1, Len(@))]
s_read_n_digits(p, n, part) ==
  LET val == Number(SubSeq(p.rest, 1, n))
  IN  IF ~HasDigits(p.rest, n) THEN Fail(p)
      ELSE CASE part = "east hour" -> [Skip(p, n) EXCEPT !.east.hour = val]
             [] part = "east min" -> [Skip(p, n) EXCEPT !.east.min = val]
             [] OTHER -> [Skip(p, n) EXCEPT !.tm[part] = val - (CASE part = "year" -> 1900 [] part = "mon" -> 1 [] OTHER -> 0)]
s_advance_if_next_char_is(p, c) ==
  IF NextIs(p.rest, {c}) THEN [Skip(p, 1) EXCEPT !.sep = TRUE] ELSE [p EXCEPT !.sep = FALSE]
s_read_1_char(p, cs) == IF NextIs(p.rest, cs) THEN Skip(p, 1) ELSE Fail(p)
\* Mutant: takes everything behind the point for digits.
FractionDigitsAll(s) == Len(s) - 1
FractionDigits(s) ==
  Min({n \in 0..(Len(s) - 1) : n = Len(s) - 1 \/ ~IsDigit(s[n + 2])})
\* a point without digits is an error
s_skip_optional_fractional_seconds(p) ==
  IF ~NextIs(p.rest, {".", ","}) THEN p
  ELSE IF FractionDigits(p.rest) > 0 THEN Skip(p, FractionDigits(p.rest) + 1) ELSE Fail(p)
\* Z, or a sign and an offset
ReadZone(p) ==
  IF NextIs(p.rest, {"z"}) THEN [p EXCEPT !.done = TRUE]
  ELSE [s_read_1_char(p, {"+", "-"}) EXCEPT !.east.sign = IF NextIs(p.rest, {"-"}) THEN -1 ELSE 1]

IsoPart(p, part) ==
  CASE part = "-?" -> s_advance_if_next_char_is(p, "-")
    [] part = ":?" -> s_advance_if_next_char_is(p, ":")
    [] part \in {"-", ":"} -> IF p.sep THEN s_read_1_char(p, {part}) ELSE p
    [] part = "T" -> IF p.rest = <<>> THEN [p EXCEPT !.done = TRUE] ELSE s_read_1_char(p, {"t", " "})
    [] part = "fraction" -> s_skip_optional_fractional_seconds(p)
    [] part = "zone" -> ReadZone(p)
    [] OTHER -> s_read_n_digits(p, IF part = "year" THEN 4 ELSE 2, part)
IsoRead(text) == FoldLeft(LAMBDA p, part : IF p.error \/ p.done THEN p ELSE IsoPart(p, part), IsoStart(text), IsoParts)
s_parse_iso_8601(text) ==
  LET p == IsoRead(text)
  IN  [ok |-> ~p.error, tm |-> p.tm, utc |-> TRUE,
       offset |-> p.east.sign * (p.east.hour * 3600 + p.east.min * 60)]

\* aws_date_time_init_from_str_cursor
aws_date_time_init_from_str(text, fmt) ==
  LET iso == IF fmt = "rfc822" THEN [ok |-> FALSE] ELSE s_parse_iso_8601(text)
      p == IF fmt = "rfc822" \/ (fmt = "auto" /\ ~iso.ok) THEN s_parse_rfc_822(text) ELSE iso
  IN  IF p.ok
      THEN [ok |-> TRUE, ts |-> (IF p.utc \/ p.offset # 0 THEN aws_timegm(p.tm) ELSE mktime(p.tm)) - p.offset]
      ELSE [ok |-> FALSE]

-----------------------------------------------------------------------------
(* aws_date_time_to_utc_time_str and its short form, with the zones that the   *)
(* parser promises to take in place of GMT and Z                               *)
Print2(n) == <<Dig[n \div 10 + 1], Dig[(n % 10) + 1]>>
Print4(n) == Print2(n \div 100) \o Print2(n % 100)
Capital(name) == <<Upp[CHOOSE i \in 1..26 : Low[i] = name[1]]>> \o Tail(name)
Weekday == <<"S", "u", "n">>
RfcDate(tm) == Weekday \o <<",", " ">> \o Print2(tm.mday) \o <<" ">> \o Capital(Names[tm.mon + 1])
               \o <<" ">> \o Print4(tm.year + 1900)
IsoDate(tm, sep) == Print4(tm.year + 1900) \o sep \o Print2(tm.mon + 1) \o sep \o Print2(tm.mday)
Clock(tm, sep) == Print2(tm.hour) \o sep \o Print2(tm.min) \o sep \o Print2(tm.sec)
s_date_to_str(tm, fmt, zone) ==
  CASE fmt = "rfc822" -> RfcDate(tm) \o <<" ">> \o Clock(tm, <<":">>) \o <<" ">> \o zone
    [] fmt = "iso8601" -> IsoDate(tm, <<"-">>) \o <<"T">> \o Clock(tm, <<":">>) \o zone
    [] fmt = "basic" -> IsoDate(tm, <<>>) \o <<"T">> \o Clock(tm, <<>>) \o zone
    [] fmt = "short" -> IsoDate(tm, <<"-">>)
    [] fmt = "short basic" -> IsoDate(tm, <<>>)

Offsets == { [text |-> <<"+", "0", "1", "3", "0">>, east |-> 5400],
             [text |-> <<"-", "0", "7", "0", "0">>, east |-> -25200] }
Zones(fmt) ==
  Offsets \cup (IF fmt = "rfc822"
                THEN {[text |-> t, east |-> 0] : t \in {<<"G", "M", "T">>, <<"U", "T", "C">>, <<"u", "t">>, <<"z">>}}
                ELSE {[text |-> <<"Z">>, east |-> 0], [text |-> <<".", "2", "5", "Z">>, east |-> 0]})

DtIdle == [step |-> "idle"]
DtInit == dt = DtIdle
DtPrint(tm, fmt) ==
  /\ dt.step = "idle"
  /\ \E zone \in Zones(fmt) :
       dt' = [step |-> "printed", tm |-> tm, fmt |-> fmt, text |-> s_date_to_str(tm, fmt, zone.text),
              east |-> IF fmt \in {"short", "short basic"} THEN 0 ELSE zone.east, cut |-> FALSE]
DtCut(n) ==
  /\ dt.step = "printed" /\ ~dt.cut /\ n < Len(dt.text)
  /\ dt' = [dt EXCEPT !.text = SubSeq(@, 1, n), !.cut = TRUE]
DtParse(fmt) ==
  /\ dt.step = "printed"
  /\ fmt = "auto" \/ (fmt = "rfc822" <=> dt.fmt = "rfc822")
  /\ dt' = [step |-> "read", printed |-> dt, out |-> aws_date_time_init_from_str(dt.text, fmt)]
DtNext ==
  \/ \E tm \in DtDates, fmt \in {"rfc822", "iso8601", "basic", "short", "short basic"} : DtPrint(tm, fmt)
  \/ \E n \in 0..31 : DtCut(n)
  \/ \E fmt \in {"rfc822", "iso8601", "basic", "auto"} : DtParse(fmt)
DtSpec == DtInit /\ [][DtNext]_dtVars

StartOfDay(tm) == [tm EXCEPT !.hour = 0, !.min = 0, !.sec = 0]
\* data_time.c, date_time.h:74 ("Regardless of which you pass in, both ... would be accepted"): a date
\* that the SDK prints, with any of the zones and offsets the header promises
\* to take, is read back as the same instant, whichever ISO format is named and when the format is to
\* be detected. A text that was cut off is refused, unless it lost only its zone
\* (then it is local time) or, in ISO form, its whole time of day.
DatesReadBack ==
  dt.step = "read" =>
    LET p == dt.printed
        meant == IF p.fmt \in {"short", "short basic"} THEN Seconds(StartOfDay(p.tm)) ELSE Seconds(p.tm) - p.east
    IN  IF ~p.cut THEN dt.out.ok /\ dt.out.ts = meant
        ELSE dt.out.ok => dt.out.ts \in {meant, mktime(p.tm), Seconds(StartOfDay(p.tm))}
=============================================================================
