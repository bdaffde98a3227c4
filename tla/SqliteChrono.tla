---------------------------- MODULE SqliteChrono ----------------------------
(***************************************************************************)
(* The chrono codecs of src/rbdc-sqlite/src/types/chrono.rs: how a date    *)
(* is stored in a column of SQLite and read back from what a column holds, *)
(* whoever stored it.                                                      *)
(*                                                                         *)
(* Time is counted in ticks, Res of them to a second.  A DateTime is its   *)
(* instant and the offset of its zone, [utc, off]; a naive date, time or   *)
(* date-time is a DateTime of offset 0, its wall clock as utc.  A text is  *)
(* not its characters but what a parser tells apart: whether it is a date, *)
(* a time or both, the separator of the two, the precision of the time     *)
(* (R: minutes, T: seconds with or without a fraction), the zone (none, a  *)
(* Z, an offset) and the wall clock and offset its digits spell.           *)
(***************************************************************************)
EXTENDS Integers, Sequences, SequencesExt

CONSTANTS
    None,           \* Option::None, and a column nothing was stored in
    Error,          \* Result::Err
    Res,            \* ticks in a second
    Local,          \* the offset of the zone of the process
    Offsets,        \* the offsets of the zones in use
    Clock,          \* bound: the instants and wall clocks stored, in ticks
    MaxTimestamp    \* the last second NaiveDateTime::from_timestamp_opt takes

VARIABLES
    cell,           \* the SqliteValue of the column
    wrote,          \* history: the value Encode stored there, None if another did
    got             \* what the last Decode answered

chronoVars == <<cell, wrote, got>>

DateTimes == {"DateTime<Utc>", "DateTime<Local>", "DateTime<FixedOffset>"}
Naives == {"NaiveDateTime", "NaiveDate", "NaiveTime"}

DateTime(utc, off) == [utc |-> utc, off |-> off]
naive_local(dt) == dt.utc + dt.off
Text(form, sep, prec, zone, dt) ==
    [form |-> form, sep |-> sep, prec |-> prec, zone |-> zone,
     wall |-> naive_local(dt), off |-> dt.off]
Format(sep, prec, zone) == [sep |-> sep, prec |-> prec, zone |-> zone]
Value(type, text, num) == [type |-> type, text |-> text, num |-> num]

-----------------------------------------------------------------------------
\* Type::type_info: the type an argument is declared with, and
\* Type::compatible: the types of a column a value is read from.
type_info(kind) ==
    CASE kind = "NaiveDate" -> "Date"
      [] kind = "NaiveTime" -> "Time"
      [] OTHER -> "Datetime"

compatible(kind, ty) ==
    CASE kind = "NaiveDate" -> ty \in {"Date", "Text"}
      [] kind = "NaiveTime" -> ty \in {"Time", "Text"}
      [] OTHER -> ty \in {"Datetime", "Text", "Int64", "Int", "Float"}

\* Encode: to_rfc3339_opts(AutoSi, false) and format("%F %T%.f"), ("%F"),
\* ("%T%.f"), each stored as a text.
encode(kind, dt) ==
    CASE kind \in DateTimes -> Value("Text", Text("datetime", "T", "T", ":z", dt), 0)
      [] kind = "NaiveDateTime" -> Value("Text", Text("datetime", " ", "T", "", dt), 0)
      [] kind = "NaiveDate" -> Value("Text", Text("date", "", "", "", dt), 0)
      [] kind = "NaiveTime" -> Value("Text", Text("time", "", "T", "", dt), 0)

\* The parsers of chrono.  One that answers a DateTime needs an offset in
\* the text; a naive one reads an offset the format names and drops it.
Matches(text, form, format) ==
    /\ text.form = form /\ text.sep = format.sep
    /\ text.prec = format.prec /\ text.zone = format.zone

Spelled(text) == DateTime(text.wall - text.off, text.off)

parse_from_rfc3339(text) ==
    IF \E zone \in {"Z", ":z"} : Matches(text, "datetime", Format("T", "T", zone))
    THEN Spelled(text) ELSE Error

parse_from_str(text, form, format) ==
    IF Matches(text, form, format) /\ format.zone = ":z" THEN Spelled(text) ELSE Error

naive_parse_from_str(text, form, format) ==
    IF Matches(text, form, format) THEN DateTime(text.wall, 0) ELSE Error

sqlite_datetime_formats ==
    <<Format(" ", "T", ""), Format(" ", "R", ""), Format(" ", "R", "Z"),
      Format(" ", "R", ":z"), Format(" ", "T", "Z"), Format(" ", "T", ":z"),
      Format("T", "R", ""), Format("T", "R", "Z"), Format("T", "R", ":z"),
      Format("T", "T", ""), Format("T", "T", "Z"), Format("T", "T", ":z")>>

\* "%T.f" ends in the two bytes ".f", which no time does.
sqlite_time_formats ==
    <<Format("", "T.f", ""), Format("", "T", ""), Format("", "R", ""),
      Format("", "R", "Z"), Format("", "T", "Z"), Format("", "R", ":z"),
      Format("", "T", ":z")>>

\* Seeded fault: the naive parser is tried before the one that keeps the
\* offset.
NaiveFirst(text, format) ==
    IF naive_parse_from_str(text, "datetime", format) # Error
    THEN naive_parse_from_str(text, "datetime", format)
    ELSE parse_from_str(text, "datetime", format)

\* One turn of the loop over the formats: with the offset, or else naive
\* and taken as UTC.
Attempt(text, format) ==
    IF parse_from_str(text, "datetime", format) # Error
    THEN parse_from_str(text, "datetime", format)
    ELSE naive_parse_from_str(text, "datetime", format)

\* The answer of the first turn of the loop that has one.
FirstOk(formats, Try(_)) ==
    LET i == SelectInSeq(formats, LAMBDA format : Try(format) # Error)
    IN IF i = 0 THEN None ELSE Try(formats[i])

decode_datetime_from_text(text) ==
    IF parse_from_rfc3339(text) # Error THEN parse_from_rfc3339(text)
    ELSE FirstOk(sqlite_datetime_formats, LAMBDA format : Attempt(text, format))

from_timestamp_opt(seconds, ticks) ==
    IF seconds \in -MaxTimestamp..MaxTimestamp
    THEN DateTime(seconds * Res + ticks, 0) ELSE None

decode_datetime_from_int(value) == from_timestamp_opt(value, 0)

\* Seeded fault: the seconds are rounded down.
FloorSeconds(timestamp) ==
    from_timestamp_opt(IF timestamp >= 0 THEN timestamp \div Res
                       ELSE -((Res - 1 - timestamp) \div Res), 0)

\* timestamp is (value - epoch_in_julian_days) * seconds_in_day, in ticks.
\* `as i64` rounds towards zero; `as u32` of a negative fraction is 0.
decode_datetime_from_float(timestamp) ==
    LET seconds == IF timestamp >= 0 THEN timestamp \div Res ELSE -((-timestamp) \div Res)
        nanos == IF timestamp >= 0 THEN timestamp % Res ELSE 0
    IN from_timestamp_opt(seconds, nanos)

decode_datetime(value) ==
    LET dt == CASE value.type = "Text" -> decode_datetime_from_text(value.text)
                [] value.type \in {"Int", "Int64"} -> decode_datetime_from_int(value.num)
                [] value.type = "Float" -> decode_datetime_from_float(value.num)
                [] OTHER -> None
    IN IF dt # None THEN dt ELSE Error

\* Seeded faults: every DateTime is read as one of UTC; a naive date-time
\* keeps the offset it was read with.
DecodeAsUtc(kind, dt) ==
    CASE dt = Error -> Error
      [] kind \in DateTimes -> DateTime(dt.utc, 0)
      [] OTHER -> DateTime(naive_local(dt), 0)

DecodeWithOffset(kind, dt) ==
    CASE dt = Error -> Error
      [] kind = "DateTime<Utc>" -> DateTime(dt.utc, 0)
      [] kind = "DateTime<Local>" -> DateTime(dt.utc, Local)
      [] OTHER -> dt

\* Decode for the three DateTime and for NaiveDateTime, of what
\* decode_datetime answered.
FromDateTime(kind, dt) ==
    CASE dt = Error -> Error
      [] kind = "DateTime<Utc>" -> DateTime(dt.utc, 0)
      [] kind = "DateTime<Local>" -> DateTime(dt.utc, Local)
      [] kind = "DateTime<FixedOffset>" -> dt
      [] kind = "NaiveDateTime" -> DateTime(naive_local(dt), 0)

\* Decode.  A NaiveDate is read with "%F" alone, a NaiveTime with the first
\* of its formats that fits; value.text() of what is no text parses as none.
decode(kind, value) ==
    CASE kind \notin {"NaiveDate", "NaiveTime"} ->
            FromDateTime(kind, decode_datetime(value))
      [] value.type # "Text" -> Error
      [] kind = "NaiveDate" -> naive_parse_from_str(value.text, "date", Format("", "", ""))
      [] kind = "NaiveTime" ->
            LET time == FirstOk(sqlite_time_formats,
                                LAMBDA format : naive_parse_from_str(value.text, "time", format))
            IN IF time # None THEN time ELSE Error

-----------------------------------------------------------------------------
\* The values of a type: every zone for a DateTime<FixedOffset>, the one of
\* the process for a DateTime<Local>.
ValuesOf(kind) ==
    {DateTime(utc, off) : utc \in Clock,
                          off \in CASE kind = "DateTime<FixedOffset>" -> Offsets
                                    [] kind = "DateTime<Local>" -> {Local}
                                    [] OTHER -> {0}}

\* What another program may have stored: SQLite's own date and time texts,
\* a Unix time, a Julian day, and what is none of them.
Stored ==
    {Value("Text", Text("datetime", f.sep, f.prec, f.zone,
                        DateTime(utc, IF f.zone = ":z" THEN off ELSE 0)), 0) :
        f \in ToSet(sqlite_datetime_formats), utc \in Clock, off \in Offsets}
    \cup {Value("Text", Text("time", "", f.prec, f.zone, DateTime(utc, 0)), 0) :
             f \in ToSet(sqlite_time_formats) \ {Format("", "T.f", "")}, utc \in Clock}
    \cup {Value("Text", Text("date", "", "", "", DateTime(utc, 0)), 0) : utc \in Clock}
    \cup {Value(type, None, num) : type \in {"Int", "Int64"},
                                   num \in -(MaxTimestamp + 1)..(MaxTimestamp + 1)}
    \cup {Value("Float", None, num) : num \in Clock}
    \cup {Value(type, None, 0) : type \in {"Null", "Blob", "Datetime"}}

Encode(kind, dt) ==
    /\ cell' = encode(kind, dt)
    /\ wrote' = [kind |-> kind, v |-> dt]
    /\ got' = None

Store(value) ==
    /\ cell' = value
    /\ wrote' = None
    /\ got' = None

Decode(kind) ==
    /\ cell # None
    /\ got' = [kind |-> kind, v |-> decode(kind, cell)]
    /\ UNCHANGED <<cell, wrote>>

ChronoInit == cell = None /\ wrote = None /\ got = None

ChronoNext ==
    \/ \E kind \in DateTimes \cup Naives : \E dt \in ValuesOf(kind) : Encode(kind, dt)
    \/ \E value \in Stored : Store(value)
    \/ \E kind \in DateTimes \cup Naives : Decode(kind)

ChronoSpec == ChronoInit /\ [][ChronoNext]_chronoVars

-----------------------------------------------------------------------------
\* What is read is an error or a value of the type asked for: a naive value
\* and a DateTime<Utc> have no offset, a DateTime<Local> that of the process
\* (Decode for NaiveDateTime takes naive_local of what decode_datetime read).
ChronoTypeOK ==
    /\ cell # None => cell.type \in {"Text", "Int", "Int64", "Float", "Null", "Blob", "Datetime"}
    /\ wrote # None => wrote.v \in ValuesOf(wrote.kind) /\ cell.type = "Text"
    /\ got # None /\ got.v # Error =>
          got.v.off \in CASE got.kind = "DateTime<FixedOffset>" -> Offsets
                          [] got.kind = "DateTime<Local>" -> {Local}
                          [] OTHER -> {0}

\* What Encode stored, Decode of the same type reads back, instant and
\* offset, from a column its type is compatible with: the text encode
\* writes is one decode_datetime_from_text, "%F" and the time formats read.
RoundTrip ==
    wrote # None /\ got # None /\ got.kind = wrote.kind =>
        /\ got.v = wrote.v
        /\ compatible(got.kind, cell.type) /\ compatible(got.kind, type_info(got.kind))

\* A date-time text in any of SQLite's formats is read as the instant it
\* spells, UTC where it names no zone, whoever wrote it: in its loop
\* decode_datetime_from_text tries the parser that keeps the offset before
\* the naive one, which reads the offset and drops it.
TextIsItsInstant ==
    got # None /\ got.kind \in DateTimes /\ cell.type = "Text"
        /\ cell.text.form = "datetime" =>
            got.v # Error /\ got.v.utc = cell.text.wall - cell.text.off

\* A Julian day is read as its instant from 1970 on, and before 1970 never
\* early and less than a second late: decode_datetime_from_float rounds the
\* seconds towards zero and a negative fraction of a second to none.
JulianDayWithinASecond ==
    got # None /\ got.kind \in DateTimes /\ cell.type = "Float" =>
        /\ got.v # Error
        /\ got.v.utc - cell.num \in 0..(Res - 1)
        /\ cell.num >= 0 => got.v.utc = cell.num

=============================================================================
