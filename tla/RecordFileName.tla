--------------------------- MODULE RecordFileName ---------------------------
(***************************************************************************)
(* The name a Run Record file is created under, exclusively: application,  *)
(* log identity and the UTC time of its creation, from which a reader must *)
(* be able to tell them again.  An instant is a day since the epoch, a     *)
(* second of that day and a fraction; a name is a sequence of characters,  *)
(* where "x" is a letter or digit, and of the fields of the time.          *)
(***************************************************************************)
EXTENDS Integers, Sequences, SequencesExt

\* A character of an identity, the separator, and anything else.
Punctuation    == {"_", ".", "-"}
NameCharacters == {"x", "+", "/"} \cup Punctuation

-----------------------------------------------------------------------------
(* Identities *)

\* validate_identity
IsIdentity(text, maxLength) ==
    /\ Len(text) \in 1..maxLength
    /\ text[1] = "x"
    /\ ToSet(text) \subseteq {"x"} \cup Punctuation

-----------------------------------------------------------------------------
(* The calendar *)

Truth(b) == IF b THEN 1 ELSE 0

\* civil_from_days: years run from March, in eras of 400 of them.
YearOfEra(dayOfEra) ==
    (dayOfEra - dayOfEra \div 1460 + dayOfEra \div 36524 - dayOfEra \div 146096) \div 365

DateInEra(era, yearOfEra, dayOfYear) ==
    LET march == (5 * dayOfYear + 2) \div 153
        month == IF march < 10 THEN march + 3 ELSE march - 9
    IN  [year  |-> yearOfEra + era * 400 + Truth(month <= 2),
         month |-> month,
         day   |-> dayOfYear - (153 * march + 2) \div 5 + 1]

\* (The variant forgets that a leap century is no leap day.)
CivilJulian(day) ==
    LET shifted   == day + 719468
        era       == shifted \div 146097
        dayOfEra  == shifted - era * 146097
        yearOfEra == (dayOfEra - dayOfEra \div 1460) \div 365
    IN  DateInEra(era, yearOfEra, dayOfEra - (365 * yearOfEra + yearOfEra \div 4))

CivilFromDays(day) ==
    LET shifted   == day + 719468
        era       == shifted \div 146097
        dayOfEra  == shifted - era * 146097
        yearOfEra == YearOfEra(dayOfEra)
    IN  DateInEra(era, yearOfEra,
                  dayOfEra - (365 * yearOfEra + yearOfEra \div 4 - yearOfEra \div 100))

\* utc_parts
UtcParts(instant) ==
    LET date == CivilFromDays(instant.day)
    IN  <<date.year, date.month, date.day,
          instant.second \div 3600, (instant.second % 3600) \div 60, instant.second % 60,
          instant.micro>>

-----------------------------------------------------------------------------

\* path_for.  The compact stamp holds no punctuation at all, so it is kept as
\* its fields.
FileName(application, logId, instant) ==
    [text |-> application \o <<"+">> \o logId \o <<"+">>, stamp |-> UtcParts(instant)]

-----------------------------------------------------------------------------
(* Reference: what a reader makes of a name *)

IsLeap(y) == (y % 4 = 0 /\ y % 100 # 0) \/ y % 400 = 0

MonthLength(y, m) ==
    CASE m = 2 -> IF IsLeap(y) THEN 29 ELSE 28
      [] m \in {4, 6, 9, 11} -> 30
      [] OTHER -> 31

\* Days from the epoch to the first of January of year y.
DaysToYear(y) ==
    LET before(n) == (y - 1) \div n - 1969 \div n
    IN  365 * (y - 1970) + before(4) - before(100) + before(400)

DaysToDate(y, m, d) ==
    LET before[k \in 1..12] == IF k = 1 THEN 0 ELSE before[k - 1] + MonthLength(y, k - 1)
    IN  DaysToYear(y) + before[m] + d - 1

InstantOf(parts) ==
    [day    |-> DaysToDate(parts[1], parts[2], parts[3]),
     second |-> (parts[4] * 60 + parts[5]) * 60 + parts[6],
     micro  |-> parts[7]]

IsUtc(parts) ==
    /\ parts[2] \in 1..12 /\ parts[3] \in 1..MonthLength(parts[1], parts[2])
    /\ parts[4] \in 0..23 /\ parts[5] \in 0..59 /\ parts[6] \in 0..59

\* Every way to read a name as two identities and a time, each followed by "+".
NameReadings(name) ==
    {<<SubSeq(name.text, 1, i - 1), SubSeq(name.text, i + 1, Len(name.text) - 1), InstantOf(name.stamp)>> :
        i \in {i \in 1..(Len(name.text) - 1) : name.text[i] = "+"}}
=============================================================================
