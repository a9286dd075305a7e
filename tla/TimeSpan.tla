------------------------------ MODULE TimeSpan ------------------------------
(***************************************************************************)
(* TimeSpan (timespan.h, timespan.cpp): a count of nanoseconds, its parts, *)
(* its arithmetic, and its texts, written and read back.                   *)
(*                                                                         *)
(* The arithmetic goes through doubles, which hold every integer up to     *)
(* Exact and beyond it only multiples of a power of two.  The sizes of the *)
(* units are constants: TLC's integers have 32 bits.  A text is the        *)
(* sequence of its characters.                                             *)
(***************************************************************************)
EXTENDS Integers, Sequences, SequencesExt

CONSTANTS
    Kilo,           \* 1000: ns in a us, us in a ms, ms in a second
    KiloDigits,     \* 3: the digits that count to Kilo
    SecondsPerMinute, MinutesPerHour, HoursPerDay,
    HoursPerYear,   \* DaysPerYear, 365.242, is no whole number of days
    Exact,          \* 2^53
    Parts,          \* arguments of the constructor, from days to nanoseconds
    Operands,       \* spans to add and subtract
    Factors,        \* whole numbers to multiply with and divide by
    Texts,          \* texts a user may enter
    MaxOperations   \* bound on the operations before the span is written

Microsecond == Kilo
Millisecond == Kilo * Microsecond
Second      == Kilo * Millisecond
Minute      == SecondsPerMinute * Second
Hour        == MinutesPerHour * Minute
Day         == HoursPerDay * Hour
Year        == HoursPerYear * Hour

TimeSpanAssumption ==
    /\ {Kilo, KiloDigits, SecondsPerMinute, MinutesPerHour, HoursPerDay,
        HoursPerYear, Exact} \subseteq Nat \ {0}
    /\ Kilo = 10^KiloDigits
    /\ Operands \subseteq Int /\ Factors \subseteq Int \ {0}
    /\ MaxOperations \in Nat

VARIABLES
    span,       \* _nanoseconds
    valid,      \* _valid
    operations, \* the operations since it was constructed
    stage,      \* "new", "span", "text" or "read"
    format,     \* of the text
    text,
    readBack,   \* what fromString() returned
    parsed      \* and its *parsed: "untouched" if it did not assign it

spanVars == <<span, valid, operations, stage, format, text, readBack, parsed>>

Formats == {"Auto", "AutoMicroseconds", "NoMilliseconds", "Abbreviated", "entered"}

TypeOK ==
    /\ span \in Int /\ readBack \in Int
    /\ valid \in BOOLEAN
    /\ operations \in 0..MaxOperations
    /\ stage \in {"new", "span", "text", "read"}
    /\ format \in Formats
    /\ parsed \in {"TRUE", "FALSE", "untouched"}

Init ==
    /\ span = 0 /\ valid = TRUE /\ operations = 0
    /\ stage = "new" /\ format = "Auto" /\ text = <<>>
    /\ readBack = 0 /\ parsed = "untouched"

-----------------------------------------------------------------------------
(* Numbers                                                                 *)

Abs(n) == IF n < 0 THEN -n ELSE n

\* The integer division of C++ rounds towards zero.
Quotient(n, d) ==
    IF (n < 0) = (d < 0) THEN Abs(n) \div Abs(d) ELSE -(Abs(n) \div Abs(d))

\* The distance between doubles next to m.
Grain[m \in Nat] == IF m <= Exact THEN 1 ELSE 2 * Grain[(m + 1) \div 2]

\* The nearest double, the even one of two.
Double(n) ==
    LET g == Grain[Abs(n)]
        q == n \div g
        r == n % g
    IN  IF 2 * r > g \/ (2 * r = g /\ q % 2 = 1) THEN (q + 1) * g ELSE q * g

-----------------------------------------------------------------------------
(* The parts of a span                                                     *)

\* value -= count * unit, where unit is a double.
Less(value, count, unit) == Double(Double(value) - Double(count * unit))

\* Each part is what its unit goes into what the larger ones left.
TakePart(broken, unit) ==
    LET count == Quotient(broken.left, unit)
    IN  [counts |-> Append(broken.counts, count), left |-> Less(broken.left, count, unit)]

Breakdown(n) ==
    FoldLeft(TakePart, [counts |-> <<>>, left |-> n], <<Day, Hour, Minute, Second>>)

Days(n)    == Quotient(n, Day)
Hours(n)   == Breakdown(n).counts[2]
Minutes(n) == Breakdown(n).counts[3]
Seconds(n) == Breakdown(n).counts[4]

\* nanoseconds(), microseconds() and milliseconds() are all that is left of the
\* second, in their unit: the first two count beyond Kilo.
Nanoseconds(n)   == Breakdown(n).left
Microseconds(n)  == Quotient(Nanoseconds(n), Microsecond)
Milliseconds(n)  == Quotient(Nanoseconds(n), Millisecond)

\* The constructor: each summand is added to a qint64 in doubles.
FromUnits(counts) ==
    LET units == <<Day, Hour, Minute, Second, Millisecond, Microsecond, 1>>
        Add(sum, i) == Double(Double(sum) + Double(counts[i] * units[i]))
    IN  FoldLeft(Add, 0, <<1, 2, 3, 4, 5, 6, 7>>)

\* fromNanoseconds() to fromDays(): a constructor with one argument that counts.
From(count, unit)    == Double(count * unit)
FromNanoseconds(n)   == From(n, 1)
FromMilliseconds(n)  == From(n, Millisecond)

\* The highest power of two in q.
Leading[q \in Nat] == IF q < 2 THEN 1 ELSE 2 * Leading[q \div 2]

\* totalSeconds() and its kin, cut off to a whole number: the quotient of two doubles
\* is a double, and one that is as near to the next whole number as the doubles there
\* are to each other has become it.
WholeTotal(n, unit) ==
    LET size == Abs(Double(n))
        q == size \div unit
        missing == unit - (size % unit)
        whole == IF missing < unit /\ missing <= unit \div (Exact \div Leading[q])
                 THEN q + 1 ELSE q
    IN  IF n < 0 THEN -whole ELSE whole

\* toTimeSpec(), and the assignment of a timespec, whose wrapping product cancels out.
ToTimeSpec(n) ==
    [sec |-> WholeTotal(n, Second), nsec |-> n - Second * Quotient(n, Second)]

FromTimeSpec(ts) == ts.sec * Second + ts.nsec

AbsoluteValue(n) == FromNanoseconds(Abs(n))

\* addNanoseconds() to addDays()
Add(n, count, unit) == FromNanoseconds(Double(Double(n) + Double(count * unit)))

\* The difference of two times in milliseconds: then - now, or its size.
Diff(now, then) == FromMilliseconds(then - now)

AbsDiff(t1, t2) ==
    IF t1 > t2 THEN FromMilliseconds(t1 - t2) ELSE FromMilliseconds(t2 - t1)

-----------------------------------------------------------------------------
(* Writing                                                                 *)

DigitNames == <<"0", "1", "2", "3", "4", "5", "6", "7", "8", "9">>

Decimal[n \in Nat] ==
    IF n < 10 THEN <<DigitNames[n + 1]>>
    ELSE Append(Decimal[n \div 10], DigitNames[(n % 10) + 1])

\* arg(n, width, 10, '0')
Field(n, width) ==
    LET d == Decimal[n]
    IN  [i \in 1..(width - Len(d)) |-> "0"] \o d

Clock(n, micro) ==
    Field(Hours(n), 2) \o <<":">> \o Field(Minutes(n), 2) \o <<":">>
    \o Field(Seconds(n), 2) \o <<".">>
    \o IF micro THEN Field(Microseconds(n), 2 * KiloDigits)
                ELSE Field(Milliseconds(n), KiloDigits)

\* toString(microseconds): a clock, after the days and ".:" if there are any; or,
\* below a millisecond, microseconds with decimals.
ToText(n, micro) ==
    LET size == FromNanoseconds(Abs(n))
        unsigned ==
            IF Abs(n) < Millisecond
            THEN Decimal[size \div Microsecond] \o <<".">>
                 \o Field(size % Microsecond, KiloDigits) \o <<"u", "s">>
            ELSE IF Days(n) = 0 THEN Clock(size, micro)
            ELSE Decimal[Days(size)] \o <<".", ":">> \o Clock(size, micro)
    IN  IF n < 0 THEN <<"-">> \o unsigned ELSE unsigned

\* toString(NoMilliseconds): up to the last point.
NoMilliseconds(n) ==
    LET full == ToText(n, FALSE)
        points == {i \in 2..Len(full) : full[i] = "."}
    IN  IF points = {} THEN full
        ELSE SubSeq(full, 1, (CHOOSE i \in points : \A j \in points : j <= i) - 1)

Blank == " "

Trimmed(t) ==
    LET ink == {i \in 1..Len(t) : t[i] # Blank}
    IN  IF ink = {} THEN <<>>
        ELSE SubSeq(t, CHOOSE i \in ink : \A j \in ink : i <= j,
                       CHOOSE i \in ink : \A j \in ink : j <= i)

\* toAbbreviatedFormat(true): a part that is zero is left out.  What is left of
\* the days after whole years is a fraction, whose hours are not the ones shown.
ToAbbreviatedFormat(n) ==
    LET size == Abs(n)
        years == IF size > Year THEN size \div Year ELSE 0
        Part(count, unit) == IF count = 0 THEN <<>>
                             ELSE Decimal[count] \o unit \o <<Blank>>
    IN  IF n = 0 THEN <<"0", "m">>
        ELSE Trimmed((IF n < 0 THEN <<"-">> ELSE <<>>)
                     \o Part(years, <<"y">>)
                     \o Part((size - years * Year) \div Day, <<"d">>)
                     \o Part(Hours(size), <<"h">>)
                     \o Part(Minutes(size), <<"m">>)
                     \o Part(Seconds(size), <<"s">>)
                     \o Part(Milliseconds(size), <<"m", "s">>))

Written(n, how) ==
    CASE how = "Auto"             -> ToText(n, FALSE)
      [] how = "AutoMicroseconds" -> ToText(n, TRUE)
      [] how = "NoMilliseconds"   -> NoMilliseconds(n)
      [] how = "Abbreviated"      -> ToAbbreviatedFormat(n)

-----------------------------------------------------------------------------
(* Reading                                                                 *)

IsDigit(c) == c \in ToSet(DigitNames)

IsLetter(c) == ~IsDigit(c) /\ c \notin {Blank, ":", ".", "-"}

\* The number that digits write, if they are digits.
Number(t) ==
    FoldLeft(LAMBDA sum, c : 10 * sum + SelectInSeq(DigitNames, LAMBDA d : d = c) - 1, 0, t)

IsNumber(t) == t # <<>> /\ \A i \in DOMAIN t : IsDigit(t[i])

\* QString::toInt(): zero for what is no integer.
IsInt(t) ==
    LET u == Trimmed(t)
    IN  IsNumber(u) \/ (u # <<>> /\ u[1] = "-" /\ IsNumber(Tail(u)))

ToInt(t) ==
    LET u == Trimmed(t)
    IN  IF IsNumber(u) THEN Number(u) ELSE IF IsInt(t) THEN -Number(Tail(u)) ELSE 0

\* The pieces of a decimal fraction.
WholePart(t) ==
    LET u == Trimmed(t)
    IN  Number(SelectSeq(SubSeq(u, 1, SelectInSeq(u \o <<".">>, LAMBDA c : c = ".") - 1), IsDigit))

Decimals(t) ==
    LET u == Trimmed(t)
    IN  SelectSeq(SubSeq(u, SelectInSeq(u \o <<".">>, LAMBDA c : c = ".") + 1, Len(u)), IsDigit)

\* The fraction in units of which per make a whole, rounded.
Fraction(t, per) ==
    LET d == Decimals(t)
        whole == 10^Len(d)
    IN  (2 * Number(d) * per + whole) \div (2 * whole)

\* getTokens(): the words of a text.
Words(t) ==
    {SubSeq(t, b[1], b[2]) : b \in
        {b \in (1..Len(t)) \X (1..Len(t)) :
            /\ b[1] <= b[2]
            /\ \A i \in b[1]..b[2] : IsLetter(t[i])
            /\ b[1] > 1 => ~IsLetter(t[b[1] - 1])
            /\ b[2] < Len(t) => ~IsLetter(t[b[2] + 1])}}

\* indexOf(): the number of characters before the first occurrence, or -1.
IndexOf(t, word) ==
    LET at == {i \in 0..(Len(t) - Len(word)) : SubSeq(t, i + 1, i + Len(word)) = word}
    IN  IF at = {} THEN -1 ELSE CHOOSE i \in at : \A j \in at : i <= j

\* parseIntToToken(): the number before the first occurrence of a token that is a
\* word of its own; what is dropped is twice as long as the number.
ParseIntToToken(remaining, token) ==
    LET index == IndexOf(remaining, token)
        end == index + Len(token)
        part == SubSeq(remaining, 1, index)
    IN  IF /\ index > 0
           /\ ~IsLetter(remaining[index])
           /\ end < Len(remaining) => ~IsLetter(remaining[end + 1])
        THEN [value |-> ToInt(part),
              remaining |-> Trimmed(SubSeq(remaining, Len(part) + index + 1, Len(remaining)))]
        ELSE [value |-> -1, remaining |-> remaining]

\* parseAbbreviatedString(): numbers that are found and not negative count.
ParseAbbreviatedString(t) ==
    LET units == <<<<<<"d">>, Day>>, <<<<"h">>, Hour>>, <<<<"m">>, Minute>>,
                   <<<<"s">>, Second>>, <<<<"m", "s">>, Millisecond>>>>
        Read(acc, unit) ==
            LET found == ParseIntToToken(acc.remaining, unit[1])
            IN  IF found.value < 0 THEN [acc EXCEPT !.remaining = found.remaining]
                ELSE [span |-> acc.span + From(found.value, unit[2]),
                      parsed |-> "TRUE", remaining |-> found.remaining]
        start == [span |-> 0, parsed |-> "FALSE", remaining |-> Trimmed(t)]
        result == FoldLeft(Read, start, units)
    IN  [span |-> result.span, parsed |-> result.parsed]

\* split(':')
Split(t) ==
    LET Cut(parts, c) == IF c = ":" THEN Append(parts, <<>>)
                         ELSE [parts EXCEPT ![Len(parts)] = Append(@, c)]
    IN  FoldLeft(Cut, <<<<>>>>, t)

\* parseColonDelimitedString(): from the right, seconds with milliseconds, minutes,
\* hours, days.
ParseColonDelimitedString(t) ==
    LET parts == Split(t)
        k == Len(parts)
        IntAt(i) == IF i < 1 THEN 0 ELSE ToInt(parts[i])
    IN  [span |-> FromUnits(<<IntAt(k - 3), IntAt(k - 2), IntAt(k - 1),
                              WholePart(parts[k]), Fraction(parts[k], Kilo), 0, 0>>),
         parsed |-> "TRUE"]

\* parseMicrosecondString() and parseMillisecondString(): what the decimals come
\* to may fall below a nanosecond in binary, which is then lost.
ParseDecimal(t, unitWord, unit) ==
    LET number == SubSeq(t, 1, IndexOf(t, unitWord))
        exact == WholePart(number) * unit + Fraction(number, unit)
    IN  {[span |-> n, parsed |-> "TRUE"] :
            n \in {exact} \cup IF Decimals(number) = <<>> THEN {} ELSE {exact - 1}}

\* fromString(): the results a text may have.  One that matches nothing is zero,
\* and *parsed is left as it was.
FromString(t) ==
    LET words == Words(t)
        Zero(how) == [span |-> 0, parsed |-> how]
    IN  IF words \cap {<<"d">>, <<"h">>, <<"m">>, <<"s">>} # {}
        THEN {ParseAbbreviatedString(t)}
        ELSE IF Contains(t, ":") THEN {ParseColonDelimitedString(t)}
        ELSE IF t = <<>> \/ ~IsDigit(t[1]) THEN {Zero("untouched")}
        ELSE IF <<"u", "s">> \in words THEN ParseDecimal(t, <<"u", "s">>, Microsecond)
        ELSE IF <<"m", "s">> \in words THEN ParseDecimal(t, <<"m", "s">>, Millisecond)
        ELSE IF IsInt(t) THEN {[span |-> FromMilliseconds(ToInt(t)), parsed |-> "TRUE"]}
        ELSE {Zero("FALSE")}

-----------------------------------------------------------------------------
(* The operations                                                          *)

Construct ==
    /\ stage = "new"
    /\ \/ \E counts \in Parts : span' = FromUnits(counts) /\ valid' = TRUE
       \/ span' = 0 /\ valid' = FALSE           \* invalid()
    /\ stage' = "span"
    /\ UNCHANGED <<operations, format, text, readBack, parsed>>

\* Every operator and every add...() makes a TimeSpan of its own, which is valid
\* whatever its operands were.
Operate(result) ==
    /\ stage = "span" /\ operations < MaxOperations
    /\ span' = result /\ valid' = TRUE
    /\ operations' = operations + 1
    /\ UNCHANGED <<stage, format, text, readBack, parsed>>

Plus     == \E other \in Operands : Operate(span + other)
Minus    == \E other \in Operands : Operate(span - other)
Divide   == \E f \in Factors : Operate(Quotient(span, f))
Multiply == Abs(span) <= Day /\ \E f \in Factors : Operate(Double(Double(span) * f))
AddUnit  == \E unit \in {1, Microsecond, Millisecond, Second, Minute, Hour, Day} :
                Operate(Add(span, 1, unit))
Negative == Operate(Diff(Quotient(span, Millisecond), 0))
Size     == Operate(AbsoluteValue(span)) \/ Operate(AbsDiff(0, Quotient(span, Millisecond)))

Write ==
    /\ stage = "span"
    /\ \E how \in Formats \ {"entered"} :
           format' = how /\ text' = Written(span, how)
    /\ stage' = "text"
    /\ UNCHANGED <<span, valid, operations, readBack, parsed>>

Enter ==
    /\ stage = "new"
    /\ text' \in Texts
    /\ format' = "entered"
    /\ stage' = "text"
    /\ UNCHANGED <<span, valid, operations, readBack, parsed>>

Read ==
    /\ stage = "text"
    /\ \E result \in FromString(text) :
           readBack' = result.span /\ parsed' = result.parsed
    /\ stage' = "read"
    /\ UNCHANGED <<span, valid, operations, format, text>>

Next ==
    \/ Construct \/ Enter
    \/ Plus \/ Minus \/ Divide \/ Multiply \/ AddUnit \/ Negative \/ Size
    \/ Write \/ Read

Spec == Init /\ [][Next]_spanVars

-----------------------------------------------------------------------------
(* Correctness                                                             *)

\* The parts of a span that a double holds make up the span, each within its unit
\* and of the sign of the span, and a timespec carries all of it: although every
\* part is reached by subtracting the larger ones in floating point.  Beyond Exact
\* the rounding can carry into the hours (days() 104, hours() 24).
PartsAddUp ==
    Abs(span) <= Exact =>
        LET parts == <<Days(span), Hours(span), Minutes(span), Seconds(span),
                       Nanoseconds(span)>>
            units == <<Day, Hour, Minute, Second, 1>>
        IN  /\ FoldLeft(LAMBDA sum, i : sum + parts[i] * units[i], 0, <<1, 2, 3, 4, 5>>) = span
            /\ \A i \in 2..5 : Abs(parts[i]) * units[i] < units[i - 1]
            /\ \A i \in 1..5 : IF span < 0 THEN parts[i] <= 0 ELSE parts[i] >= 0
            /\ FromTimeSpec(ToTimeSpec(span)) = span
            /\ \A i \in 1..4 :
                  WholeTotal(span, units[i]) * units[i] =
                      FoldLeft(LAMBDA sum, j : sum + parts[j] * units[j], 0, [j \in 1..i |-> j])

\* What a clock text is read back as, for a span of less than a day (the days of a
\* longer one are lost): in the Auto form all but what is below a millisecond, in the
\* form with microseconds the span give or take half a millisecond, and without
\* milliseconds all but what is below a second; a span below a millisecond to a
\* nanosecond.  toString() and fromString() choose among their forms by different tests.
ClockReadsBack ==
    stage = "read" /\ span \in 0..(Day - 1) =>
        LET lost == span - readBack
        IN  IF span < Millisecond
            THEN format \in {"Auto", "AutoMicroseconds"} => lost \in 0..1
            ELSE /\ format = "Auto" => lost \in 0..(Millisecond - 1)
                 /\ format = "AutoMicroseconds" => 2 * Abs(lost) <= Millisecond
                 /\ format = "NoMilliseconds" => lost \in 0..(Second - 1)

\* The abbreviated text of a span below 100 days reads back to the millisecond,
\* whichever of its parts are left out, although parseIntToToken() drops the wrong
\* number of characters (a number of three digits loses what follows it).
AbbreviatedReadsBack ==
    stage = "read" /\ format = "Abbreviated" /\ span \in 0..(100 * Day - 1) /\ span <= Year =>
        span - readBack \in 0..(Millisecond - 1)

=============================================================================
