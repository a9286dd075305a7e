----------------------------- MODULE TimeRanges -----------------------------
(***************************************************************************)
(* DateRange and TimeSpanRange (daterange.h, daterange.cpp,                *)
(* timespanrange.h, timespanrange.cpp): ranges between two times, or two   *)
(* offsets, and lists of them.  Times count milliseconds and offsets the   *)
(* unit of TimeSpan, of which a millisecond has PerMillisecond: what is    *)
(* added to a time is cut to milliseconds first.                           *)
(***************************************************************************)
EXTENDS Integers, Sequences, SequencesExt

CONSTANTS
    Points,         \* times, or offsets: a bound on what ranges may reach
    Spans,          \* TimeSpans, in their own unit
    PerMillisecond,
    MaxRanges       \* bound on the ranges of a list

RangeAssumption ==
    /\ Points \subseteq Int /\ 0 \in Points /\ Spans \subseteq Int
    /\ PerMillisecond \in Nat \ {0} /\ MaxRanges \in Nat

VARIABLES
    kind,           \* "DateRange" or "TimeSpanRange"
    list,           \* a list of ranges
    consolidated    \* what consolidated() made of it, with no range until then

rangeVars == <<kind, list, consolidated>>

Between(start, end) == [start |-> start, end |-> end, valid |-> TRUE]

\* DateRange(), of two QDateTimes that are not valid, and TimeSpanRange(), of two
\* offsets of zero, which are.
Empty == [start |-> 0, end |-> 0, valid |-> kind = "TimeSpanRange"]

IsValid(r) == r.valid

TypeOK ==
    /\ kind \in {"DateRange", "TimeSpanRange"}
    /\ \A i \in DOMAIN list : list[i] \in [start : Int, end : Int, valid : BOOLEAN]
    /\ Len(list) <= MaxRanges /\ Len(consolidated) <= MaxRanges

Init ==
    /\ kind \in {"DateRange", "TimeSpanRange"}
    /\ list = <<>> /\ consolidated = <<>>

-----------------------------------------------------------------------------
(* One range                                                               *)

Quotient(n, d) == IF n < 0 THEN -((-n) \div d) ELSE n \div d

\* A TimeSpan in the unit of the points: addMSecs(totalMilliseconds()) cuts it off.
Amount(span) == IF kind = "DateRange" THEN Quotient(span, PerMillisecond) ELSE span

Half(span) == Quotient(span, 2)

FromStartAndDuration(start, duration) == Between(start, start + Amount(duration))

FromMidpoint(midpoint, duration) ==
    Between(midpoint - Amount(Half(duration)), midpoint + Amount(Half(duration)))

\* duration() of a DateRange is an absDiff().
Duration(r) ==
    IF kind = "DateRange" /\ r.end < r.start THEN r.start - r.end ELSE r.end - r.start

Midpoint(r) == r.start + Half(Duration(r))

Plus(r, span) == Between(r.start + Amount(span), r.end + Amount(span))

Minus(r, span) == Between(r.start - Amount(span), r.end - Amount(span))

ContainsPoint(r, p) == p >= r.start /\ p <= r.end

Later(p, q) == IF p < q THEN q ELSE p

Earlier(p, q) == IF q < p THEN q ELSE p

\* DateRange::intersects()
Intersects(r, s) ==
    \/ ContainsPoint(r, s.start) \/ ContainsPoint(r, s.end)
    \/ ContainsPoint(s, r.start) \/ ContainsPoint(s, r.end)

\* Ranges that have no more than a point in common have no range in common.
SubRange(r, s) ==
    LET result == Between(Later(r.start, s.start), Earlier(r.end, s.end))
    IN  IF result.end > result.start THEN result ELSE Empty

Merged(r, s) == Between(Earlier(r.start, s.start), Later(r.end, s.end))

-----------------------------------------------------------------------------
(* List::consolidated()                                                    *)

\* A version of Merge that takes over the end of every range it merges.
MergeToLast(ranges, next) ==
    LET current == Last(ranges)
    IN  IF current.end >= next.start
        THEN [ranges EXCEPT ![Len(ranges)] = Between(current.start, next.end)]
        ELSE Append(ranges, next)

\* The ranges so far, of which the last is "current", and the next one.
Merge(ranges, next) ==
    LET current == Last(ranges)
    IN  IF current.end >= next.start
        THEN [ranges EXCEPT ![Len(ranges)] =
                 Between(current.start, Later(current.end, next.end))]
        ELSE Append(ranges, next)

\* The sorted copy counts for a list of fewer than two only: the ranges are taken
\* in the order of the list itself.
Consolidated(ranges) ==
    LET others == Len(ranges) - 1
        merged[n \in 0..others] ==
            IF n = 0 THEN <<Head(ranges)>> ELSE Merge(merged[n - 1], ranges[n + 1])
    IN  IF Len(ranges) < 2 THEN ranges ELSE merged[others]

-----------------------------------------------------------------------------
(* The operations                                                          *)

\* No range leads out of Points, which bounds the walks of the ranges.
WithinPoints(r) == {r.start, r.end} \subseteq Points

Collect(r) ==
    /\ consolidated = <<>> /\ Len(list) < MaxRanges
    /\ WithinPoints(r)
    /\ list' = Append(list, r)
    /\ UNCHANGED <<kind, consolidated>>

\* Replace the last range of the list by what an operation makes of it.
Change(Operation(_)) ==
    /\ consolidated = <<>> /\ list # <<>> /\ IsValid(Last(list))
    /\ WithinPoints(Operation(Last(list)))
    /\ list' = [list EXCEPT ![Len(list)] = Operation(Last(list))]
    /\ UNCHANGED <<kind, consolidated>>

Construct == \E p, q \in Points : p <= q /\ Collect(Between(p, q))
StartFrom == \E p \in Points, d \in Spans : d >= 0 /\ Collect(FromStartAndDuration(p, d))
Straddle  == \E p \in Points, d \in Spans : d >= 0 /\ Collect(FromMidpoint(p, d))

Move     == \E d \in Spans : Change(LAMBDA r : Plus(r, d)) \/ Change(LAMBDA r : Minus(r, d))
Narrow   == Len(list) > 1 /\ IsValid(list[1]) /\ Change(LAMBDA r : SubRange(r, list[1]))
Widen    == Len(list) > 1 /\ IsValid(list[1]) /\ Change(LAMBDA r : Merged(r, list[1]))

Consolidate ==
    /\ consolidated = <<>> /\ list # <<>>
    /\ \A i \in DOMAIN list : IsValid(list[i])
    /\ consolidated' = Consolidated(list)
    /\ UNCHANGED <<kind, list>>

Next ==
    \/ Construct \/ StartFrom \/ Straddle
    \/ Move \/ Narrow \/ Widen
    \/ Consolidate

Spec == Init /\ [][Next]_rangeVars

-----------------------------------------------------------------------------
(* Correctness                                                             *)

InRange(r, p) == IsValid(r) /\ ContainsPoint(r, p)

InList(ranges, p) == \E i \in DOMAIN ranges : InRange(ranges[i], p)

Sorted == \A i, j \in DOMAIN list : i < j => list[i].start <= list[j].start

\* The ranges of a list in the order of their starts are consolidated to ranges
\* that cover the same times, are in order and do not touch.  (Of a list in any
\* other order this is not so, although the function sorts a copy first.)
ConsolidatedKeepsTimes ==
    consolidated # <<>> /\ Sorted =>
        /\ \A p \in Points : InList(consolidated, p) <=> InList(list, p)
        /\ \A i \in 1..(Len(consolidated) - 1) : consolidated[i].end < consolidated[i + 1].start

\* Two ranges with more than a point in common intersect, and their subRange() has
\* the times of both; merged() has the times of each, and a range moved back and
\* forth or made from its own midpoint is where it was.
RangesAgree ==
    \A i, j \in DOMAIN list :
        LET r == list[i]
            s == list[j]
            common == SubRange(r, s)
        IN  IsValid(r) /\ IsValid(s) =>
            /\ (kind = "DateRange" \/ common # Empty) =>
                   \A p \in Points : InRange(common, p) =>
                       InRange(r, p) /\ InRange(s, p) /\ Intersects(r, s)
            /\ common = Empty => ~\E p \in Points : p < r.end /\ p > r.start /\ p < s.end /\ p > s.start
            /\ \A p \in Points : InRange(r, p) \/ InRange(s, p) => InRange(Merged(r, s), p)
            /\ \A d \in Spans : Minus(Plus(r, d), d) = r
            /\ \A d \in Spans : d >= 0 => Midpoint(FromMidpoint(r.start, d)) = r.start
=============================================================================
