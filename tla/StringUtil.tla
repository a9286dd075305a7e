----------------------------- MODULE StringUtil -----------------------------
(***************************************************************************)
(* StringUtil (stringutil.h, stringutil.cpp): the functions on strings     *)
(* that search, split, join, trim and convert.  A string is the sequence   *)
(* of its characters.  A call is one step, but for combineToEol(), which   *)
(* callers use in a loop over the lines that it says it consumed.          *)
(***************************************************************************)
EXTENDS Integers, Sequences, SequencesExt

CONSTANTS
    Letters, Quote, Separator, Blank, Eol,  \* characters
    MaxLetters,     \* bound on the length of strings to search and compare
    MaxLength,      \* bound on the length of strings to split
    MaxDistance,    \* bound on the distance of fuzzyIndexOf()
    MaxLines,       \* bound on the lines to combine
    RowSize,        \* 16: the bytes from one row of a hex table to the next
    Thousand        \* 1000, the ratio of G to M, of M to K and of K to a byte

StringAssumption ==
    /\ {MaxLetters, MaxLength, MaxDistance, MaxLines} \subseteq Nat
    /\ RowSize \in Nat \ {0} /\ Thousand \in Nat \ {0, 1}

Words   == BoundedSeq(Letters, MaxLetters)
Strings == BoundedSeq({"a", Quote, Separator, Blank}, MaxLength)
Lines   == {<<"a">>, <<"a", Eol>>, <<>>}

VARIABLES
    call,       \* the function called last
    in,         \* its arguments: strings and a number
    out,        \* its result: strings, a number, the rows of a table
    index,      \* where the loop over combineToEol() has got
    combined    \* what it has collected

stringVars == <<call, in, out, index, combined>>

Calls == {"none", "fuzzyIndexOf", "levenshteinDistance", "splitWithQuotes",
          "toDelimitedString", "indexOfWord", "unquoted", "trimBothEnds", "toHexTable",
          "toKMG", "combineToEol"}

TypeOK == call \in Calls /\ index \in Nat

Arguments(strings, n) == [strings |-> strings, number |-> n]
Result(strings, n) == [strings |-> strings, number |-> n, rows |-> <<>>]

Init ==
    /\ call = "none" /\ in = Arguments(<<>>, 0) /\ out = Result(<<>>, 0)
    /\ index = 0 /\ combined = <<>>

-----------------------------------------------------------------------------
(* Searching                                                               *)

\* Bitap: R[d] is kept as the set of its bits that are zero.  A character leaves
\* the zeros that its mask has too, or, for one more error, those of R[d-1]; a
\* shift to the left moves them up and adds the lowest.
Shift(zeros) == {0} \cup {b + 1 : b \in zeros}

\* A version of NextR that lets a mismatch pass for free.
NextRFree(R, mask, maxDistance) ==
    [d \in 0..maxDistance |->
        Shift(IF d = 0 THEN R[0] \cap mask ELSE R[d - 1] \cup R[d])]

NextR(R, mask, maxDistance) ==
    [d \in 0..maxDistance |->
        Shift(IF d = 0 THEN R[0] \cap mask ELSE R[d - 1] \cup (R[d] \cap mask))]

\* The index of the first match.
FuzzyIndexOf(needle, haystack, maxDistance) ==
    LET m == Len(needle)
        Mask(c) == {i \in 0..(m - 1) : needle[i + 1] = c}
        Scan(acc, i) ==
            LET R == NextR(acc.R, Mask(haystack[i]), maxDistance)
            IN  IF acc.result >= 0 THEN acc
                ELSE [R |-> R, result |-> IF m \in R[maxDistance] THEN i - m ELSE -1]
        start == [R |-> [d \in 0..maxDistance |-> {0}], result |-> -1]
    IN  IF needle = <<>> THEN 0
        ELSE FoldLeftDomain(Scan, start, haystack).result

\* The matrix of Levenshtein, as far as the distance needs it.
LevenshteinDistance(s1, s2) ==
    LET Least(a, b, c) == IF a <= b /\ a <= c THEN a ELSE IF b <= c THEN b ELSE c
        matrix[x \in 0..Len(s2), y \in 0..Len(s1)] ==
            IF x = 0 THEN y ELSE IF y = 0 THEN x
            ELSE Least(matrix[x - 1, y] + 1, matrix[x, y - 1] + 1,
                       matrix[x - 1, y - 1] + IF s1[y] = s2[x] THEN 0 ELSE 1)
    IN  matrix[Len(s2), Len(s1)]

\* The index of a word, the first of which is number zero (and not one, as in the
\* comment of indexOfWord()).
IndexOfWord(s, wordNumber) ==
    LET Step(acc, i) ==
            IF acc.word = wordNumber THEN acc
            ELSE IF s[i] = Blank THEN [acc EXCEPT !.inWhiteSpace = TRUE]
            ELSE IF i = 1 \/ acc.inWhiteSpace
            THEN [word |-> acc.word + 1, inWhiteSpace |-> FALSE, index |-> i - 1]
            ELSE acc
        start == [word |-> -1, inWhiteSpace |-> s # <<>> /\ s[1] = Blank, index |-> -1]
        end == FoldLeftDomain(Step, start, s)
    IN  IF end.word = wordNumber THEN end.index ELSE -1

-----------------------------------------------------------------------------
(* Splitting, trimming and joining                                         *)

\* StringSplitter::performSplit(): a quote ends a part as a separator outside of
\* quotes does; what follows the last of them counts if it is not empty.
KeepEmptyParts == 0
SkipEmptyParts == 1

SplitWithQuotes(s, behavior) ==
    LET AppendCurrent(acc) ==
            [acc EXCEPT !.result = IF acc.current # <<>> \/ behavior = KeepEmptyParts
                                   THEN Append(@, acc.current) ELSE @,
                        !.current = <<>>]
        Step(acc, c) ==
            IF c = Quote THEN [AppendCurrent(acc) EXCEPT !.inQuote = ~@]
            ELSE IF c = Separator /\ ~acc.inQuote THEN AppendCurrent(acc)
            ELSE [acc EXCEPT !.current = Append(@, c)]
        end == FoldLeft(Step, [current |-> <<>>, inQuote |-> FALSE, result |-> <<>>], s)
    IN  IF end.current = <<>> THEN end.result ELSE AppendCurrent(end).result

\* toDelimitedString()
ToDelimitedString(list) ==
    FoldLeftDomain(LAMBDA joined, i : (IF i = 1 THEN <<>> ELSE Append(joined, Separator))
                                          \o list[i],
                   <<>>, list)

\* Of the texts in use, one is that of a UUID.
IsUuid(s) == s = <<"a">>

\* uuidsFromString(): the parts at the separators that are the text of a UUID.
UuidsFromString(s) ==
    LET parts == FoldLeft(LAMBDA acc, c :
                             IF c = Separator THEN Append(acc, <<>>)
                             ELSE [acc EXCEPT ![Len(acc)] = Append(@, c)],
                          <<<<>>>>, s)
    IN  SelectSeq(parts, IsUuid)

\* What lies between the first two quotes, or all of it.
Unquoted(s) ==
    LET first == SelectInSeq(s, LAMBDA c : c = Quote)
        second == SelectInSeq(SubSeq(s, first + 1, Len(s)), LAMBDA c : c = Quote)
    IN  IF first = 0 \/ second = 0 THEN s ELSE SubSeq(s, first + 1, first + second - 1)

Quoted(s) == <<Quote>> \o s \o <<Quote>>

TrimFront(s, chars) ==
    LET kept == SelectInSeq(s, LAMBDA c : c \notin chars)
    IN  IF kept = 0 THEN <<>> ELSE SubSeq(s, kept, Len(s))

TrimEnd(s, chars) == Reverse(TrimFront(Reverse(s), chars))

TrimBothEnds(s, chars) == TrimEnd(TrimFront(s, chars), chars)

\* trimmed() of a list.
Trimmed(list, behavior) ==
    SelectSeq([i \in DOMAIN list |-> TrimBothEnds(list[i], {Blank})],
              LAMBDA s : s # <<>> \/ behavior = KeepEmptyParts)

\* combineToEol(): the lines from an index up to one that ends with Eol.  If none
\* does, one more line is said to be consumed than there are.
CombineToEol(lines, from) ==
    LET ending == {i \in (from + 1)..Len(lines) :
                      lines[i] # <<>> /\ Last(lines[i]) = Eol}
        last == IF ending = {} THEN Len(lines)
                ELSE CHOOSE i \in ending : \A j \in ending : i <= j
    IN  Result(SubSeq(lines, from + 1, last),
               IF ending = {} THEN last - from + 1 ELSE last - from)

\* toHexTable(): the bytes shown in each row.  A row begins RowSize after the one
\* before it, whatever the width.
ToHexTable(length, tableWidth) ==
    [row \in 1..((length + RowSize - 1) \div RowSize) |->
        LET begin == (row - 1) * RowSize
            end == begin + tableWidth
        IN  begin..((IF end < length THEN end ELSE length) - 1)]

\* toKMG(): the number of units and two decimals, in hundredths, rounded to the
\* nearest: to either where both are as near, for a double is rarely half way.
UnitOf(byteCount) ==
    CASE byteCount >= Thousand * Thousand * Thousand -> Thousand * Thousand * Thousand
      [] byteCount >= Thousand * Thousand        -> Thousand * Thousand
      [] byteCount >= Thousand               -> Thousand
      [] OTHER                           -> 1

ToKMG(byteCount) ==
    LET unit == UnitOf(byteCount)
        q == (100 * byteCount) \div unit
        rest == (100 * byteCount) % unit
    IN  {n \in {q, q + 1} : IF n = q THEN 2 * rest <= unit ELSE 2 * rest >= unit}

-----------------------------------------------------------------------------
(* The calls                                                               *)

Return(name, arguments, result) ==
    /\ call = "none" /\ call' = name
    /\ in' = arguments /\ out' = result
    /\ UNCHANGED <<index, combined>>

Search ==
    /\ call = "none"
    /\ \E needle, haystack \in Words, k \in 0..MaxDistance :
           Return("fuzzyIndexOf", Arguments(<<needle, haystack>>, k),
                  Result(<<>>, FuzzyIndexOf(needle, haystack, k)))

Compare ==
    /\ call = "none"
    /\ \E s, t \in Words :
           Return("levenshteinDistance", Arguments(<<s, t>>, 0),
                  Result(<<>>, LevenshteinDistance(s, t)))

Split ==
    /\ call = "none"
    /\ \E s \in Strings, behavior \in {KeepEmptyParts, SkipEmptyParts} :
           Return("splitWithQuotes", Arguments(<<s>>, behavior),
                  Result(SplitWithQuotes(s, behavior), 0))

Join ==
    /\ call = "none"
    /\ \E list \in BoundedSeq({<<>>, <<"a">>, <<Blank, "a">>, <<"a", Quote>>}, MaxLength) :
           Return("toDelimitedString", Arguments(list, 0),
                  Result(<<ToDelimitedString(list)>>, 0))

FindWord ==
    /\ call = "none"
    /\ \E s \in Strings, n \in 0..2 :
           Return("indexOfWord", Arguments(<<s>>, n), Result(<<>>, IndexOfWord(s, n)))

Unquote ==
    /\ call = "none"
    /\ \E s \in Strings :
           Return("unquoted", Arguments(<<s>>, 0), Result(<<Unquoted(Quoted(s))>>, 0))

Trim ==
    /\ call = "none"
    /\ \E s \in Strings :
           Return("trimBothEnds", Arguments(<<s>>, 0),
                  Result(<<TrimBothEnds(s, {Blank, Separator})>>, 0))

\* Tables of the default width, and of twice that.
Table ==
    /\ call = "none"
    /\ \E length \in 0..(3 * RowSize), rows \in 1..2 :
           Return("toHexTable", Arguments([r \in 1..rows |-> <<>>], length),
                  [Result(<<>>, 0) EXCEPT !.rows = ToHexTable(length, rows * RowSize)])

\* Around the limits of the units.
Abbreviate ==
    /\ call = "none"
    /\ \E limit \in {1, Thousand, Thousand * Thousand, Thousand * Thousand * Thousand}, factor \in 1..(Thousand + 1),
          delta \in -6..6 :
           LET byteCount == limit * factor + delta
           IN  /\ byteCount >= 0
               /\ \E n \in ToKMG(byteCount) :
                      Return("toKMG", Arguments(<<>>, byteCount), Result(<<>>, n))

BeginCombining ==
    /\ call = "none" /\ call' = "combineToEol"
    /\ \E list \in BoundedSeq(Lines, MaxLines) : in' = Arguments(list, 0)
    /\ UNCHANGED <<out, index, combined>>

Combine ==
    /\ call = "combineToEol" /\ index < Len(in.strings)
    /\ out' = CombineToEol(in.strings, index)
    /\ index' = index + out'.number
    /\ combined' = combined \o out'.strings
    /\ UNCHANGED <<call, in>>

Next ==
    \/ Search \/ Compare \/ Split \/ Join \/ FindWord \/ Unquote \/ Trim \/ Table
    \/ Abbreviate \/ BeginCombining \/ Combine

Spec == Init /\ [][Next]_stringVars

-----------------------------------------------------------------------------
(* Correctness                                                             *)

Least(S) == CHOOSE n \in S : \A m \in S : n <= m

\* What fuzzyIndexOf() finds begins a part of the haystack within maxDistance of the
\* needle by levenshteinDistance(), which is the distance that its comment names
\* (stringutil.h:207-214).  It only ever replaces characters: where at most
\* maxDistance of them differ, it finds that place or an earlier one.
SearchIsNear ==
    call = "fuzzyIndexOf" =>
        LET needle == in.strings[1]
            haystack == in.strings[2]
            Differ(i) == {j \in DOMAIN needle : needle[j] # haystack[i + j]}
            matches == {i \in 0..(Len(haystack) - Len(needle)) :
                           Cardinality(Differ(i)) <= in.number}
        IN  /\ out.number # -1 =>
                  \E end \in out.number..Len(haystack) :
                      LevenshteinDistance(needle, SubSeq(haystack, out.number + 1, end))
                          <= in.number
            /\ \A i \in matches : out.number \in 0..i

OneEdit(s) ==
    {RemoveAt(s, i) : i \in DOMAIN s}
    \cup {InsertAt(s, i, c) : i \in 1..(Len(s) + 1), c \in Letters}
    \cup {[s EXCEPT ![i] = c] : i \in DOMAIN s, c \in Letters}

\* The distance is that of the shortest chain of edits: zero for equal strings
\* only, and otherwise one more than the least after one edit.
DistanceIsExact ==
    call = "levenshteinDistance" =>
        LET s == in.strings[1]
            t == in.strings[2]
        IN  out.number = IF s = t THEN 0
                         ELSE 1 + Least({LevenshteinDistance(e, t) : e \in OneEdit(s)})

\* splitWithQuotes() cuts at every quote and at every separator that an even number
\* of quotes precede; an empty piece at the end is dropped even if others are kept.
SplitIsCut ==
    call = "splitWithQuotes" =>
        LET s == in.strings[1]
            Quotes(i) == Cardinality({j \in 1..(i - 1) : s[j] = Quote})
            cuts == {i \in DOMAIN s : s[i] = Quote \/ (s[i] = Separator /\ Quotes(i) % 2 = 0)}
            at == SetToSortSeq(cuts \cup {0, Len(s) + 1}, LAMBDA i, j : i < j)
            pieces == [k \in 1..(Len(at) - 1) |-> SubSeq(s, at[k] + 1, at[k + 1] - 1)]
            kept == IF Last(pieces) = <<>> THEN Front(pieces) ELSE pieces
        IN  out.strings = IF in.number = KeepEmptyParts THEN kept
                          ELSE SelectSeq(pieces, LAMBDA p : p # <<>>)

\* UUIDs that are joined are found again among other texts.  A list that is joined is
\* split into the same list, but for empty strings at its end,
\* and into the words of it if empty ones are skipped.
JoinedIsSplit ==
    call = "toDelimitedString" =>
        LET list == in.strings
            joined == out.strings[1]
            words == SelectSeq(list, LAMBDA s : s # <<>>)
            kept == IF list # <<>> /\ Last(list) = <<>> THEN Front(list) ELSE list
        IN  /\ UuidsFromString(joined) = SelectSeq(list, IsUuid)
            /\ (\A i \in DOMAIN list : ~Contains(list[i], Quote)) =>
                /\ SplitWithQuotes(joined, KeepEmptyParts) = kept
                /\ SplitWithQuotes(joined, SkipEmptyParts) = words
                /\ Trimmed(SplitWithQuotes(joined, KeepEmptyParts), SkipEmptyParts)
                       = [i \in DOMAIN words |-> <<"a">>]

\* A word begins where a character follows a blank or nothing.  indexOfWord() finds
\* every word, under numbers in the order of the words, and nothing else.  (Which
\* number is the first, the code and its comment see differently: stringutil.h:200-202.)
WordIsFound ==
    call = "indexOfWord" =>
        LET s == in.strings[1]
            Begins(i) == s[i + 1] # Blank /\ (i = 0 \/ s[i] = Blank)
            begins == {i \in 0..(Len(s) - 1) : Begins(i)}
            later == {i \in begins : i > out.number}
        IN  /\ out.number \in begins \cup {-1}
            /\ out.number # -1 =>
                  IndexOfWord(s, in.number + 1) = IF later = {} THEN -1 ELSE Least(later)
            /\ begins \subseteq {IndexOfWord(s, n) : n \in 0..Cardinality(begins)}

\* quoted() is undone by unquoted() unless the string has quotes itself.
QuotesComeOff ==
    call = "unquoted" => Contains(in.strings[1], Quote) \/ out.strings = in.strings

\* Trimming takes away the given characters at the ends and nothing else.
EndsAreTrimmed ==
    call = "trimBothEnds" =>
        LET s == in.strings[1]
            core == {i \in DOMAIN s : s[i] \notin {Blank, Separator}}
        IN  out.strings[1] =
                IF core = {} THEN <<>>
                ELSE SubSeq(s, Least(core), CHOOSE i \in core : \A j \in core : j <= i)

\* A loop over combineToEol() combines every line once and in order, and may end
\* one beyond the last.
EveryLineIsCombined ==
    call = "combineToEol" =>
        LET n == Len(in.strings)
        IN  /\ combined = SubSeq(in.strings, 1, IF index < n THEN index ELSE n)
            /\ index <= n + 1

\* A table of the default width shows every byte once.
EveryByteIsShown ==
    call = "toHexTable" /\ Len(in.strings) = 1 =>
        \A byte \in 0..(in.number - 1) :
            Cardinality({row \in DOMAIN out.rows : byte \in out.rows[row]}) = 1

\* A byte count is abbreviated to within half a hundredth of its unit, and a larger
\* count never to less, although the last counts of one unit round up to the next.
CountsAreNear ==
    call = "toKMG" =>
        LET unit == UnitOf(in.number)
        IN  /\ 2 * (out.number * unit - 100 * in.number) \in -unit..unit
            /\ out.number <= 100 * Thousand \/ in.number >= Thousand * Thousand * Thousand
            /\ out.number >= 100 \/ in.number = 0
            /\ \A n \in ToKMG(in.number + 1) :
                  n * UnitOf(in.number + 1) >= out.number * unit

\* The functions on strings return what their definitions in terms of positions,
\* edits and pieces say.
TextAlgorithmsAgree ==
    /\ SearchIsNear /\ DistanceIsExact /\ SplitIsCut /\ JoinedIsSplit /\ WordIsFound
    /\ QuotesComeOff /\ EndsAreTrimmed /\ EveryLineIsCombined /\ EveryByteIsShown
    /\ CountsAreNear

=============================================================================
