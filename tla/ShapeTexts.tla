----------------------------- MODULE ShapeTexts -----------------------------
(***************************************************************************)
(* The texts of points, lines and rectangles (geometry/point, line,        *)
(* rectangle, flatgeo): written and read back.  A text is a sequence of    *)
(* characters, in which the digits of one number are one.                  *)
(***************************************************************************)
EXTENDS FlatGeometry

Char(c)   == [char |-> c, value |-> 0]
Digits(n) == [char |-> "digits", value |-> n]

Is(t, c) == t.char = c

\* A number as QString::arg() writes it.
Decimal(n) == IF n < 0 THEN <<Char("-"), Digits(-n)>> ELSE <<Digits(n)>>

IsSign(t) == t.char \in {"+", "-"}

\* QString::toDouble(): blanks around a number do not count; zero for what is none.
ToDouble(t) ==
    LET u == SelectSeq(t, LAMBDA c : ~Is(c, " "))
    IN  CASE Len(u) = 1 /\ Is(u[1], "digits") -> u[1].value
          [] Len(u) = 2 /\ IsSign(u[1]) /\ Is(u[2], "digits") ->
                IF Is(u[1], "-") THEN -u[2].value ELSE u[2].value
          [] OTHER -> 0

\* QString::split()
SplitText(t, c) ==
    FoldLeft(LAMBDA parts, x : IF Is(x, c) THEN Append(parts, <<>>)
                               ELSE [parts EXCEPT ![Len(parts)] = Append(@, x)],
             <<<<>>>>, t)

WithoutEmpty(parts) == SelectSeq(parts, LAMBDA t : t # <<>>)

-----------------------------------------------------------------------------
PointToText(p) == Decimal(p.x) \o <<Char(","), Char(" ")>> \o Decimal(p.y)

PointFromText(t) ==
    LET parts == WithoutEmpty(SplitText(t, ","))
    IN  IF Len(parts) = 2 THEN Point(ToDouble(parts[1]), ToDouble(parts[2])) ELSE NullPoint

LineToText(l) == PointToText(l.p1) \o <<Char("/")>> \o PointToText(l.p2)

LineFromText(t) ==
    LET parts == SplitText(t, "/")
    IN  IF Len(parts) = 2 THEN Line(PointFromText(parts[1]), PointFromText(parts[2]))
        ELSE NoLine

\* Lists of lines: written in parentheses, which the reader does not know.
Joined(texts) ==
    FoldLeft(LAMBDA sum, t : IF sum = <<>> THEN t ELSE Append(sum, Char("+")) \o t, <<>>, texts)

ListToText(list) ==
    Joined([i \in DOMAIN list |-> <<Char("(")>> \o LineToText(list[i]) \o <<Char(")")>>])

ListFromText(t) ==
    LET parts == WithoutEmpty(SplitText(t, "+"))
    IN  [i \in DOMAIN parts |-> LineFromText(parts[i])]

\* Rectangles: width "x" height, and each coordinate behind a sign of its own.
Signed(n) == <<Char(IF n >= 0 THEN "+" ELSE "-")>> \o Decimal(n)

RectToText(r) == Decimal(r.w) \o <<Char("x")>> \o Decimal(r.h) \o Signed(r.x) \o Signed(r.y)

\* The place of the first sign, 0 if there is none.
FirstSign(t) == SelectInSeq(t, IsSign)

RectFromText(t) ==
    LET first == FirstSign(t)
        sizes == SplitText(SubSeq(t, 1, first - 1), "x")
        size(i) == IF Len(sizes) = 2 THEN ToDouble(sizes[i]) ELSE 0
        position == SubSeq(t, first, Len(t))
        second == FirstSign(Tail(position))
        number(from, to) == ToDouble(SubSeq(position, from, to))
    IN  IF first <= 1 \/ second = 0 THEN NullRectangle
        ELSE Rectangle(number(1, second), number(second + 1, Len(position)), size(1), size(2))

=============================================================================
