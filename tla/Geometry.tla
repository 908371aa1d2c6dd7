------------------------------ MODULE Geometry ------------------------------
(***************************************************************************)
(* Points, sizes and rectangles of BaseMath: the operations with a result  *)
(* of their own, and those "in place" (_I), which read what they           *)
(* overwrite.  A rectangle is its upper left corner and its size, and is   *)
(* valid when both sides are longer than zero; the result keeps the old    *)
(* corner when it is made invalid.                                         *)
(***************************************************************************)
EXTENDS Integers

CONSTANTS Xs, Ys,          \* of the corners and the points
          Sides,           \* of the sizes
          Scales,          \* pairs of a numerator and a denominator
          Coordinates      \* of the points that are looked at

ASSUME GeometryAssumption ==
    /\ Sides \subseteq Int
    /\ Scales \subseteq (Nat \ {0}) \X (Nat \ {0})
    /\ Xs \cup Ys \cup {0} \subseteq Coordinates /\ Coordinates \subseteq Int

VARIABLES rect,            \* what an operation overwrites
          gcall            \* the operation that was called, with what there was before

geometryVars == <<rect, gcall>>

Point(x, y) == [x |-> x, y |-> y]
Size(w, h)  == [width |-> w, height |-> h]
Rect(x, y, w, h) == [upperLeft |-> Point(x, y), size |-> Size(w, h)]

BASE_MATH_MAX(a, b) == IF a >= b THEN a ELSE b
BASE_MATH_MIN(a, b) == IF a <= b THEN a ELSE b
\* The division of C rounds towards zero.
BASE_MATH_CENTER(a) == IF a >= 0 THEN a \div 2 ELSE -((-a) \div 2)

\* A half is rounded away from zero.
BASE_MATH_ROUND(a, scale) == LET n == a * scale[1] IN
    IF n >= 0 THEN (2 * n + scale[2]) \div (2 * scale[2])
    ELSE -((scale[2] - 2 * n) \div (2 * scale[2]))

-----------------------------------------------------------------------------
Base2DSize_isValid(size) == size.width > 0 /\ size.height > 0
Base2DRect_isValid(r)    == Base2DSize_isValid(r.size)

Base2DSize_isPointInside(size, p) ==
    p.x >= 0 /\ p.y >= 0 /\ p.x < size.width /\ p.y < size.height
Base2DRect_isPointInside(r, p) ==
    Base2DSize_isPointInside(r.size, Point(p.x - r.upperLeft.x, p.y - r.upperLeft.y))

Right(r)  == r.upperLeft.x + r.size.width
Bottom(r) == r.upperLeft.y + r.size.height

Base2DRect_isRectInside(r, inner) ==
    /\ inner.upperLeft.x >= r.upperLeft.x /\ inner.upperLeft.y >= r.upperLeft.y
    /\ Right(inner) <= Right(r) /\ Bottom(inner) <= Bottom(r)
Base2DSize_isRectInside(size, inner) ==
    /\ inner.upperLeft.x >= 0 /\ inner.upperLeft.y >= 0
    /\ Right(inner) <= size.width /\ Bottom(inner) <= size.height
Base2DSize_isSizeInside(size, inner) ==
    inner.width <= size.width /\ inner.height <= size.height

Base2DSize_or(a, b)  == Size(BASE_MATH_MAX(a.width, b.width), BASE_MATH_MAX(a.height, b.height))
Base2DSize_and(a, b) == Size(BASE_MATH_MIN(a.width, b.width), BASE_MATH_MIN(a.height, b.height))

Base2DRect_setInvalid(r) == [r EXCEPT !.size = Size(0, 0)]

\* From a corner to where the sides end.
Spanned(x, y, right, bottom) == Rect(x, y, right - x, bottom - y)

Base2DRect_or(old, a, b) ==
    CASE Base2DRect_isValid(a) /\ Base2DRect_isValid(b) ->
           Spanned(BASE_MATH_MIN(a.upperLeft.x, b.upperLeft.x),
                   BASE_MATH_MIN(a.upperLeft.y, b.upperLeft.y),
                   BASE_MATH_MAX(Right(a), Right(b)), BASE_MATH_MAX(Bottom(a), Bottom(b)))
      [] Base2DRect_isValid(a) /\ ~Base2DRect_isValid(b) -> a
      [] OTHER -> b

Base2DRect_and(old, a, b) ==
    IF Base2DRect_isValid(a) /\ Base2DRect_isValid(b)
    THEN Spanned(BASE_MATH_MAX(a.upperLeft.x, b.upperLeft.x),
                 BASE_MATH_MAX(a.upperLeft.y, b.upperLeft.y),
                 BASE_MATH_MIN(Right(a), Right(b)), BASE_MATH_MIN(Bottom(a), Bottom(b)))
    ELSE Base2DRect_setInvalid(old)

Base2DRect_clipToSize(old, r, size) ==
    IF Base2DRect_isValid(r) /\ Base2DSize_isValid(size)
    THEN Spanned(BASE_MATH_MAX(0, r.upperLeft.x), BASE_MATH_MAX(0, r.upperLeft.y),
                 BASE_MATH_MIN(Right(r), size.width), BASE_MATH_MIN(Bottom(r), size.height))
    ELSE Base2DRect_setInvalid(old)

\* In place, the old corner is kept aside until the sides are known.
\* Mutant: the new corner is used for the sides.
Base2DRect_or_IMoved(r, b) ==
    IF Base2DRect_isValid(r) /\ Base2DRect_isValid(b)
    THEN LET moved == [r EXCEPT !.upperLeft = Point(BASE_MATH_MIN(r.upperLeft.x, b.upperLeft.x),
                                                    BASE_MATH_MIN(r.upperLeft.y, b.upperLeft.y))]
         IN  Spanned(moved.upperLeft.x, moved.upperLeft.y,
                     BASE_MATH_MAX(Right(moved), Right(b)),
                     BASE_MATH_MAX(Bottom(moved), Bottom(b)))
    ELSE IF Base2DRect_isValid(b) THEN b ELSE r
Base2DRect_or_I(r, b) ==
    CASE Base2DRect_isValid(r) /\ Base2DRect_isValid(b) ->
           Spanned(BASE_MATH_MIN(r.upperLeft.x, b.upperLeft.x),
                   BASE_MATH_MIN(r.upperLeft.y, b.upperLeft.y),
                   BASE_MATH_MAX(Right(r), Right(b)), BASE_MATH_MAX(Bottom(r), Bottom(b)))
      [] ~Base2DRect_isValid(r) /\ Base2DRect_isValid(b) -> b
      [] OTHER -> r
Base2DRect_and_I(r, b) ==
    CASE Base2DRect_isValid(r) /\ Base2DRect_isValid(b) ->
           Spanned(BASE_MATH_MAX(r.upperLeft.x, b.upperLeft.x),
                   BASE_MATH_MAX(r.upperLeft.y, b.upperLeft.y),
                   BASE_MATH_MIN(Right(r), Right(b)), BASE_MATH_MIN(Bottom(r), Bottom(b)))
      [] Base2DRect_isValid(r) /\ ~Base2DRect_isValid(b) -> b
      [] OTHER -> r

Base2DRect_clipToSize_I(r, size) ==
    IF Base2DRect_isValid(r) /\ Base2DSize_isValid(size)
    THEN Spanned(BASE_MATH_MAX(r.upperLeft.x, 0), BASE_MATH_MAX(r.upperLeft.y, 0),
                 BASE_MATH_MIN(Right(r), size.width), BASE_MATH_MIN(Bottom(r), size.height))
    ELSE Base2DRect_setInvalid(r)
Base2DPoint_clipToRect(p, r) ==
    Point(BASE_MATH_MIN(BASE_MATH_MAX(p.x, r.upperLeft.x), Right(r) - 1),
          BASE_MATH_MIN(BASE_MATH_MAX(p.y, r.upperLeft.y), Bottom(r) - 1))
Base2DPoint_clipToSize(p, size) ==
    Point(BASE_MATH_MIN(BASE_MATH_MAX(p.x, 0), size.width - 1),
          BASE_MATH_MIN(BASE_MATH_MAX(p.y, 0), size.height - 1))

Base2DRect_getCenterPoint(r) ==
    Point(r.upperLeft.x + BASE_MATH_CENTER(r.size.width),
          r.upperLeft.y + BASE_MATH_CENTER(r.size.height))

Base2DSize_scale(size, scale) ==
    IF Base2DSize_isValid(size)
    THEN Size(BASE_MATH_ROUND(size.width, scale), BASE_MATH_ROUND(size.height, scale))
    ELSE size

Base2DRect_scale(r, scale) ==
    IF Base2DRect_isValid(r)
    THEN [upperLeft |-> Point(BASE_MATH_ROUND(r.upperLeft.x, scale),
                              BASE_MATH_ROUND(r.upperLeft.y, scale)),
          size |-> Base2DSize_scale(r.size, scale)]
    ELSE r

Base2DRect_scaleCenterWidth(r, scale) ==
    IF ~Base2DRect_isValid(r) THEN r
    ELSE LET w == BASE_MATH_ROUND(r.size.width, scale)
         IN  [r EXCEPT !.size.width = w, !.upperLeft.x = @ + BASE_MATH_CENTER(r.size.width - w)]
Base2DRect_scaleCenterHeight(r, scale) ==
    IF ~Base2DRect_isValid(r) THEN r
    ELSE LET h == BASE_MATH_ROUND(r.size.height, scale)
         IN  [r EXCEPT !.size.height = h, !.upperLeft.y = @ + BASE_MATH_CENTER(r.size.height - h)]
Base2DRect_scaleCenter(r, scale) ==
    IF ~Base2DRect_isValid(r) THEN r
    ELSE LET s == Base2DSize_scale(r.size, scale)
         IN  [upperLeft |-> Point(r.upperLeft.x + BASE_MATH_CENTER(r.size.width - s.width),
                                  r.upperLeft.y + BASE_MATH_CENTER(r.size.height - s.height)),
              size |-> s]

-----------------------------------------------------------------------------
Points == {Point(x, y) : x \in Xs, y \in Ys}
Sizes  == {Size(w, h) : w, h \in Sides}
Rects  == {[upperLeft |-> p, size |-> s] : p \in Points, s \in Sizes}
NoGCall == [name |-> "none"]

GeometryInit == rect = Rect(0, 0, 0, 0) /\ gcall = NoGCall

SetRect(r) == gcall = NoGCall /\ rect' = r /\ gcall' = [name |-> "set"]

Call(name, before, other, result) ==
    /\ rect' = result
    /\ gcall' = [name |-> name, before |-> before, other |-> other]

GeometryNext ==
    \/ \E r \in Rects : SetRect(r)
    \/ /\ gcall.name = "set"
       /\ \/ \E o \in Rects : \/ Call("and", rect, o, Base2DRect_and_I(rect, o))
                              \/ Call("or", rect, o, Base2DRect_or_I(rect, o))
          \/ \E s \in Sizes : Call("clip", rect, s, Base2DRect_clipToSize_I(rect, s))
          \/ \E p \in Points :
                /\ Base2DRect_isValid(rect)
                /\ LET q == Base2DPoint_clipToRect(p, rect)
                   IN  Call("point", rect, p, [upperLeft |-> q, size |-> rect.size])
          \/ \E s \in Scales : Call("scale", rect, s, Base2DRect_scaleCenter(rect, s))

-----------------------------------------------------------------------------
\* The points around.
Around == {Point(x, y) : x, y \in Coordinates}
PointsOf(r) == {p \in Around : Base2DRect_isPointInside(r, p)}

(***************************************************************************)
(* Base2DRect_and_I() leaves exactly the points in both, the rectangle is  *)
(* invalid if there are none; Base2DRect_clipToSize_I() does the same with *)
(* the rectangle of that size at the origin.                               *)
(***************************************************************************)
AndIsIntersection ==
    gcall.name \in {"and", "clip"} =>
      LET other == IF gcall.name = "and" THEN gcall.other
                   ELSE [upperLeft |-> Point(0, 0), size |-> gcall.other]
      IN  /\ PointsOf(rect) = PointsOf(gcall.before) \cap PointsOf(other)
          /\ Base2DRect_isValid(rect) <=> PointsOf(rect) # {}

(***************************************************************************)
(* Base2DRect_or_I() gives the smallest rectangle around both: one that    *)
(* holds both holds it too.                                                *)
(***************************************************************************)
OrIsSmallest ==
    gcall.name = "or" =>
      LET both == {r \in {gcall.before, gcall.other} : Base2DRect_isValid(r)}
      IN  /\ Base2DRect_isValid(rect) <=> both # {}
          /\ \A r \in both : Base2DRect_isRectInside(rect, r)
          /\ \A big \in Rects : both # {} /\ (\A r \in both : Base2DRect_isRectInside(big, r))
                                  => Base2DRect_isRectInside(big, rect)

(***************************************************************************)
(* The operations in place and those with a result of their own agree,     *)
(* whatever the result was before.                                         *)
(***************************************************************************)
InPlaceAgrees ==
    LET Same(a, b) == \/ a = b
                      \/ ~Base2DRect_isValid(a) /\ ~Base2DRect_isValid(b)
        b == gcall.before
        o == gcall.other
    IN  /\ gcall.name = "and"  => Same(rect, Base2DRect_and(o, b, o))
        /\ gcall.name = "or"   => Same(rect, Base2DRect_or(o, b, o))
        /\ gcall.name = "clip" => Same(rect, Base2DRect_clipToSize(b, b, o))
        /\ gcall.name = "scale" =>
             rect = Base2DRect_scaleCenterHeight(Base2DRect_scaleCenterWidth(b, o), o)
             \/ ~Base2DRect_isValid(Base2DRect_scaleCenterWidth(b, o))
        /\ gcall.name = "scale" => Base2DRect_scale(b, o).size = rect.size

(***************************************************************************)
(* What is said of a size holds of the rectangle of that size at the       *)
(* origin.                                                                 *)
(***************************************************************************)
SizesAreAtOrigin ==
    gcall.name = "clip" =>
      LET AtOrigin(size) == [upperLeft |-> Point(0, 0), size |-> size]
          b == gcall.before
          s == gcall.other
          Valid == Base2DSize_isValid(s) /\ Base2DRect_isValid(b)
      IN  /\ Base2DSize_isRectInside(s, b) <=> Base2DRect_isRectInside(AtOrigin(s), b)
          /\ Base2DSize_isSizeInside(s, b.size)
                <=> Base2DRect_isRectInside(AtOrigin(s), AtOrigin(b.size))
          /\ Valid => /\ AtOrigin(Base2DSize_and(s, b.size))
                            = Base2DRect_and_I(AtOrigin(s), AtOrigin(b.size))
                      /\ AtOrigin(Base2DSize_or(s, b.size))
                            = Base2DRect_or_I(AtOrigin(s), AtOrigin(b.size))
                      /\ Base2DPoint_clipToSize(b.upperLeft, s)
                            = Base2DPoint_clipToRect(b.upperLeft, AtOrigin(s))

(***************************************************************************)
(* A point that is clipped comes inside, and no point inside is closer;    *)
(* the centre of a rectangle is inside too.                                *)
(***************************************************************************)
ClipIsNearest ==
    gcall.name = "point" =>
      LET Abs(n) == IF n < 0 THEN -n ELSE n
          Far(p) == Abs(p.x - gcall.other.x) + Abs(p.y - gcall.other.y)
      IN  /\ Base2DRect_isPointInside(gcall.before, rect.upperLeft)
          /\ \A p \in PointsOf(gcall.before) : Far(rect.upperLeft) <= Far(p)
          /\ Base2DRect_isPointInside(gcall.before, Base2DRect_getCenterPoint(gcall.before))

(***************************************************************************)
(* A rectangle that is made smaller around its centre stays inside where   *)
(* it was, one that is made larger holds it; the centre moves by one at    *)
(* most.                                                                   *)
(***************************************************************************)
ScaleKeepsCentre ==
    gcall.name = "scale" /\ Base2DRect_isValid(gcall.before) =>
      LET b == gcall.before
          c == Base2DRect_getCenterPoint(b)
          d == Base2DRect_getCenterPoint(rect)
      IN  /\ IF gcall.other[1] <= gcall.other[2] THEN Base2DRect_isRectInside(b, rect)
             ELSE Base2DRect_isRectInside(rect, b)
          /\ c.x - d.x \in -1 .. 1 /\ c.y - d.y \in -1 .. 1

(* The operations on points and rectangles are those of the sets of points   *)
(* they stand for.                                                           *)
RectanglesAreRight ==
    /\ AndIsIntersection
    /\ OrIsSmallest
    /\ InPlaceAgrees
    /\ SizesAreAtOrigin
    /\ ClipIsNearest
    /\ ScaleKeepsCentre
=============================================================================
