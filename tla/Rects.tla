------------------------------- MODULE Rects -------------------------------
(***************************************************************************)
(* libGUI/Rect.cpp: rectangles of pixels, their overlap, and the pieces    *)
(* that are left of one rectangle when another is cut out of it.           *)
(***************************************************************************)
EXTENDS Integers, Sequences

Rect(x, y, w, h) == [x |-> x, y |-> y, width |-> w, height |-> h]

Rectangles == [x : Int, y : Int, width : Int, height : Int]

getLeft(r) == r.x
getRight(r) == r.x + r.width
getTop(r) == r.y
getBottom(r) == r.y + r.height

setLeft(r, left) == Rect(left, r.y, r.width + (r.x - left), r.height)
setRight(r, right) == Rect(r.x, r.y, right - r.x, r.height)
setTop(r, top) == Rect(r.x, top, r.width, r.height + (r.y - top))
setBottom(r, bottom) == Rect(r.x, r.y, r.width, bottom - r.y)

\* The pixel at column i and row j is one of the pixels of r.
In(i, j, r) == /\ getLeft(r) <= i /\ i < getRight(r)
               /\ getTop(r) <= j /\ j < getBottom(r)

overlaps(r, s) == /\ getLeft(r) < getRight(s) /\ getRight(r) > getLeft(s)
                  /\ getTop(r) < getBottom(s) /\ getBottom(r) > getTop(s)

\* The part of r that is inside the bounds of s; restrictRect does the same.
getOverlapRect(s, r) ==
    LET l == IF getLeft(r) < getLeft(s) THEN setLeft(r, getLeft(s)) ELSE r
        m == IF getRight(l) > getRight(s) THEN setRight(l, getRight(s)) ELSE l
        t == IF getTop(m) < getTop(s) THEN setTop(m, getTop(s)) ELSE m
    IN  IF getBottom(t) > getBottom(s) THEN setBottom(t, getBottom(s)) ELSE t

restrictRect(s, r) ==
    LET t == IF getTop(r) < getTop(s) THEN setTop(r, getTop(s)) ELSE r
        b == IF getBottom(t) > getBottom(s) THEN setBottom(t, getBottom(s)) ELSE t
        l == IF getLeft(b) < getLeft(s) THEN setLeft(b, getLeft(s)) ELSE b
    IN  IF getRight(l) > getRight(s) THEN setRight(l, getRight(s)) ELSE l

(* getSplitRects: up to four pieces, each taken off what the ones before    *)
(* left (thisCopy).                                                         *)

SplitsLeft(r, cut) == getLeft(cut) > getLeft(r) /\ getLeft(cut) < getRight(r)
SplitsTop(r, cut) == getTop(cut) > getTop(r) /\ getTop(cut) < getBottom(r)
SplitsRight(r, cut) == getRight(cut) > getLeft(r) /\ getRight(cut) < getRight(r)
SplitsBottom(r, cut) == getBottom(cut) > getTop(r) /\ getBottom(cut) < getBottom(r)

PieceLeft(r, cut) ==
    IF SplitsLeft(r, cut) THEN <<Rect(r.x, r.y, getLeft(cut) - getLeft(r), r.height)>> ELSE <<>>

PieceTop(r, cut) ==
    IF SplitsTop(r, cut) THEN <<Rect(r.x, r.y, r.width, getTop(cut) - getTop(r))>> ELSE <<>>

PieceRight(r, cut) ==
    IF SplitsRight(r, cut)
    THEN <<Rect(getRight(cut), r.y, getRight(r) - getRight(cut), r.height)>> ELSE <<>>

PieceBottom(r, cut) ==
    IF SplitsBottom(r, cut)
    THEN <<Rect(r.x, getBottom(cut), r.width, getBottom(r) - getBottom(cut))>> ELSE <<>>

RestLeft(r, cut) == IF SplitsLeft(r, cut) THEN setLeft(r, getLeft(cut)) ELSE r
RestTop(r, cut) == IF SplitsTop(r, cut) THEN setTop(r, getTop(cut)) ELSE r
RestRight(r, cut) == IF SplitsRight(r, cut) THEN setRight(r, getRight(cut)) ELSE r

getSplitRects(r, cut) ==
    LET left == RestLeft(r, cut)
        top == RestTop(left, cut)
        right == RestRight(top, cut)
    IN  PieceLeft(r, cut) \o PieceTop(left, cut) \o PieceRight(top, cut)
            \o PieceBottom(right, cut)
=============================================================================
