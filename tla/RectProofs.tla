---------------------------- MODULE RectProofs -----------------------------
(***************************************************************************)
(* The pieces of getSplitRects hold, for all integers, exactly the pixels  *)
(* of the rectangle outside the cut, and none of them overlaps the cut, so *)
(* the loops of ClipRegions that split until nothing overlaps do not split *)
(* a piece again.                                                          *)
(***************************************************************************)
EXTENDS Rects, TLAPS

(* First-order steps are left to Zenon; a step that needs arithmetic or    *)
(* function updates cites SMT.                                             *)
USE Zenon

\* A pixel in one of the rectangles of a list.
InSome(i, j, list) == \E k \in 1 .. Len(list) : In(i, j, list[k])

\* A pixel is in the concatenation of two lists when it is in one of them.
LEMMA InConcat ==
    ASSUME NEW s \in Seq(Rectangles), NEW t \in Seq(Rectangles), NEW i \in Int, NEW j \in Int
    PROVE  InSome(i, j, s \o t) <=> InSome(i, j, s) \/ InSome(i, j, t)
<1>1. ASSUME InSome(i, j, s \o t) PROVE InSome(i, j, s) \/ InSome(i, j, t)
  <2>1. PICK k \in 1 .. Len(s \o t) : In(i, j, (s \o t)[k])
    BY <1>1 DEF InSome
  <2>2. CASE k <= Len(s)
    BY <2>1, <2>2, SMT DEF InSome
  <2>3. CASE k > Len(s)
    <3>1. k - Len(s) \in 1 .. Len(t) /\ (s \o t)[k] = t[k - Len(s)]
      BY <2>1, <2>3, SMT
    <3> QED BY <2>1, <3>1 DEF InSome
  <2> QED BY <2>2, <2>3, SMT
<1>2. ASSUME InSome(i, j, s) PROVE InSome(i, j, s \o t)
  <2>1. PICK k \in 1 .. Len(s) : In(i, j, s[k])
    BY <1>2 DEF InSome
  <2>2. k \in 1 .. Len(s \o t) /\ (s \o t)[k] = s[k]
    BY SMT
  <2> QED BY <2>1, <2>2 DEF InSome
<1>3. ASSUME InSome(i, j, t) PROVE InSome(i, j, s \o t)
  <2>1. PICK k \in 1 .. Len(t) : In(i, j, t[k])
    BY <1>3 DEF InSome
  <2>2. k + Len(s) \in 1 .. Len(s \o t) /\ (s \o t)[k + Len(s)] = t[k]
    BY SMT
  <2> QED BY <2>1, <2>2 DEF InSome
<1> QED BY <1>1, <1>2, <1>3

\* A list of one rectangle, and the empty list.
LEMMA InOne ==
    ASSUME NEW r \in Rectangles, NEW i \in Int, NEW j \in Int
    PROVE  /\ InSome(i, j, <<r>>) <=> In(i, j, r)
           /\ ~InSome(i, j, << >>)
<1>1. InSome(i, j, <<r>>) <=> In(i, j, r)
  <2>1. Len(<<r>>) = 1 /\ <<r>>[1] = r
    OBVIOUS
  <2>2. 1 .. 1 = {1}
    BY SMT
  <2> QED BY <2>1, <2>2 DEF InSome
<1>2. ~InSome(i, j, << >>)
  <2>1. 1 .. Len(<< >>) = {}
    BY SMT
  <2> QED BY <2>1 DEF InSome
<1> QED BY <1>1, <1>2

\* A piece that is there on a condition.
LEMMA OnePiece ==
    ASSUME NEW p \in Rectangles, NEW c \in BOOLEAN, NEW i \in Int, NEW j \in Int
    PROVE  LET s == IF c THEN <<p>> ELSE << >>
           IN  s \in Seq(Rectangles) /\ (InSome(i, j, s) <=> c /\ In(i, j, p))
<1>1. CASE c
  <2>1. <<p>> \in Seq(Rectangles)
    BY SMT
  <2> QED BY <1>1, <2>1, InOne
<1>2. CASE ~c
  <2>1. << >> \in Seq(Rectangles)
    BY SMT
  <2> QED BY <1>2, <2>1, InOne
<1> QED BY <1>1, <1>2

\* Each step of getSplitRects divides what is left of the rectangle in two:
\* a piece, or nothing, and the rest.
LEMMA StepsDivide ==
    ASSUME NEW r \in Rectangles, NEW cut \in Rectangles, NEW i \in Int, NEW j \in Int
    PROVE  /\ PieceLeft(r, cut) \in Seq(Rectangles) /\ RestLeft(r, cut) \in Rectangles
           /\ PieceTop(r, cut) \in Seq(Rectangles) /\ RestTop(r, cut) \in Rectangles
           /\ PieceRight(r, cut) \in Seq(Rectangles) /\ RestRight(r, cut) \in Rectangles
           /\ PieceBottom(r, cut) \in Seq(Rectangles)
           /\ InSome(i, j, PieceLeft(r, cut)) <=>
                 SplitsLeft(r, cut) /\ In(i, j, r) /\ i < getLeft(cut)
           /\ InSome(i, j, PieceTop(r, cut)) <=>
                 SplitsTop(r, cut) /\ In(i, j, r) /\ j < getTop(cut)
           /\ InSome(i, j, PieceRight(r, cut)) <=>
                 SplitsRight(r, cut) /\ In(i, j, r) /\ i >= getRight(cut)
           /\ InSome(i, j, PieceBottom(r, cut)) <=>
                 SplitsBottom(r, cut) /\ In(i, j, r) /\ j >= getBottom(cut)
<1>1. /\ RestLeft(r, cut) \in Rectangles
      /\ RestTop(r, cut) \in Rectangles
      /\ RestRight(r, cut) \in Rectangles
  <2>1. RestLeft(r, cut) \in Rectangles
    BY SMT DEF RestLeft, setLeft, Rect, Rectangles, getLeft, getRight, getTop, getBottom
  <2>2. RestTop(r, cut) \in Rectangles
    BY SMT DEF RestTop, setTop, Rect, Rectangles, getLeft, getRight, getTop, getBottom
  <2>3. RestRight(r, cut) \in Rectangles
    BY SMT DEF RestRight, setRight, Rect, Rectangles, getLeft, getRight, getTop, getBottom
  <2> QED BY <2>1, <2>2, <2>3
<1>2. /\ PieceLeft(r, cut) \in Seq(Rectangles)
      /\ InSome(i, j, PieceLeft(r, cut)) <=>
            SplitsLeft(r, cut) /\ In(i, j, r) /\ i < getLeft(cut)
  <2> DEFINE p == Rect(r.x, r.y, getLeft(cut) - getLeft(r), r.height)
  <2>1. p \in Rectangles
    BY SMT DEF Rect, Rectangles, getLeft, getRight, getTop, getBottom
  <2>2. SplitsLeft(r, cut) => (In(i, j, p) <=> In(i, j, r) /\ i < getLeft(cut))
    BY SMT DEF Rect, In, SplitsLeft, Rectangles, getLeft, getRight, getTop, getBottom
  <2>3. PieceLeft(r, cut) = IF SplitsLeft(r, cut) THEN <<p>> ELSE << >>
    BY DEF PieceLeft
  <2>4. SplitsLeft(r, cut) \in BOOLEAN
    BY DEF SplitsLeft, Rectangles, getLeft, getRight, getTop, getBottom
  <2> HIDE DEF p
  <2>5. /\ PieceLeft(r, cut) \in Seq(Rectangles)
        /\ InSome(i, j, PieceLeft(r, cut)) <=> SplitsLeft(r, cut) /\ In(i, j, p)
    BY <2>1, <2>3, <2>4, OnePiece
  <2> QED BY <2>2, <2>5
<1>3. /\ PieceTop(r, cut) \in Seq(Rectangles)
      /\ InSome(i, j, PieceTop(r, cut)) <=>
            SplitsTop(r, cut) /\ In(i, j, r) /\ j < getTop(cut)
  <2> DEFINE p == Rect(r.x, r.y, r.width, getTop(cut) - getTop(r))
  <2>1. p \in Rectangles
    BY SMT DEF Rect, Rectangles, getLeft, getRight, getTop, getBottom
  <2>2. SplitsTop(r, cut) => (In(i, j, p) <=> In(i, j, r) /\ j < getTop(cut))
    BY SMT DEF Rect, In, SplitsTop, Rectangles, getLeft, getRight, getTop, getBottom
  <2>3. PieceTop(r, cut) = IF SplitsTop(r, cut) THEN <<p>> ELSE << >>
    BY DEF PieceTop
  <2>4. SplitsTop(r, cut) \in BOOLEAN
    BY DEF SplitsTop, Rectangles, getLeft, getRight, getTop, getBottom
  <2> HIDE DEF p
  <2>5. /\ PieceTop(r, cut) \in Seq(Rectangles)
        /\ InSome(i, j, PieceTop(r, cut)) <=> SplitsTop(r, cut) /\ In(i, j, p)
    BY <2>1, <2>3, <2>4, OnePiece
  <2> QED BY <2>2, <2>5
<1>4. /\ PieceRight(r, cut) \in Seq(Rectangles)
      /\ InSome(i, j, PieceRight(r, cut)) <=>
            SplitsRight(r, cut) /\ In(i, j, r) /\ i >= getRight(cut)
  <2> DEFINE p == Rect(getRight(cut), r.y, getRight(r) - getRight(cut), r.height)
  <2>1. p \in Rectangles
    BY SMT DEF Rect, Rectangles, getLeft, getRight, getTop, getBottom
  <2>2. SplitsRight(r, cut) => (In(i, j, p) <=> In(i, j, r) /\ i >= getRight(cut))
    BY SMT DEF Rect, In, SplitsRight, Rectangles, getLeft, getRight, getTop, getBottom
  <2>3. PieceRight(r, cut) = IF SplitsRight(r, cut) THEN <<p>> ELSE << >>
    BY DEF PieceRight
  <2>4. SplitsRight(r, cut) \in BOOLEAN
    BY DEF SplitsRight, Rectangles, getLeft, getRight, getTop, getBottom
  <2> HIDE DEF p
  <2>5. /\ PieceRight(r, cut) \in Seq(Rectangles)
        /\ InSome(i, j, PieceRight(r, cut)) <=> SplitsRight(r, cut) /\ In(i, j, p)
    BY <2>1, <2>3, <2>4, OnePiece
  <2> QED BY <2>2, <2>5
<1>5. /\ PieceBottom(r, cut) \in Seq(Rectangles)
      /\ InSome(i, j, PieceBottom(r, cut)) <=>
            SplitsBottom(r, cut) /\ In(i, j, r) /\ j >= getBottom(cut)
  <2> DEFINE p == Rect(r.x, getBottom(cut), r.width, getBottom(r) - getBottom(cut))
  <2>1. p \in Rectangles
    BY SMT DEF Rect, Rectangles, getLeft, getRight, getTop, getBottom
  <2>2. SplitsBottom(r, cut) => (In(i, j, p) <=> In(i, j, r) /\ j >= getBottom(cut))
    BY SMT DEF Rect, In, SplitsBottom, Rectangles, getLeft, getRight, getTop, getBottom
  <2>3. PieceBottom(r, cut) = IF SplitsBottom(r, cut) THEN <<p>> ELSE << >>
    BY DEF PieceBottom
  <2>4. SplitsBottom(r, cut) \in BOOLEAN
    BY DEF SplitsBottom, Rectangles, getLeft, getRight, getTop, getBottom
  <2> HIDE DEF p
  <2>5. /\ PieceBottom(r, cut) \in Seq(Rectangles)
        /\ InSome(i, j, PieceBottom(r, cut)) <=> SplitsBottom(r, cut) /\ In(i, j, p)
    BY <2>1, <2>3, <2>4, OnePiece
  <2> QED BY <2>2, <2>5
<1> QED BY <1>1, <1>2, <1>3, <1>4, <1>5

\* The pieces and the rests are rectangles.
LEMMA StepTypes ==
    ASSUME NEW r \in Rectangles, NEW cut \in Rectangles
    PROVE  /\ PieceLeft(r, cut) \in Seq(Rectangles) /\ RestLeft(r, cut) \in Rectangles
           /\ PieceTop(r, cut) \in Seq(Rectangles) /\ RestTop(r, cut) \in Rectangles
           /\ PieceRight(r, cut) \in Seq(Rectangles) /\ RestRight(r, cut) \in Rectangles
           /\ PieceBottom(r, cut) \in Seq(Rectangles)
<1>1. 0 \in Int
  BY SMT
<1> QED BY <1>1, StepsDivide

\* getSplitRects cuts exactly the cut out of the rectangle: a pixel is in one
\* of the pieces when it is in the rectangle and not in the cut.
THEOREM SplitExact ==
    ASSUME NEW r \in Rectangles, NEW cut \in Rectangles,
           cut.width > 0, cut.height > 0, overlaps(r, cut),
           NEW i \in Int, NEW j \in Int
    PROVE  InSome(i, j, getSplitRects(r, cut)) <=> In(i, j, r) /\ ~In(i, j, cut)
<1> DEFINE left == RestLeft(r, cut)
           top == RestTop(left, cut)
           right == RestRight(top, cut)
           a == PieceLeft(r, cut)
           b == PieceTop(left, cut)
           c == PieceRight(top, cut)
           d == PieceBottom(right, cut)
<1>1. left \in Rectangles /\ top \in Rectangles /\ right \in Rectangles
  BY StepsDivide
<1>2. /\ a \in Seq(Rectangles) /\ b \in Seq(Rectangles)
      /\ c \in Seq(Rectangles) /\ d \in Seq(Rectangles)
  <2> HIDE DEF left, top, right
  <2> QED BY <1>1, StepsDivide
<1>3. InSome(i, j, getSplitRects(r, cut)) <=>
        InSome(i, j, a) \/ InSome(i, j, b) \/ InSome(i, j, c) \/ InSome(i, j, d)
  <2>1. getSplitRects(r, cut) = a \o b \o c \o d
    BY DEF getSplitRects
  <2> HIDE DEF a, b, c, d
  <2>2. a \o b \in Seq(Rectangles) /\ a \o b \o c \in Seq(Rectangles)
    BY <1>2, SMT
  <2>3. InSome(i, j, a \o b) <=> InSome(i, j, a) \/ InSome(i, j, b)
    BY <1>2, InConcat
  <2>4. InSome(i, j, a \o b \o c) <=> InSome(i, j, a \o b) \/ InSome(i, j, c)
    BY <1>2, <2>2, InConcat
  <2>5. InSome(i, j, a \o b \o c \o d) <=> InSome(i, j, a \o b \o c) \/ InSome(i, j, d)
    BY <1>2, <2>2, InConcat
  <2> QED BY <2>1, <2>3, <2>4, <2>5
<1>4. /\ InSome(i, j, a) <=> SplitsLeft(r, cut) /\ In(i, j, r) /\ i < getLeft(cut)
      /\ InSome(i, j, b) <=> SplitsTop(left, cut) /\ In(i, j, left) /\ j < getTop(cut)
      /\ InSome(i, j, c) <=> SplitsRight(top, cut) /\ In(i, j, top) /\ i >= getRight(cut)
      /\ InSome(i, j, d) <=> SplitsBottom(right, cut) /\ In(i, j, right) /\ j >= getBottom(cut)
  <2> HIDE DEF left, top, right
  <2> QED BY <1>1, StepsDivide
<1>5. /\ getLeft(left) = IF getLeft(cut) > getLeft(r) THEN getLeft(cut) ELSE getLeft(r)
      /\ getRight(left) = getRight(r)
      /\ getTop(left) = getTop(r) /\ getBottom(left) = getBottom(r)
  BY SMT DEF RestLeft, SplitsLeft, setLeft, Rect, Rectangles, overlaps,
         getLeft, getRight, getTop, getBottom
<1>6. /\ getTop(top) = IF getTop(cut) > getTop(r) THEN getTop(cut) ELSE getTop(r)
      /\ getBottom(top) = getBottom(r)
      /\ getLeft(top) = getLeft(left) /\ getRight(top) = getRight(r)
  <2> HIDE DEF left
  <2> QED BY <1>1, <1>5, SMT DEF RestTop, SplitsTop, setTop, Rect, Rectangles, overlaps,
         getLeft, getRight, getTop, getBottom
<1>7. /\ getRight(right) = IF getRight(cut) < getRight(r) THEN getRight(cut) ELSE getRight(r)
      /\ getLeft(right) = getLeft(left)
      /\ getTop(right) = getTop(top) /\ getBottom(right) = getBottom(r)
  <2> HIDE DEF left, top
  <2> QED BY <1>1, <1>5, <1>6, SMT DEF RestRight, SplitsRight, setRight, Rect, Rectangles,
         overlaps, getLeft, getRight, getTop, getBottom
<1>8. /\ getLeft(cut) < getRight(cut) /\ getTop(cut) < getBottom(cut)
      /\ getLeft(r) \in Int /\ getRight(r) \in Int /\ getTop(r) \in Int /\ getBottom(r) \in Int
      /\ getLeft(cut) \in Int /\ getRight(cut) \in Int
      /\ getTop(cut) \in Int /\ getBottom(cut) \in Int
  BY SMT DEF Rectangles, getLeft, getRight, getTop, getBottom
<1> HIDE DEF left, top, right, a, b, c, d
<1>9. InSome(i, j, a) \/ InSome(i, j, b) \/ InSome(i, j, c) \/ InSome(i, j, d)
        <=> In(i, j, r) /\ ~In(i, j, cut)
  BY <1>4, <1>5, <1>6, <1>7, <1>8, SMTT(60)
     DEF overlaps, In, SplitsLeft, SplitsTop, SplitsRight, SplitsBottom
<1> QED BY <1>3, <1>9

\* No rectangle of a list overlaps the cut.
NoneOverlaps(list, cut) == \A k \in 1 .. Len(list) : ~overlaps(list[k], cut)

\* Two lists outside the cut make one outside the cut.
LEMMA NoneInConcat ==
    ASSUME NEW s \in Seq(Rectangles), NEW t \in Seq(Rectangles), NEW cut,
           NoneOverlaps(s, cut), NoneOverlaps(t, cut)
    PROVE  NoneOverlaps(s \o t, cut)
<1> SUFFICES ASSUME NEW k \in 1 .. Len(s \o t) PROVE ~overlaps((s \o t)[k], cut)
  BY DEF NoneOverlaps
<1>1. CASE k <= Len(s)
  <2>1. k \in 1 .. Len(s) /\ (s \o t)[k] = s[k]
    BY <1>1, SMT
  <2> QED BY <2>1 DEF NoneOverlaps
<1>2. CASE k > Len(s)
  <2>1. k - Len(s) \in 1 .. Len(t) /\ (s \o t)[k] = t[k - Len(s)]
    BY <1>2, SMT
  <2> QED BY <2>1 DEF NoneOverlaps
<1> QED BY <1>1, <1>2, SMT

\* A piece that is there on a condition, and lies outside the cut then.
LEMMA NoneInPiece ==
    ASSUME NEW p, NEW c \in BOOLEAN, NEW cut, c => ~overlaps(p, cut)
    PROVE  NoneOverlaps(IF c THEN <<p>> ELSE << >>, cut)
<1>1. CASE c
  <2>1. Len(<<p>>) = 1 /\ <<p>>[1] = p /\ 1 .. 1 = {1}
    BY SMT
  <2> QED BY <1>1, <2>1 DEF NoneOverlaps
<1>2. CASE ~c
  <2>1. 1 .. Len(<< >>) = {}
    BY SMT
  <2> QED BY <1>2, <2>1 DEF NoneOverlaps
<1> QED BY <1>1, <1>2

\* A piece is cut off at an edge of the cut.
LEMMA PiecesOutside ==
    ASSUME NEW r \in Rectangles, NEW cut \in Rectangles
    PROVE  /\ NoneOverlaps(PieceLeft(r, cut), cut) /\ NoneOverlaps(PieceTop(r, cut), cut)
           /\ NoneOverlaps(PieceRight(r, cut), cut) /\ NoneOverlaps(PieceBottom(r, cut), cut)
<1> USE DEF Rectangles, Rect, overlaps, getLeft, getRight, getTop, getBottom
<1>1. ~overlaps(Rect(r.x, r.y, getLeft(cut) - getLeft(r), r.height), cut)
  BY SMT
<1>2. ~overlaps(Rect(r.x, r.y, r.width, getTop(cut) - getTop(r)), cut)
  BY SMT
<1>3. ~overlaps(Rect(getRight(cut), r.y, getRight(r) - getRight(cut), r.height), cut)
  BY SMT
<1>4. ~overlaps(Rect(r.x, getBottom(cut), r.width, getBottom(r) - getBottom(cut)), cut)
  BY SMT
<1>5. /\ SplitsLeft(r, cut) \in BOOLEAN /\ SplitsTop(r, cut) \in BOOLEAN
      /\ SplitsRight(r, cut) \in BOOLEAN /\ SplitsBottom(r, cut) \in BOOLEAN
  BY DEF SplitsLeft, SplitsTop, SplitsRight, SplitsBottom
<1>6. NoneOverlaps(PieceLeft(r, cut), cut)
  BY <1>1, <1>5, NoneInPiece DEF PieceLeft
<1>7. NoneOverlaps(PieceTop(r, cut), cut)
  BY <1>2, <1>5, NoneInPiece DEF PieceTop
<1>8. NoneOverlaps(PieceRight(r, cut), cut)
  BY <1>3, <1>5, NoneInPiece DEF PieceRight
<1>9. NoneOverlaps(PieceBottom(r, cut), cut)
  BY <1>4, <1>5, NoneInPiece DEF PieceBottom
<1> QED BY <1>6, <1>7, <1>8, <1>9

\* No piece that getSplitRects returns overlaps the cut: the loops of
\* removeClippedRegion and divideClippedRegion, which start over after each
\* split, never split a piece again.
THEOREM PiecesDontOverlap ==
    ASSUME NEW r \in Rectangles, NEW cut \in Rectangles
    PROVE  NoneOverlaps(getSplitRects(r, cut), cut)
<1> DEFINE left == RestLeft(r, cut)
           top == RestTop(left, cut)
           right == RestRight(top, cut)
           a == PieceLeft(r, cut)
           b == PieceTop(left, cut)
           c == PieceRight(top, cut)
           d == PieceBottom(right, cut)
<1>1. left \in Rectangles /\ top \in Rectangles /\ right \in Rectangles
  BY StepTypes
<1>2. /\ a \in Seq(Rectangles) /\ b \in Seq(Rectangles)
      /\ c \in Seq(Rectangles) /\ d \in Seq(Rectangles)
  <2> HIDE DEF left, top, right
  <2> QED BY <1>1, StepTypes
<1>3. /\ NoneOverlaps(a, cut) /\ NoneOverlaps(b, cut)
      /\ NoneOverlaps(c, cut) /\ NoneOverlaps(d, cut)
  <2> HIDE DEF left, top, right
  <2> QED BY <1>1, PiecesOutside
<1>4. getSplitRects(r, cut) = a \o b \o c \o d
  BY DEF getSplitRects
<1> HIDE DEF left, top, right, a, b, c, d
<1>5. a \o b \in Seq(Rectangles) /\ a \o b \o c \in Seq(Rectangles)
  BY <1>2, SMT
<1>6. NoneOverlaps(a \o b, cut)
  BY <1>2, <1>3, NoneInConcat
<1>7. NoneOverlaps(a \o b \o c, cut)
  BY <1>2, <1>3, <1>5, <1>6, NoneInConcat
<1> QED BY <1>2, <1>3, <1>4, <1>5, <1>7, NoneInConcat

\* Moving one edge inwards keeps the pixels on its inner side.
LEMMA EdgeMoved ==
    ASSUME NEW r \in Rectangles, NEW e \in Int, NEW i \in Int, NEW j \in Int
    PROVE  LET l == IF getLeft(r) < e THEN setLeft(r, e) ELSE r
               m == IF getRight(r) > e THEN setRight(r, e) ELSE r
               t == IF getTop(r) < e THEN setTop(r, e) ELSE r
               b == IF getBottom(r) > e THEN setBottom(r, e) ELSE r
           IN  /\ l \in Rectangles /\ (In(i, j, l) <=> In(i, j, r) /\ e <= i)
               /\ m \in Rectangles /\ (In(i, j, m) <=> In(i, j, r) /\ i < e)
               /\ t \in Rectangles /\ (In(i, j, t) <=> In(i, j, r) /\ e <= j)
               /\ b \in Rectangles /\ (In(i, j, b) <=> In(i, j, r) /\ j < e)
<1> USE DEF Rect, Rectangles, In, getLeft, getRight, getTop, getBottom
<1>1. LET l == IF getLeft(r) < e THEN setLeft(r, e) ELSE r
      IN  l \in Rectangles /\ (In(i, j, l) <=> In(i, j, r) /\ e <= i)
  BY SMT DEF setLeft
<1>2. LET m == IF getRight(r) > e THEN setRight(r, e) ELSE r
      IN  m \in Rectangles /\ (In(i, j, m) <=> In(i, j, r) /\ i < e)
  BY SMT DEF setRight
<1>3. LET t == IF getTop(r) < e THEN setTop(r, e) ELSE r
      IN  t \in Rectangles /\ (In(i, j, t) <=> In(i, j, r) /\ e <= j)
  BY SMT DEF setTop
<1>4. LET b == IF getBottom(r) > e THEN setBottom(r, e) ELSE r
      IN  b \in Rectangles /\ (In(i, j, b) <=> In(i, j, r) /\ j < e)
  BY SMT DEF setBottom
<1> QED BY <1>1, <1>2, <1>3, <1>4

\* What blit and alphaBlit draw: restrictRect, like getOverlapRect, leaves the
\* pixels that are in both rectangles, also when there are none.
THEOREM OverlapExact ==
    ASSUME NEW r \in Rectangles, NEW s \in Rectangles, NEW i \in Int, NEW j \in Int
    PROVE  /\ In(i, j, getOverlapRect(s, r)) <=> In(i, j, r) /\ In(i, j, s)
           /\ In(i, j, restrictRect(s, r)) <=> In(i, j, r) /\ In(i, j, s)
<1>0. /\ getLeft(s) \in Int /\ getRight(s) \in Int
      /\ getTop(s) \in Int /\ getBottom(s) \in Int
  BY SMT DEF Rectangles, getLeft, getRight, getTop, getBottom
<1> DEFINE
      CutLeft(q) == IF getLeft(q) < getLeft(s) THEN setLeft(q, getLeft(s)) ELSE q
      CutRight(q) == IF getRight(q) > getRight(s) THEN setRight(q, getRight(s)) ELSE q
      CutTop(q) == IF getTop(q) < getTop(s) THEN setTop(q, getTop(s)) ELSE q
      CutBottom(q) == IF getBottom(q) > getBottom(s) THEN setBottom(q, getBottom(s)) ELSE q
<1>1. ASSUME NEW q \in Rectangles
      PROVE  /\ CutLeft(q) \in Rectangles /\ CutRight(q) \in Rectangles
             /\ CutTop(q) \in Rectangles /\ CutBottom(q) \in Rectangles
             /\ In(i, j, CutLeft(q)) <=> In(i, j, q) /\ getLeft(s) <= i
             /\ In(i, j, CutRight(q)) <=> In(i, j, q) /\ i < getRight(s)
             /\ In(i, j, CutTop(q)) <=> In(i, j, q) /\ getTop(s) <= j
             /\ In(i, j, CutBottom(q)) <=> In(i, j, q) /\ j < getBottom(s)
  <2>1. CutLeft(q) \in Rectangles /\ (In(i, j, CutLeft(q)) <=> In(i, j, q) /\ getLeft(s) <= i)
    BY <1>0, EdgeMoved, ZenonT(60)
  <2>2. CutRight(q) \in Rectangles /\ (In(i, j, CutRight(q)) <=> In(i, j, q) /\ i < getRight(s))
    BY <1>0, EdgeMoved, ZenonT(60)
  <2>3. CutTop(q) \in Rectangles /\ (In(i, j, CutTop(q)) <=> In(i, j, q) /\ getTop(s) <= j)
    BY <1>0, EdgeMoved, ZenonT(60)
  <2>4. CutBottom(q) \in Rectangles /\ (In(i, j, CutBottom(q)) <=> In(i, j, q) /\ j < getBottom(s))
    BY <1>0, EdgeMoved, ZenonT(60)
  <2> HIDE DEF CutLeft, CutRight, CutTop, CutBottom
  <2> QED BY <2>1, <2>2, <2>3, <2>4
<1>2. /\ getOverlapRect(s, r) = CutBottom(CutTop(CutRight(CutLeft(r))))
      /\ restrictRect(s, r) = CutRight(CutLeft(CutBottom(CutTop(r))))
  BY DEF getOverlapRect, restrictRect
<1> HIDE DEF CutLeft, CutRight, CutTop, CutBottom
<1>3. /\ CutLeft(r) \in Rectangles /\ CutRight(CutLeft(r)) \in Rectangles
      /\ CutTop(CutRight(CutLeft(r))) \in Rectangles
      /\ CutTop(r) \in Rectangles /\ CutBottom(CutTop(r)) \in Rectangles
      /\ CutLeft(CutBottom(CutTop(r))) \in Rectangles
  BY <1>1
<1> QED BY <1>1, <1>2, <1>3, SMT DEF In
=============================================================================
