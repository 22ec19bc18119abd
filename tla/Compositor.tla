---------------------------- MODULE Compositor -----------------------------
(***************************************************************************)
(* libGUI/Compositor.cpp with the drawing of Surface.cpp.  A render        *)
(* collects the rectangles that changed (createDirtyWindowRegions), draws  *)
(* the windows that meet them from front to back into the back buffer,     *)
(* and copies these rectangles to the screen.  An opaque window takes its  *)
(* rectangle out of what is left to draw; a transparent one marks it, so   *)
(* that what lies behind is blended under it.                              *)
(*                                                                         *)
(* Between two renders the windows change in the ways Window.cpp allows,   *)
(* with the dirty flags it sets.  A pixel is the list of the pixels that   *)
(* were blended into it, from front to back, with its alpha.               *)
(***************************************************************************)
EXTENDS Rects, SequencesExt

CONSTANTS
    Windows, Root,
    Parent,         \* the parent of every window but Root
    Inside,         \* per window that is not Root: its children, bottom one first
    StartOrder,     \* the children of Root
    Priority,       \* their priorities
    Decorated,      \* those with WindowFlags_Decoration, which a click raises
    StartRect,
    Transparent,    \* windows with WindowFlags_Transparent
    Invisible,      \* windows with WindowFlags_Invisible
    Alpha,          \* the alpha of each window's pixels
    Draggable, HoverButtons,
    DragTo,         \* bound: where the model lets the corner of a window go
    Moves,          \* movements as <<dx, dy>>
    Mouse, MouseStart,
    Screen,         \* the rectangle of the framebuffer
    MaxClipped,     \* the 200 of ClipRegions
    RenderAt

ASSUME CompositorAssumption ==
    /\ Root \in Windows /\ Mouse \notin Windows
    /\ Transparent \cup Invisible \cup Draggable \cup HoverButtons \subseteq Windows
    /\ Decorated \subseteq Range(StartOrder)
    /\ MaxClipped \in Nat \ {0} /\ RenderAt \in Nat

VARIABLES
    order,      \* children of Root, bottom first
    rect, prev, \* surface->rect and winPrevRect of each window and the mouse
    image,      \* which image a window's buffer is
    dirty,      \* windows (and the mouse) with WindowFlags_Dirty
    back,       \* bSurface
    front,      \* fSurface
    nEvents

vars == <<order, rect, prev, image, dirty, back, front, nEvents>>

Pixels == {<<i, j>> \in (Screen.x .. getRight(Screen) - 1) \X
                        (Screen.y .. getBottom(Screen) - 1) : TRUE}

Covers(r, p) == In(p[1], p[2], r)

---------------------------------------------------------------------------
(* ClipRegions: a list of rectangles with the window each is there for *)

pushRect(clips, c) == IF Len(clips) < MaxClipped THEN Append(clips, c) ELSE clips

PushSplits(clips, c, cut) ==
    FoldLeft(LAMBDA acc, r : pushRect(acc, [rect |-> r, win |-> c.win]),
             clips, getSplitRects(c.rect, cut))

deleteRect(clips, i) == RemoveAt(clips, i)

FirstOverlap(clips, r) ==
    SelectInSeq(clips, LAMBDA c : overlaps(c.rect, r))

RECURSIVE removeClippedRegion(_, _)
removeClippedRegion(clips, r) ==
    LET i == FirstOverlap(clips, r)
    IN  IF i = 0 THEN clips
        ELSE removeClippedRegion(deleteRect(PushSplits(clips, clips[i], r), i), r)

addClippedRegion(clips, r, w) ==
    pushRect(removeClippedRegion(clips, r), [rect |-> r, win |-> w])

DropOverlap(clips, r, w) == removeClippedRegion(clips, r)

\* The overlaps are kept aside (overlapping) and pushed at the end.
RECURSIVE DivideFrom(_, _, _, _)
DivideFrom(clips, r, w, aside) ==
    LET i == FirstOverlap(clips, r)
        part == [rect |-> getOverlapRect(r, clips[i].rect), win |-> w]
    IN  IF i = 0 THEN FoldLeft(pushRect, clips, aside)
        ELSE DivideFrom(deleteRect(PushSplits(clips, clips[i], r), i), r, w,
                        pushRect(aside, part))

divideClippedRegion(clips, r, w) == DivideFrom(clips, r, w, <<>>)

---------------------------------------------------------------------------
(* Dirty regions *)

Children(w) == IF w = Root THEN order ELSE Inside[w]

RECURSIVE PreOrder(_)
PreOrder(w) == FoldLeft(LAMBDA acc, c : acc \o PreOrder(c), <<w>>, Children(w))

RECURSIVE Ancestors(_)
Ancestors(w) == IF w = Root THEN {} ELSE {Parent[w]} \cup Ancestors(Parent[w])

AddNewOnly(clips, w) == addClippedRegion(clips, rect[w], w)

AddWindow(clips, w) == addClippedRegion(addClippedRegion(clips, rect[w], w), prev[w], w)

createDirtyWindowRegions ==
    FoldLeft(AddWindow, <<>>, SelectSeq(PreOrder(Root),
                LAMBDA w : w \in dirty /\ Ancestors(w) \cap dirty = {}))

createDirtyMouseRegion(clips) ==
    IF Mouse \in dirty THEN addClippedRegion(clips, prev[Mouse], Mouse) ELSE clips

---------------------------------------------------------------------------
(* Drawing *)

\* 8-bit arithmetic of alphaBlendPixel.
AlphaOut(a, b) == (a + (((b * (256 - a)) \div 256) % 256)) % 256

alphaBlendPixel(a, b) ==
    IF a.alpha = 255 THEN a
    ELSE IF a.alpha = 0 THEN b
    ELSE [of |-> a.of \o b.of, alpha |-> AlphaOut(a.alpha, b.alpha)]

\* The pixel of window w's buffer that falls on p.
Source(w, p) ==
    [of |-> << <<w, image[w], p[1] - rect[w].x, p[2] - rect[w].y>> >>, alpha |-> Alpha[w]]

\* Drawing is restricted to the clip and the window.
InDrawRect(c, w, p) == Covers(rect[w], p) /\ Covers(c.rect, p)

BlitOn(v, c, w, p) ==
    IF c.win \in Transparent THEN alphaBlendPixel(v, Source(w, p)) ELSE Source(w, p)

RECURSIVE DrawOrder(_)
DrawOrder(w) == FoldLeft(LAMBDA acc, c : acc \o DrawOrder(c), <<>>, Reverse(Children(w)))
                    \o <<w>>

Drawn == SelectSeq(DrawOrder(Root), LAMBDA w : w \notin Invisible)

ClipsAfter(clips, w) ==
    IF w \in Transparent THEN divideClippedRegion(clips, rect[w], w)
    ELSE removeClippedRegion(clips, rect[w])

\* drawWindow(root): each window is blitted into the clips left when its turn comes.
RECURSIVE Blits(_, _)
Blits(clips, wins) ==
    IF wins = <<>> THEN <<>>
    ELSE [k \in DOMAIN clips |-> [clip |-> clips[k], win |-> Head(wins)]]
            \o Blits(ClipsAfter(clips, Head(wins)), Tail(wins))

drawWindow(blits, p) ==
    FoldLeft(LAMBDA v, b : BlitOn(v, b.clip, b.win, p), back[p],
             SelectSeq(blits, LAMBDA b : InDrawRect(b.clip, b.win, p)))

MousePixel(p) ==
    [of |-> << <<Mouse, 0, p[1] - rect[Mouse].x, p[2] - rect[Mouse].y>> >>, alpha |-> 255]

render ==
    /\ nEvents = RenderAt + 1
    /\ LET clips == createDirtyMouseRegion(createDirtyWindowRegions)
           blits == Blits(clips, Drawn)
       IN  /\ back' = IF clips = <<>> THEN back
                      ELSE [p \in Pixels |-> IF Covers(rect[Mouse], p) THEN MousePixel(p)
                                             ELSE drawWindow(blits, p)]
           /\ front' = [p \in Pixels |-> IF \E k \in DOMAIN clips : Covers(clips[k].rect, p)
                                         THEN back'[p] ELSE front[p]]
    /\ prev' = [w \in DOMAIN prev |-> IF w \in dirty THEN rect[w] ELSE prev[w]]
    /\ dirty' = {}
    /\ nEvents' = 0
    /\ UNCHANGED <<order, rect, image>>

---------------------------------------------------------------------------
(* What the events between two renders change *)

Blank == [of |-> <<>>, alpha |-> 0]

Init ==
    /\ order = StartOrder
    /\ rect = [w \in Windows \cup {Mouse} |-> IF w = Mouse THEN MouseStart ELSE StartRect[w]]
    /\ prev = rect
    /\ image = [w \in Windows |-> 0]
    /\ dirty = {Root}
    /\ back = [p \in Pixels |-> Blank]
    /\ front = [p \in Pixels |-> Blank]
    /\ nEvents = 0

Event == nEvents <= RenderAt /\ nEvents' = nEvents + 1 /\ UNCHANGED <<prev, back, front>>

Shift(r, d) == [r EXCEPT !.x = @ + d[1], !.y = @ + d[2]]

RECURSIVE Subtree(_)
Subtree(w) == {w} \cup UNION {Subtree(c) : c \in Range(Children(w))}

\* MenuBar::onWindowDrag
drag(w, d) ==
    /\ Event
    /\ <<rect[w].x + d[1], rect[w].y + d[2]>> \in DragTo
    /\ rect' = [v \in DOMAIN rect |-> IF v \in Subtree(w) THEN Shift(rect[v], d) ELSE rect[v]]
    /\ dirty' = dirty \cup {w}
    /\ UNCHANGED <<order, image>>

\* Window::appendWindow: above the last window that has no higher priority,
\* below all others.
appendWindow(windows, w) ==
    LET i == SelectLastInSeq(windows, LAMBDA v : Priority[w] >= Priority[v])
    IN  InsertAt(windows, i + 1, w)

\* Window::moveToTop.  A click on a window that does not move has no effect.
raise(w) ==
    /\ Event
    /\ order' = appendWindow(SelectSeq(order, LAMBDA v : v # w), w)
    /\ order' # order
    /\ dirty' = dirty \cup {Root}
    /\ UNCHANGED <<rect, image>>

HoverOn(b) == Event /\ image' = [image EXCEPT ![b] = @ + 1]
                /\ dirty' = dirty \cup {b} /\ UNCHANGED <<order, rect>>

\* Button::onWindowHover and onWindowUnhover
hover(b) ==
    /\ Event
    /\ image' = [image EXCEPT ![b] = 1 - @]
    /\ dirty' = dirty \cup {b}
    /\ UNCHANGED <<order, rect>>

\* CWindow::updateMousePos
moveMouse(d) ==
    /\ Event
    /\ rect' = [rect EXCEPT
          ![Mouse].x = IF @ + d[1] >= 0 /\ @ + d[1] < Screen.width THEN @ + d[1] ELSE @,
          ![Mouse].y = IF @ + d[2] >= 0 /\ @ + d[2] < Screen.height THEN @ + d[2] ELSE @]
    /\ dirty' = dirty \cup {Mouse}
    /\ UNCHANGED <<order, image>>

Next ==
    \/ render
    \/ \E w \in Draggable, d \in Moves : drag(w, d)
    \/ \E w \in Decorated : raise(w)
    \/ \E b \in HoverButtons : hover(b)
    \/ \E d \in Moves : moveMouse(d)

Spec == Init /\ [][Next]_vars

---------------------------------------------------------------------------
TypeOK ==
    /\ Range(order) = Range(StartOrder) /\ Len(order) = Len(StartOrder)
    /\ \A w \in DOMAIN rect : {rect[w], prev[w]} \subseteq Rectangles
    /\ image \in [Windows -> {0, 1}]
    /\ dirty \subseteq Windows \cup {Mouse}
    /\ DOMAIN back = Pixels /\ DOMAIN front = Pixels
    /\ nEvents \in 0 .. RenderAt + 1

\* The image the windows describe: at each pixel every visible window over it,
\* from the front to the first opaque one, blended in that order.
Composed(p) ==
    LET over == SelectSeq(Drawn, LAMBDA w : Covers(rect[w], p))
        first == SelectInSeq(over, LAMBDA w : w \notin Transparent)
    IN  FoldLeft(LAMBDA v, w : alphaBlendPixel(v, Source(w, p)), Blank, SubSeq(over, 1, first))

\* Redrawing only what changed is enough: when no window is dirty, the screen
\* shows what composing all windows anew would show, everywhere outside the
\* mouse, after any sequence of drags, raises, hovers and renders.
ScreenComposed ==
    dirty = {} => \A p \in Pixels : Covers(rect[Mouse], p) \/ front[p] = Composed(p)

\* The back buffer is as good a start for the next render, and holds the mouse.
BackComposed ==
    dirty = {} => \A p \in Pixels :
        back[p] = IF Covers(rect[Mouse], p) THEN MousePixel(p) ELSE Composed(p)

\* The comment at createDirtyMouseRegion: the new location of the mouse is
\* rendered, so the screen shows the mouse where it is.
MouseShown ==
    dirty = {} => \A p \in Pixels : Covers(rect[Mouse], p) => front[p] = MousePixel(p)
=============================================================================
