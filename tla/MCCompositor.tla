--------------------------- MODULE MCCompositor ----------------------------
(***************************************************************************)
(* Two decorated (so invisible) windows on a screen of four by two pixels. *)
(* One has an opaque bar with a corner of alpha 0 and a half transparent   *)
(* body, the other an opaque body with a hover button.  The taskbar, of    *)
(* higher priority, stays above both.                                      *)
(***************************************************************************)
EXTENDS Compositor

CONSTANTS A, BarA, CornerA, BodyA, B, BodyB, ButtonB, Taskbar

MCWindows == {Root, A, BarA, CornerA, BodyA, B, BodyB, ButtonB, Taskbar}
MCParent == [w \in MCWindows \ {Root} |->
                CASE w \in {A, B, Taskbar} -> Root
                  [] w \in {BarA, CornerA, BodyA} -> A
                  [] w = BodyB -> B
                  [] w = ButtonB -> BodyB]
MCInside == [w \in MCWindows \ {Root} |->
                CASE w = A -> <<BodyA, BarA, CornerA>>
                  [] w = B -> <<BodyB>>
                  [] w = BodyB -> <<ButtonB>>
                  [] OTHER -> <<>>]
MCStartOrder == <<A, B, Taskbar>>
MCPriority == [w \in {A, B, Taskbar} |-> IF w = Taskbar THEN 9 ELSE 2]
MCStartRect == [w \in MCWindows |->
                CASE w = Root -> Rect(0, 0, 4, 2)
                  [] w = A -> Rect(0, 0, 2, 2)
                  [] w = BarA -> Rect(0, 0, 2, 1)
                  [] w = CornerA -> Rect(0, 0, 1, 1)
                  [] w = BodyA -> Rect(0, 1, 2, 1)
                  [] w \in {B, BodyB} -> Rect(1, 0, 3, 2)
                  [] w = ButtonB -> Rect(2, 1, 1, 1)
                  [] w = Taskbar -> Rect(3, 1, 1, 1)]
MCAlpha == [w \in MCWindows |-> CASE w = CornerA -> 0
                                  [] w = BodyA -> 128
                                  [] OTHER -> 255]
MCDragTo == (0 .. 2) \X (0 .. 1)
MCMoves == {<<1, 0>>, <<-1, 1>>, <<0, -1>>}
MCMouseStart == Rect(2, 1, 1, 1)
MCScreen == Rect(0, 0, 4, 2)
=============================================================================
