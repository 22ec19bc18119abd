CONSTANTS
    Root = Root  Mouse = Mouse
    A = A  BarA = BarA  CornerA = CornerA  BodyA = BodyA
    B = B  BodyB = BodyB  ButtonB = ButtonB
    Taskbar = Taskbar
    Windows <- MCWindows
    Parent <- MCParent
    Inside <- MCInside
    StartOrder <- MCStartOrder
    Priority <- MCPriority
    Decorated = {A, B}
    StartRect <- MCStartRect
    Transparent = {CornerA, BodyA}
    Invisible = {A, B}
    Alpha <- MCAlpha
    Draggable = {A}
    HoverButtons = {ButtonB}
    DragTo <- MCDragTo
    Moves <- MCMoves
    MouseStart <- MCMouseStart
    Screen <- MCScreen
    MaxClipped = 200
    RenderAt = 1
SPECIFICATION Spec
INVARIANTS
    ScreenComposed
