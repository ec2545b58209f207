SPECIFICATION ToolsSpec
CONSTANTS
    Name = {Root, a, b}
    Root = Root
    a = a
    b = b
    Views <- MCViews
    MaxNodes = 20
    MaxComponents = 2
    MaxDepth = 5
    MaxRender = 4
    MaxBytes = 9
    MaxData = 8
    Command = {"/join", "/dance"}
    Lines = 2
    MaxActions = 3
    MaxClicks = 3
    Glyphs = {e}
    Epoch = {0, 1}
    Text = {hello, bye}
    Key = {k1, k2}
    Empty = Empty
    Nothing = Nothing
    ShortKey = ShortKey
    Domain = Domain
    OtherDomain = OtherDomain
    Refused = Refused
    MaxEdits = 1
CHECK_DEADLOCK FALSE
INVARIANTS BudgetSound TerminalSound CopySound RenderSound CodecSound BuildSound
PROPERTIES ToolsEnd
