SPECIFICATION WorkbenchSpec
CONSTANTS
    Stops <- PanelStops
    Loaded <- PanelMemory
    WrittenCells = {4}
    Values = {1}
    PrintedCells = {1}
    MaxElems = 3
    RefBase = 10
    MaxPauses = 2
    MaxTraces = 1
    MaxEdits = 1
    Indexed <- SplitIndexed
    Indices <- EvalPath
    DebuggerTools = {}
    LanguageTools = {}
    EditTools <- OnlyFormat
    CoreTools = {}
    Memory <- LineMemory
    Frm = 8
    Stk = 6
    Hea = 3
    Hlw = 2
    Stp = 9
    Margin = 1
    Pri = 1
    Alt = 2
    OperandsOf <- LineOperands
    Results = {2}
    MaxSteps = 4
    Top = 5
    CodeAddrs = {1}
    BreakpointLists <- SomeBreakpoints
    MaxDepth = 3
    MaxMoves = 6
    MaxOrders = 1
    Roots = {r1, r2}
    NoRoot = none
    MaxSaves = 2
    MaxOps = 3
    InputsOf <- ToolArguments
    AnswerOf <- ToolValue
    IsRight <- ToolRight
INVARIANT LinesArePreserved
CHECK_DEADLOCK FALSE
