\* Two calls that write the same places, nothing fails and nothing is undone.
SPECIFICATION Spec
CONSTANTS
    f = f
    k1 = k1
    k2 = k2
    old = old
    new = new
    crlf = crlf
    blob = blob
    errorText = errorText
    binary = binary
    toolText = toolText
    Calls = {c1, c2}
    Held = {}
    Undos = {}
    Files = {f}
    Keys = {k1, k2}
    Contents = {old, new, crlf, blob, errorText, binary, toolText}
    ErrorLike = {errorText}
    Undecodable = {binary}
    ToolError = toolText
    FileText <- MCFileText
    RowText <- MCRowText
    Effects <- MCEffects
    InitialWorlds <- MCWorlds
    MaxFaults = 0
INVARIANTS
    PreImageIsExact
CHECK_DEADLOCK FALSE
