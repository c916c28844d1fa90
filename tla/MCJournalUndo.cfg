\* Two mutations of any kind and two undo requests, and one crash,
\* cancellation or failed request.
SPECIFICATION Spec
CONSTANTS
    f = f
    k1 = k1
    k2 = k2
    old = old
    new = new
    crlf = crlf
    blob = blob
    errorText = errorText
    binary = binary
    toolText = toolText
    Calls = {c1, c2}
    Held = {c1}
    Undos = {u1, u2}
    Files = {f}
    Keys = {k1, k2}
    Contents = {old, new, crlf, blob, errorText, binary, toolText}
    ErrorLike = {errorText}
    Undecodable = {binary}
    ToolError = toolText
    FileText <- MCFileText
    RowText <- MCRowText
    Effects <- MCEffects
    InitialWorlds <- MCWorlds
    MaxFaults = 1
SYMMETRY MCSymmetry
INVARIANTS
    TypeOK
    CaptureBeforeMutation
    RecordedIsRestored
    UndoRestores
PROPERTIES
    ImplementsRecovery
\* Once every request is answered the process only waits for the next one.
CHECK_DEADLOCK FALSE
