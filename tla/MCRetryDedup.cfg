CONSTANTS
    IDs = {i1, i2, i3}
    Contents = {x, y}
    First = {x}
    None = None
    Handlers = {h1, h2}
    NoHandler = NoHandler
    Capacity = 2
    CompactAt = 2
    DiskFails = TRUE
    ReadFails = "once"
SPECIFICATION Spec
SYMMETRY Symmetry
INVARIANTS
    TypeOK
    ReceiptKept
    AnsweredIsNotRepeated
    OKIfLogWasRead
VIEW InUseView
