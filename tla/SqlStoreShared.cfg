SPECIFICATION SqlSpec
CONSTANTS
    Callers = {c1, c2}
    Writers = {c1}
    Ids = {i1, i2}
    Contents = {"pending", "completed"}
    NoRow = NoRow
    SharedConnection = TRUE
INVARIANT AcknowledgedKept
