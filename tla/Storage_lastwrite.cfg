SPECIFICATION Spec
CONSTANTS
    Window = {w1}
    Writer = {w1}
    Early = {}
    Flusher = {}
    w1 = w1
    Main = Main
    Absent = Absent
    NoRequest = NoRequest
    Key = {k}
    Val = {a, b}
    MaxWrites = 3
    MaxFailures = 0
INVARIANT LastWriteKept
CHECK_DEADLOCK FALSE
