SPECIFICATION Spec
CONSTANTS
    Window = {w1, w2}
    Writer = {w1, w2, Main}
    Early = {w1, w2}
    Flusher = {}
    w1 = w1
    w2 = w2
    Main = Main
    Absent = Absent
    NoRequest = NoRequest
    Key = {k}
    Val = {a}
    MaxWrites = 3
    MaxFailures = 0
SYMMETRY Windows
INVARIANT Converged
CHECK_DEADLOCK FALSE
