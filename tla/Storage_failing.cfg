SPECIFICATION FairSpec
CONSTANTS
    Window = {w1}
    Writer = {w1, Main}
    Early = {}
    Flusher = {Main}
    w1 = w1
    Main = Main
    Absent = Absent
    NoRequest = NoRequest
    Key = {k, l}
    Val = {a}
    MaxWrites = 2
    MaxFailures = 2
INVARIANT CloseSaves
INVARIANT WriteScheduled
PROPERTY ImplementsWriteBehind
PROPERTY Propagates
PROPERTY CloseEndsUnlessFailed
PROPERTY WhenFlushedEnds
CHECK_DEADLOCK FALSE
