SPECIFICATION Spec
CONSTANTS
    Client = {c1, c2}
    Session = {s1}
    None = None
    MaxCount = 2
SYMMETRY Clients
INVARIANTS SessionsEndWithPanel SessionsOfServer EveryoneHeard FailedTruth NotShownStopped
