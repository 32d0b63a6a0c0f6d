SPECIFICATION FewSpec
CONSTANTS
    Client = Client
    Server = Server
    Data = {a, b}
    NoData = NoData
    KeepAlive = {Client}
    MaxSend <- TwoAndOne
    MaxSocket = 1
    MaxFaults = 2
    Handover = FALSE
    Lossy = TRUE
CHECK_DEADLOCK FALSE
INVARIANTS DeliveredInOrder NothingForgotten
PROPERTIES ImplementsLink
