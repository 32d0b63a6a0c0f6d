SPECIFICATION FewFairSpec
CONSTANTS
    Client = Client
    Server = Server
    Data = {a}
    NoData = NoData
    KeepAlive = {}
    MaxSend <- TwoAndOne
    MaxSocket = 3
    MaxFaults = 2
    Handover = TRUE
    Lossy = FALSE
CHECK_DEADLOCK FALSE
INVARIANTS TimeoutWatches NoGap AckScheduled
PROPERTIES EveryMessageAcknowledged ClientMessagesAcknowledged
