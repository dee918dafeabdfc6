SPECIFICATION SessionSpec
CONSTANTS
    Capacity = 2
    Devices <- MCDevices
    SafeName <- MCSafeName
    Messages <- MCMessages
    InitialDelay = 5
    MaxDelay = 8
    MaxOffers = 3
    MaxCommands = 1
    MaxFailures = 1
    MaxLosses = 1
INVARIANTS
    TypeOK
    ImportantFirst
    OneValuePerTopic
    ImportantHeadStable
    OrderPerTopic
    
PROPERTIES
    ImportantLeavesByPop
    EventsAdmitted
    LossesCounted
    Drains
    SessionReturns
    ImplementsPriorityBuffer
