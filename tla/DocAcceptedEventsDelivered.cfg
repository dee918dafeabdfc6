SPECIFICATION Spec
CONSTANTS
    Capacity = 2
    Devices <- MCDevices
    SafeName <- MCSafeName
    Messages <- MCMessages
    InitialDelay = 5
    MaxDelay = 15
    MaxOffers = 3
    MaxCommands = 0
    MaxFailures = 2
PROPERTIES
    AcceptedEventsDelivered
