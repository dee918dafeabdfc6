SPECIFICATION FairSpec
CONSTANTS
    Tasks = {"monitor", "publisher", "test"}
    MaxCalls = 3
    MaxEvents = 3
    MaxUnread = 3
INVARIANTS
    TypeOK
    OneExchange
    AnswersAreOwn
    EventsInOrder
PROPERTIES
    ImplementsExchangeQueue
CHECK_DEADLOCK FALSE
