SPECIFICATION FairSpec
CONSTANTS
    order = order
    signal = signal
    AnyType = AnyType
    o1 = o1
    o2 = o2
    s1 = s1
    book = book
    ticket = ticket
    trace = trace
    Types = {order, signal}
    Events = {o1, o2, s1}
    TypeOf <- EventTypes
    Subscribers = {book, ticket, trace}
    Filter <- Filters
    Sync = {book, ticket}
    MaxRuns = 2
INVARIANTS
    BusInvariant
PROPERTIES
    DeliverySpec
    QueueDrains
CHECK_DEADLOCK FALSE
