SPECIFICATION FairSpec
CONSTANTS
    Clients = {c1, c2}
    MaxEvents = 3
    MaxTickets = 3
    MaxFaults = 1
INVARIANT TicketsMatchHolders
PROPERTIES InOrder Delivered
CHECK_DEADLOCK FALSE
