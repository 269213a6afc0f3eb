SPECIFICATION FairSpec
CONSTANTS
    Keys <- TwoKeys
    Clients <- TwoClients
    k1 = k1
    k2 = k2
    c1 = c1
    c2 = c2
    None = None
    Roles = {TRUE, FALSE}
    Backlog = 1
    Events = {"foreign", "accept", "stop"}
\* Nothing is left to do when both keys are published and all clients gone.
CHECK_DEADLOCK FALSE
INVARIANTS TypeOK PublishedIsFound NobodyForgotten
PROPERTIES VoidOnlyAfterLoop OnlyForeignPortRaises EveryRequestAnswered
