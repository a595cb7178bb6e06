SPECIFICATION Spec
CONSTANTS
    h1 = h1
    h2 = h2
    agent = agent
    customer = customer
    visitor = visitor
    t1 = t1
    t2 = t2
    None = None
    Handlers = {h1, h2}
    Serves <- LifecycleOnly
    Principals = {agent, customer, visitor}
    Agents = {agent}
    TicketIds = {t1}
    InitialTickets <- Seeded
    MaxThread = 1
    GitStore = FALSE
    GrantMayFail = FALSE
\* One at a time; the others are violated as well.
PROPERTY VisibleOnlyFromResolved
\* PROPERTY OnlyLegalMoves
