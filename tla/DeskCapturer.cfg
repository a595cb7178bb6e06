SPECIFICATION Spec
CONSTANTS
    h1 = h1
    h2 = h2
    agent = agent
    customer = customer
    visitor = visitor
    t1 = t1
    t2 = t2
    None = None
    Handlers = {h1, h2}
    Serves <- CaptureAndWork
    Principals = {agent, customer}
    Agents = {agent}
    TicketIds = {t1}
    InitialTickets <- Empty
    MaxThread = 1
    GitStore = FALSE
    GrantMayFail = FALSE
PROPERTIES CapturerKept
