SPECIFICATION Spec
CONSTANTS
    h1 = h1
    h2 = h2
    agent = agent
    customer = customer
    visitor = visitor
    t1 = t1
    t2 = t2
    None = None
    Handlers = {h1, h2}
    Serves <- FileAndReply
    Principals = {agent, customer}
    Agents = {agent}
    TicketIds = {t1}
    InitialTickets <- SeededEncrypted
    MaxThread = 2
    GitStore = TRUE
    GrantMayFail = FALSE
\* One at a time; the others are violated as well.
INVARIANT EncryptedAtRest
\* INVARIANT CiphertextNeverShown
