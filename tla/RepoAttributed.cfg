SPECIFICATION Spec
CONSTANTS
    h1 = h1
    h2 = h2
    h3 = h3
    ann = ann
    bob = bob
    t1 = t1
    None = None
    Handlers = {h1, h2}
    TicketIds = {t1}
    Humans = {ann, bob}
    Texts = {"x", "y"}
    Says <- VersionedTickets
    MaxFiles = 1
    GitMayFail = FALSE
    MayRestart = FALSE
INVARIANTS
    CommitsAttributed
