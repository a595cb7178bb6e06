SPECIFICATION Spec
CONSTANTS
    h1 = h1
    h2 = h2
    Handlers = {h1, h2}
    Serves <- OneDirectoryThread
    Emails = {e1}
    Oids = {o1, o2}
    TicketIds = {t1, t2}
    Batch = 1
    MayFail <- NothingFails
    VaultMayRefuse = FALSE
    MaxHeld = 2
    MaxRestarts = 0
    None = None
    Empty = Empty
    Malformed = Malformed
INVARIANT NoTupleOutlives
