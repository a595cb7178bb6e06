SPECIFICATION Spec
CONSTANTS
    h1 = h1
    h2 = h2
    Handlers = {h1, h2}
    Serves <- OneDirectoryThread
    Emails = {e1}
    Oids = {o1, o2}
    TicketIds = {t1, t2}
    Batch = 1
    MayFail <- CallsFail
    VaultMayRefuse = FALSE
    MaxHeld = 2
    MaxRestarts = 1
    None = None
    Empty = Empty
    Malformed = Malformed
INVARIANTS
    TypeOK
    StaysForgotten
    ReceiptHolds
    RequestersSurvive
PROPERTY OneIdPerAddress
