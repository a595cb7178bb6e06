SPECIFICATION Spec
CONSTANTS
    h1 = h1
    h2 = h2
    Handlers = {h1, h2}
    Serves <- OneDirectoryThread
    Emails = {e1}
    Oids = {o1, o2}
    TicketIds = {t1, t2}
    Batch = 1
    MayFail <- DiskFails
    VaultMayRefuse = TRUE
    MaxHeld = 2
    MaxRestarts = 1
    None = None
    Empty = Empty
    Malformed = Malformed
\* One at a time; the other is violated as well.
INVARIANT RequestersSurvive
\* INVARIANT BodiesShredded
\* The addresses, ids and mails may be used up before there is a ticket.
CHECK_DEADLOCK FALSE
