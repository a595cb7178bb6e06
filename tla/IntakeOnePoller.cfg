SPECIFICATION Spec
CONSTANTS
    h1 = h1
    h2 = h2
    a1 = a1
    a2 = a2
    x1 = x1
    x2 = x2
    m1 = m1
    m2 = m2
    m3 = m3
    i1 = i1
    i2 = i2
    i3 = i3
    i4 = i4
    Handlers = {h1, h2}
    Addresses = {a1, a2}
    OpaqueId <- OpaqueIds
    Mails = {m1, m2, m3}
    MailTickets = {1, 2}
    Items = {i1, i2, i3, i4}
    Jira = {i1, i4}
    Marked = {i1, i2, i4}
    Reporter <- Reporters
    Unknown = Unknown
    MayFail <- NothingFails
    None = None
\* One group of lines at a time; each ends in a counterexample.
    Scenarios <- OnePoller
INVARIANT TokensUnique
\*    Scenarios <- OnePoller
\* INVARIANT FiledOnce
\*    Scenarios <- OnePollerAndPuts
\* INVARIANT RepliesFollow
\*    Scenarios <- OneUnverified
\* PROPERTY HeldPersists
