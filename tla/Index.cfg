SPECIFICATION FairSpec
CONSTANTS
    h1 = h1
    h2 = h2
    None = None
    Handlers = {h1, h2}
    Scenarios <- Scenes
    Ids = {1, 2}
    MaxChanges = 2
INVARIANTS
    TypeOK
    FresherWins
    IndexedAsWritten
PROPERTY EventuallyFresh
