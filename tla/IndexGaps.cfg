SPECIFICATION Spec
CONSTANTS
    h1 = h1
    h2 = h2
    None = None
    Handlers = {h1, h2}
    Ids = {1, 2}
    MaxChanges = 3
\* One pair of lines at a time; each ends in a counterexample.
    Scenarios <- BatchAndHook
INVARIANT NeverOlder
\*    Scenarios <- BatchAndSearch
\* INVARIANT SearchComplete
\*    Scenarios <- Alone
\* INVARIANT OnlyCommitted
