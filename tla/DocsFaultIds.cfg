SPECIFICATION Spec
CONSTANTS
    h1 = h1
    h2 = h2
    ann = ann
    bob = bob
    a = a
    b = b
    None = None
    Handlers = {h1}
    Serves <- AnyThread
    Editors = {ann, bob}
    Paths = {1, 2}
    Ids = {a, b}
    MaxWrites = 3
    GitMayFail = TRUE
    MayRestart = FALSE
SYMMETRY Alike
INVARIANTS
    UniqueIds
