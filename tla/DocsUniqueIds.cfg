SPECIFICATION Spec
CONSTANTS
    h1 = h1
    h2 = h2
    ann = ann
    bob = bob
    a = a
    b = b
    None = None
    Handlers = {h1, h2}
    Serves <- AnyThread
    Editors = {ann, bob}
    Paths = {1, 2}
    Ids = {a}
    MaxWrites = 2
    GitMayFail = FALSE
    MayRestart = FALSE
SYMMETRY Alike
INVARIANTS
    UniqueIds
