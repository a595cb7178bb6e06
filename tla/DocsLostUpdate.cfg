SPECIFICATION Spec
CONSTANTS
    h1 = h1
    h2 = h2
    ann = ann
    bob = bob
    a = a
    b = b
    None = None
    Handlers = {h1, h2}
    Serves <- AnyThread
    Editors = {ann, bob}
    Paths = {1}
    Ids = {a}
    MaxWrites = 3
    GitMayFail = FALSE
    MayRestart = FALSE
SYMMETRY Alike
PROPERTIES
    NoLostUpdate
