SPECIFICATION Spec
CONSTANTS
    x1 = x1
    x2 = x2
    c1 = c1
    c2 = c2
    k1 = k1
    k2 = k2
    Tasks = {k1, k2}
    number = number
    object = object
    Names = {x1, x2, EmptyName, number, object}
    Plain = {x1, x2}
    EmptyName = EmptyName
    Unhashable = {object}
    Schemas = {c1, c2}
    NoSchema = NoSchema
    Manifests <- MCManifests
    Methods = {"tools/list", "tools/call"}
    StrictSchema = TRUE
    EnvelopeCap = 1
    NoMethod = NoMethod
    MaxDepth = 2
    MaxCalls = 4
SYMMETRY Symmetry
INVARIANTS TypeOK
PROPERTIES LearnsWhatIsListed
CHECK_DEADLOCK FALSE
